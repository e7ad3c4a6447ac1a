---------------------------- MODULE AppenderFlush ----------------------------
(***************************************************************************)
(* The foreign-key flush guard of ingest_loop.  Rows of commits, changes    *)
(* and hunks go through three DuckDB appenders; each buffers its rows and   *)
(* writes the whole buffer when it reaches Threshold rows, or when flush()  *)
(* is called, and that write fails if a referenced parent row is still in   *)
(* another appender's buffer.  The guard flushes the parents once every     *)
(* STANDARD_VECTOR_SIZE child rows.                                         *)
(*                                                                          *)
(* The appender is external; a row count since its own last write that      *)
(* reaches Threshold triggers the checked write, as the comment on          *)
(* STANDARD_VECTOR_SIZE and the regression test (204800 rows) describe it.  *)
(* commit_parents and author_aliases carry no foreign key and are left out. *)
(***************************************************************************)
EXTENDS Integers, Sequences

CONSTANTS STANDARD_VECTOR_SIZE,  \* rows of one data chunk: the guard's cadence
          Chunks,                \* chunks an appender buffers before it writes
          MaxCommits, MaxChanges, MaxHunks   \* bounds of the event stream

ASSUME AppendersAssumption ==
    /\ STANDARD_VECTOR_SIZE \in Nat \ {0}
    /\ Chunks \in Nat \ {0}
    /\ MaxCommits \in Nat /\ MaxChanges \in Nat /\ MaxHunks \in Nat

\* The cadence divides the threshold.
Threshold == Chunks * STANDARD_VECTOR_SIZE

VARIABLES commits, changes, hunks,   \* rows physically in each table
          cbuf, chbuf, hbuf,         \* rows still in each appender, in order
          change_appends, hunk_appends,
          rev,       \* commit whose rows are being appended (0: none yet)
          path,      \* its latest change row (0: none yet)
          drain     \* open | done | the table whose checked write failed

tables  == <<commits, changes, hunks>>
buffers == <<cbuf, chbuf, hbuf>>
appenders == <<tables, buffers, change_appends, hunk_appends, rev, path, drain>>

\* A commit is its number in the stream, a path the number of its change row.
Rev == 1 .. MaxCommits
ChangeRow == [rev : Rev, path : 1 .. MaxChanges]
HunkRow == [rev : Rev, path : 1 .. MaxChanges, start : 1 .. MaxHunks]

AppendersInit ==
    /\ commits = {} /\ changes = {} /\ hunks = {}
    /\ cbuf = <<>> /\ chbuf = <<>> /\ hbuf = <<>>
    /\ change_appends = 0 /\ hunk_appends = 0
    /\ rev = 0 /\ path = 0
    /\ drain = "open"

\* Mutant: the boundary found one row late.
crosses_late(prev_total) == prev_total > 0 /\ prev_total % STANDARD_VECTOR_SIZE = 0

crosses_chunk_boundary(prev_total) == (prev_total + 1) % STANDARD_VECTOR_SIZE = 0

RowsOf(buf) == {buf[k] : k \in 1 .. Len(buf)}

CommitsPresent(buf, parents) == \A k \in 1 .. Len(buf) : buf[k].rev \in parents
ChangesPresent(buf, parents) ==
    \A k \in 1 .. Len(buf) : [rev |-> buf[k].rev, path |-> buf[k].path] \in parents

\* commits references nothing, so its write cannot fail.
append_commit ==
    /\ drain = "open" /\ rev < MaxCommits
    /\ rev' = rev + 1 /\ path' = 0
    /\ LET buf == Append(cbuf, rev + 1)
       IN IF Len(buf) = Threshold
          THEN commits' = commits \cup RowsOf(buf) /\ cbuf' = <<>>
          ELSE cbuf' = buf /\ UNCHANGED commits
    /\ UNCHANGED <<changes, hunks, chbuf, hbuf, change_appends, hunk_appends, drain>>

\* Up to its hunks: the guard flushes commits, then the row goes
\* into the buffer, which may fill and be written.
append_change ==
    /\ drain = "open" /\ rev > 0 /\ change_appends < MaxChanges
    /\ change_appends' = change_appends + 1 /\ path' = change_appends + 1
    /\ LET guard   == crosses_chunk_boundary(change_appends)
           parents == IF guard THEN commits \cup RowsOf(cbuf) ELSE commits
           buf     == Append(chbuf, [rev |-> rev, path |-> change_appends + 1])
           full    == Len(buf) = Threshold
           ok      == CommitsPresent(buf, parents)
       IN /\ commits' = parents
          /\ cbuf' = IF guard THEN <<>> ELSE cbuf
          /\ changes' = IF full /\ ok THEN changes \cup RowsOf(buf) ELSE changes
          /\ chbuf' = IF full /\ ok THEN <<>> ELSE buf
          /\ drain' = IF full /\ ~ok THEN "changes" ELSE "open"
    /\ UNCHANGED <<hunks, hbuf, hunk_appends, rev>>

\* Mutant: hunks appended before the change they belong to.
HasCommit == rev > 0

\* Hunks follow the change row of their own file.
HasChange == path > 0

\* One hunk of the change just appended: the guard flushes commits, then
\* changes, then the row goes into the buffer.
append_hunk ==
    /\ drain = "open" /\ HasChange /\ hunk_appends < MaxHunks
    /\ hunk_appends' = hunk_appends + 1
    /\ LET guard   == crosses_chunk_boundary(hunk_appends)
           grand   == IF guard THEN commits \cup RowsOf(cbuf) ELSE commits
           guardOk == guard => CommitsPresent(chbuf, grand)
           parents == IF guard /\ guardOk THEN changes \cup RowsOf(chbuf) ELSE changes
           buf     == Append(hbuf, [rev |-> rev, path |-> path, start |-> hunk_appends + 1])
           full    == Len(buf) = Threshold
           ok      == ChangesPresent(buf, parents)
       IN /\ commits' = grand
          /\ cbuf' = IF guard THEN <<>> ELSE cbuf
          /\ changes' = parents
          /\ chbuf' = IF guard /\ guardOk THEN <<>> ELSE chbuf
          /\ hunks' = IF guardOk /\ full /\ ok THEN hunks \cup RowsOf(buf) ELSE hunks
          /\ hbuf' = IF ~guardOk THEN hbuf ELSE IF full /\ ok THEN <<>> ELSE buf
          /\ drain' = IF ~guardOk THEN "changes"
                       ELSE IF full /\ ~ok THEN "hunks" ELSE "open"
    /\ UNCHANGED <<change_appends, rev, path>>

\* Mutant: the drain forgets the hunks.
flush_parents ==
    /\ drain = "open"
    /\ LET okChanges == CommitsPresent(chbuf, commits \cup RowsOf(cbuf))
       IN /\ commits' = commits \cup RowsOf(cbuf) /\ cbuf' = <<>>
          /\ changes' = IF okChanges THEN changes \cup RowsOf(chbuf) ELSE changes
          /\ chbuf' = IF okChanges THEN <<>> ELSE chbuf
          /\ drain' = IF okChanges THEN "done" ELSE "changes"
    /\ UNCHANGED <<hunks, hbuf, change_appends, hunk_appends, rev, path>>

\* The stream is over: the three appenders are flushed, parents first.
flush_all ==
    /\ drain = "open"
    /\ LET okChanges == CommitsPresent(chbuf, commits \cup RowsOf(cbuf))
           okHunks   == ChangesPresent(hbuf, changes \cup RowsOf(chbuf))
       IN /\ commits' = commits \cup RowsOf(cbuf) /\ cbuf' = <<>>
          /\ changes' = IF okChanges THEN changes \cup RowsOf(chbuf) ELSE changes
          /\ chbuf' = IF okChanges THEN <<>> ELSE chbuf
          /\ hunks' = IF okChanges /\ okHunks THEN hunks \cup RowsOf(hbuf) ELSE hunks
          /\ hbuf' = IF okChanges /\ okHunks THEN <<>> ELSE hbuf
          /\ drain' = IF ~okChanges THEN "changes"
                       ELSE IF ~okHunks THEN "hunks" ELSE "done"
    /\ UNCHANGED <<change_appends, hunk_appends, rev, path>>

AppendersNext == append_commit \/ append_change \/ append_hunk \/ flush_all

AppendersSpec == AppendersInit /\ [][AppendersNext]_appenders

-----------------------------------------------------------------------------
(* Properties.                                                              *)

AppendersTypeOK ==
    /\ commits \subseteq Rev /\ changes \subseteq ChangeRow /\ hunks \subseteq HunkRow
    /\ cbuf \in Seq(Rev) /\ chbuf \in Seq(ChangeRow) /\ hbuf \in Seq(HunkRow)
    /\ change_appends \in 0 .. MaxChanges
    /\ hunk_appends \in 0 .. MaxHunks
    /\ rev \in 0 .. MaxCommits
    /\ path \in 0 .. MaxChanges /\ (path > 0 => rev > 0)
    /\ drain \in {"open", "done", "changes", "hunks"}

\* The guard does what it was written for: no hunks write, at the threshold or
\* at the end, ever references a change row that is still buffered; and as long
\* as that guard has not flushed changes itself, the changes appender's own
\* writes stay aligned with the change guard and find their commits.
GuardedWritesFindTheirParents ==
    /\ drain # "hunks"
    /\ drain = "changes" => hunk_appends >= STANDARD_VECTOR_SIZE

\* A completed drain has lost no row, of any of the three appenders, and put none
\* in the wrong one.
DoneMeansAllWritten ==
    drain = "done" => /\ cbuf = <<>> /\ chbuf = <<>> /\ hbuf = <<>>
                      /\ commits = 1 .. rev
                      /\ \A p \in 1 .. change_appends : \E c \in changes : c.path = p
                      /\ \A n \in 1 .. hunk_appends : \E h \in hunks : h.start = n

\* The comment on STANDARD_VECTOR_SIZE: "whenever a child buffer does perform
\* its checked write, every parent row it references has already been flushed".
ChildWritesFindTheirParents == drain \notin {"changes", "hunks"}

=============================================================================
