---------------------------- MODULE HistoryFacts ----------------------------
(***************************************************************************)
(* From a commit graph to the two questions every HEAD-time pass asks of    *)
(* the fact store: which commit is HEAD (current_head_rev), and which files *)
(* exist there (query_live_paths).                                          *)
(*                                                                          *)
(* A history is grown commit by commit, the way git allows: any author date *)
(* (a rebase or a cherry-pick keeps the old one), any parent, any tree.  It *)
(* is then walked from some HEAD as GixRepo::walk_commits does without      *)
(* --after: breadth first, each reachable commit once, merges filtered.     *)
(*                                                                          *)
(* A commit is its position in the history, a path stands for a regular     *)
(* file that no path filter excludes.  The threads that carry the rows are  *)
(* IngestPipeline's; here a row is stored when its commit is visited.       *)
(***************************************************************************)
EXTENDS Integers, Sequences, FiniteSets

CONSTANTS Paths,       \* file paths
          Trees,       \* the trees a commit may have, sets of paths
          Dates,       \* author dates, in seconds
          MaxCommits   \* bound on the history's length

ASSUME HistoryAssumption ==
    /\ Trees \subseteq SUBSET Paths
    /\ Dates \subseteq Nat /\ Dates # {}
    /\ MaxCommits \in Nat \ {0}

VARIABLES history,         \* commits, parents before children
          phase,           \* grow | walk | done
          head,            \* the commit HEAD names
          include_merges,  \* Options::include_merges
          queue, seen,     \* gix's walk
          oids,            \* what it has yielded
          rows,            \* commits table in rowid order
          headRev,         \* current_head_rev's answer
          live             \* query_live_paths' answer

walk == <<queue, seen, oids, rows>>
vars == <<history, phase, head, include_merges, walk, headRev, live>>

NoCommit == 0
Commits == 1 .. Len(history)

ChangeTypes == {"added", "modified", "deleted", "renamed"}
Change == [path : Paths, type : ChangeTypes]

Init ==
    /\ history = <<>> /\ phase = "grow"
    /\ head = NoCommit /\ include_merges \in BOOLEAN
    /\ queue = <<>> /\ seen = {} /\ oids = <<>> /\ rows = <<>>
    /\ headRev = NoCommit /\ live = {}

-----------------------------------------------------------------------------
(* The history.                                                             *)

NoTree == {}
TreeOf(c) == IF c = NoCommit THEN NoTree ELSE history[c].tree

\* changed_files_for_commit against the first parent's tree.  Which removals
\* and additions pair up as a rewrite (source -> destination, 50 % similarity)
\* and which common files changed is decided by file contents.  A rewrite is
\* one row, at the destination; copies are off.
ChangesBetween(old, new, modified, renames) ==
    LET sources == {r[1] : r \in renames}
        targets == {r[2] : r \in renames}
    IN  {[path |-> p, type |-> "added"]    : p \in new \ (old \cup targets)}
        \cup {[path |-> p, type |-> "deleted"]  : p \in old \ (new \cup sources)}
        \cup {[path |-> p, type |-> "modified"] : p \in modified}
        \cup {[path |-> p, type |-> "renamed"]  : p \in targets}

\* Pairings of removed with added paths, one to one.
Rewrites(old, new) ==
    {R \in SUBSET ((old \ new) \X (new \ old)) :
        \A r, s \in R : (r[1] = s[1] \/ r[2] = s[2]) => r = s}

\* A root commit, or a commit on any earlier one.
CommitOn(parent) ==
    /\ phase = "grow" /\ Len(history) < MaxCommits
    /\ \E d \in Dates, tree \in Trees :
       \E modified \in SUBSET (tree \cap TreeOf(parent)), renames \in Rewrites(TreeOf(parent), tree) :
          history' = Append(history,
              [parents |-> IF parent = NoCommit THEN <<>> ELSE <<parent>>,
               date    |-> d,
               tree    |-> tree,
               changes |-> ChangesBetween(TreeOf(parent), tree, modified, renames)])
    /\ UNCHANGED <<phase, head, include_merges, walk, headRev, live>>

\* A merge: its tree is whatever was committed, its change set is empty.
Merge(p, q) ==
    /\ phase = "grow" /\ Len(history) < MaxCommits
    /\ p # q
    /\ \E d \in Dates, tree \in Trees :
          history' = Append(history, [parents |-> <<p, q>>, date |-> d, tree |-> tree,
                                      changes |-> {}])
    /\ UNCHANGED <<phase, head, include_merges, walk, headRev, live>>

-----------------------------------------------------------------------------
(* The walk.                                                                *)

\* rev_walk([head_id]).  HEAD is the newest commit, which loses nothing: the
\* history a HEAD can reach is the same when the others come before it.
StartWalk ==
    /\ phase = "grow" /\ phase' = "walk"
    /\ history # <<>>
    /\ head' = Len(history) /\ queue' = <<head'>> /\ seen' = {head'}
    /\ UNCHANGED <<history, include_merges, oids, rows, headRev, live>>

IsMerge(c) == Len(history[c].parents) > 1

\* process_commit_oid: Ok(None) for a filtered merge.
Kept(c) == include_merges \/ ~IsMerge(c)

\* Mutant: parents enqueued although they were seen.
VisitSeenAgain ==
    /\ phase = "walk" /\ queue # <<>>
    /\ LET c == Head(queue)
       IN /\ queue' = Tail(queue) \o history[c].parents
          /\ seen' = seen \cup {history[c].parents[k] : k \in 1 .. Len(history[c].parents)}
          /\ oids' = Append(oids, c)
          /\ rows' = IF Kept(c) THEN Append(rows, c) ELSE rows
    /\ UNCHANGED <<history, phase, head, include_merges, headRev, live>>

\* The parents of a commit, in order, that the walk has not met.
Unseen(c) ==
    LET parents == history[c].parents
        among[k \in 0 .. Len(parents)] ==
            IF k = 0 THEN <<>>
            ELSE IF parents[k] \in seen THEN among[k - 1] ELSE Append(among[k - 1], parents[k])
    IN among[Len(parents)]

\* One commit off the queue, its unseen parents onto it, its row into the store.
Visit ==
    /\ phase = "walk" /\ queue # <<>>
    /\ LET c     == Head(queue)
           fresh == Unseen(c)
       IN /\ queue' = Tail(queue) \o fresh
          /\ seen' = seen \cup {fresh[k] : k \in 1 .. Len(fresh)}
          /\ oids' = Append(oids, c)
          /\ rows' = IF Kept(c) THEN Append(rows, c) ELSE rows
    /\ UNCHANGED <<history, phase, head, include_merges, headRev, live>>

-----------------------------------------------------------------------------
(* The two queries.                                                         *)

DateOf(k) == history[rows[k]].date

\* Mutant: the same-second tie broken towards the larger rowid.
OlderFirst(j, k) == DateOf(j) > DateOf(k) \/ (DateOf(j) = DateOf(k) /\ j >= k)

\* ORDER BY date DESC, rowid ASC: row j comes no later than row k.
Precedes(j, k) == DateOf(j) > DateOf(k) \/ (DateOf(j) = DateOf(k) /\ j <= k)

FirstOf(R) == CHOOSE j \in R : \A k \in R : Precedes(j, k)

current_head_rev == IF rows = <<>> THEN NoCommit ELSE rows[FirstOf(1 .. Len(rows))]

\* The rows with a change of p, and its latest change type.
Touching(p) == {k \in 1 .. Len(rows) : \E ch \in history[rows[k]].changes : ch.path = p}
LatestType(p) ==
    (CHOOSE ch \in history[rows[FirstOf(Touching(p))]].changes : ch.path = p).type

query_live_paths == {p \in Paths : Touching(p) # {} /\ LatestType(p) # "deleted"}

\* The walk is over: the HEAD-time context is hoisted.
Hoist ==
    /\ phase = "walk" /\ queue = <<>>
    /\ phase' = "done"
    /\ headRev' = current_head_rev
    /\ live' = query_live_paths
    /\ UNCHANGED <<history, head, include_merges, walk>>

Next == \/ \E c \in {NoCommit} \cup Commits : CommitOn(c)
        \/ \E p, q \in Commits : Merge(p, q)
        \/ StartWalk \/ Visit \/ Hoist

Spec == Init /\ [][Next]_vars

-----------------------------------------------------------------------------
(* Properties.                                                              *)

TypeOK ==
    /\ history \in Seq([parents : Seq(Nat), date : Dates, tree : Trees,
                        changes : SUBSET Change])
    /\ Len(history) <= MaxCommits
    /\ phase \in {"grow", "walk", "done"}
    /\ head \in Commits \cup {NoCommit}
    /\ include_merges \in BOOLEAN
    /\ queue \in Seq(Commits) /\ seen \subseteq Commits
    /\ oids \in Seq(Commits) /\ Len(oids) + Len(queue) = Cardinality(seen)
    /\ rows \in Seq(Commits)
    /\ headRev \in Commits \cup {NoCommit}
    /\ live \subseteq Paths

Parents(c) == {history[c].parents[k] : k \in 1 .. Len(history[c].parents)}

\* Every commit HEAD can reach, HEAD included.
Reachable ==
    LET anc[c \in Commits] == {c} \cup UNION {anc[p] : p \in Parents(c)}
    IN anc[head]

\* However branches meet again, the store has exactly one row for every
\* reachable commit the filter keeps, and none for any other.
WalkStoresEachCommitOnce ==
    phase = "done" =>
        /\ \A j, k \in 1 .. Len(rows) : rows[j] = rows[k] => j = k
        /\ {rows[k] : k \in 1 .. Len(rows)} = {c \in Reachable : Kept(c)}

\* No commit is dated before a parent of its own (equal seconds are common).
InOrder == \A c \in Reachable : \A p \in Parents(c) : history[p].date <= history[c].date

\* current_head_rev finds HEAD itself, same-second commits included, on every
\* history whose dates respect its edges, when HEAD's row is stored at all.
HeadRevIsHead == phase = "done" /\ InOrder /\ Kept(head) => headRev = head

Linear == \A c \in Reachable : ~IsMerge(c)

\* On a linear history in date order the scan list misses no file of HEAD's
\* tree, same-second deletions and re-additions included; the passes skip what
\* it has too many, for want of a blob.
LinearScanIsComplete ==
    phase = "done" /\ InOrder /\ Linear => TreeOf(head) \subseteq live
=============================================================================
