------------------------------ MODULE CommitLog ------------------------------
(***************************************************************************)
(* What an ingest promises, whatever its threads do: the fact store's       *)
(* commits grow along the walk of the history, one commit at a time and     *)
(* none left out, and the ingest succeeds only on the whole of a readable   *)
(* history.                                                                 *)
(***************************************************************************)
EXTENDS Integers, Sequences

CONSTANT NumOids

VARIABLES commit,   \* what can be made of each commit of the walk
          log,      \* rows stored, in rowid order
          status    \* open | ok | err

vars == <<commit, log, status>>

Oids == 1 .. NumOids

Last == IF log = <<>> THEN 0 ELSE log[Len(log)]

\* No commit of the walk strictly between lo and hi has a row of its own.
NothingBetween(lo, hi) == \A i \in Oids : lo < i /\ i < hi => commit[i] # "keep"

Init ==
    /\ commit \in [Oids -> {"keep", "skip", "bad", "boom"}]
    /\ log = <<>>
    /\ status = "open"

Extend ==
    /\ status = "open"
    /\ \E i \in Oids : /\ Last < i /\ commit[i] = "keep"
                       /\ NothingBetween(Last, i)
                       /\ log' = Append(log, i)
    /\ UNCHANGED <<commit, status>>

Succeed ==
    /\ status = "open"
    /\ \A i \in Oids : commit[i] \in {"keep", "skip"}
    /\ NothingBetween(Last, NumOids + 1)
    /\ status' = "ok"
    /\ UNCHANGED <<commit, log>>

Fail ==
    /\ status = "open"
    /\ status' = "err"
    /\ UNCHANGED <<commit, log>>

Next == Extend \/ Succeed \/ Fail

Spec == Init /\ [][Next]_vars
=============================================================================
