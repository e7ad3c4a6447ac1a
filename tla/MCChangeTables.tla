----------------------------- MODULE MCChangeTables -----------------------------
(* A small instance of ChangeTables. *)
EXTENDS ChangeTables, TLC

\* one path has a group of its own, or two share one that is a path's name
MCGroups == {1 :> 9, (1 :> 2) @@ (2 :> 2)}

\* a bucket for each date
MCUnits == {[d \in Dates |-> d]}
=================================================================================
