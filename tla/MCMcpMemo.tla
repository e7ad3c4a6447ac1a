----------------------------- MODULE MCMcpMemo -----------------------------
(***************************************************************************)
(* Instances of McpMemo: which call asks which query.                       *)
(***************************************************************************)
EXTENDS McpMemo

CONSTANTS c1, c2, c3, q1, q2

\* Two calls with the same question, and one with another.
TwoQueries == [c \in Calls |-> IF c = c3 THEN q2 ELSE q1]
=============================================================================
