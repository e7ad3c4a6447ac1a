------------------------------ MODULE MCChangeSet ------------------------------
(* Three files, "b" naming `b` or else `b/index`; everything imports any of   *)
(* the two names.                                                             *)
EXTENDS ChangeSet

CONSTANTS a, b, bi, first, second

Files3 == {a, b, bi}
Names == {"a", "b"}
Meaning == [t \in Names |-> IF t = "a" THEN <<a>> ELSE <<b, bi>>]
NoEdits == [imports |-> {}, body |-> 1]
AllBodies == 1..3

File(imports, body) == [imports |-> imports, body |-> body]
Tree(x, y, z) == (a :> x) @@ (b :> y) @@ (bi :> z)

\* Every HEAD with every working tree, staged; then trees where HEAD, the
\* index and the disk all differ, and a file the index lacks is untracked.
Body(p) == IF p = a THEN 1 ELSE IF p = b THEN 2 ELSE 3
May(p, imports) == {NoFile} \cup {File(i, Body(p)) : i \in imports}
TreesOf(imports) ==
    {Tree(x, y, z) : x \in May(a, imports), y \in May(b, imports), z \in May(bi, imports)}

Still(h, i, d) == [head |-> h, index |-> i, disk |-> d, edits |-> 0, calls |-> {first}]

AllStaged ==
    LET all == TreesOf(SUBSET Names) IN {Still(h, d, d) : h \in all, d \in all}
Mixed ==
    {Still(h, i, d) : h \in TreesOf({{}, {"b"}}), i \in TreesOf({{"a"}}), d \in TreesOf({{"b"}})}

\* A user who edits while two gates run
Moving ==
    {[head |-> h, index |-> h, disk |-> d, edits |-> 2, calls |-> {first, second}] :
        h \in {Tree(File({"b"}, 1), File({}, 2), NoFile)},
        d \in {Tree(File({"b"}, 1), File({"a"}, 1), NoFile),
               Tree(File({"b"}, 1), File({}, 2), File({}, 1))}}

Written == {File({"a"}, 1), File({}, 2)}
Scenes == AllStaged \cup Mixed \cup Moving
================================================================================
