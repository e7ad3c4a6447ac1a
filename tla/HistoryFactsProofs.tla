-------------------------- MODULE HistoryFactsProofs --------------------------
(***************************************************************************)
(* What the walk stores, and what the two queries make of it, for every     *)
(* history of every length.                                                 *)
(***************************************************************************)
EXTENDS HistoryFacts, FiniteSetTheorems, SequenceTheorems, WellFoundedInduction, TLAPS

\* A commit has no parent, one, or two that differ, all committed before it.
ParentsOK(c) ==
    LET parents == history[c].parents IN
    \/ parents = <<>>
    \/ \E p \in 1 .. c - 1 : parents = <<p>>
    \/ \E p, q \in 1 .. c - 1 : p # q /\ parents = <<p, q>>

FirstParent(c) == IF history[c].parents = <<>> THEN NoCommit ELSE history[c].parents[1]

\* What the changes of a commit that is no merge say of its tree: a file they
\* delete is not in it, and a file its parent has not is among them.
ChangesOK(c) ==
    ~IsMerge(c) =>
        /\ \A ch \in history[c].changes : ch.type = "deleted" => ch.path \notin TreeOf(c)
        /\ \A p \in TreeOf(c) \ TreeOf(FirstParent(c)) : \E ch \in history[c].changes : ch.path = p

HistoryInv ==
    /\ history \in Seq([parents : Seq(Nat), date : Dates, tree : Trees, changes : SUBSET Change])
    /\ \A c \in Commits : ParentsOK(c) /\ ChangesOK(c)

-----------------------------------------------------------------------------
(* The parents that a visit enqueues.                                       *)

LEMMA Appended ==
    ASSUME NEW p, NEW q
    PROVE  Append(<<>>, p) = <<p>> /\ Append(<<p>>, q) = <<p, q>>
<1>1. <<>> \in Seq({p, q}) /\ <<p>> \in Seq({p, q}) /\ <<p, q>> \in Seq({p, q})
  OBVIOUS
<1>2. Append(<<>>, p) \in Seq({p, q}) /\ Append(<<p>>, q) \in Seq({p, q})
  BY <1>1
<1>3. Append(<<>>, p) = <<p>>
  OBVIOUS
<1>4. Append(<<p>>, q) = <<p, q>>
  <2>1. Len(Append(<<p>>, q)) = 2 /\ Append(<<p>>, q)[1] = p /\ Append(<<p>>, q)[2] = q
    OBVIOUS
  <2>2. \A i \in 1 .. 2 : Append(<<p>>, q)[i] = <<p, q>>[i]
    BY <2>1
  <2>3. Len(<<p, q>>) = 2
    OBVIOUS
  <2> QED BY <1>1, <1>2, <2>1, <2>2, <2>3, SeqEqual
<1> QED BY <1>3, <1>4

LEMMA UnseenParents ==
    ASSUME NEW c \in Commits, ParentsOK(c)
    PROVE  /\ Unseen(c) \in Seq(1 .. c - 1)
           /\ Len(Unseen(c)) <= Len(history[c].parents)
           /\ \A j, k \in 1 .. Len(Unseen(c)) : Unseen(c)[j] = Unseen(c)[k] => j = k
           /\ {Unseen(c)[k] : k \in 1 .. Len(Unseen(c))} = Parents(c) \ seen
<1> DEFINE parents == history[c].parents
           Next_(g, k) == IF k = 0 THEN <<>>
                          ELSE IF parents[k] \in seen THEN g[k - 1] ELSE Append(g[k - 1], parents[k])
           among == CHOOSE g : g = [k \in 0 .. Len(parents) |-> Next_(g, k)]
<1>0. Unseen(c) = among[Len(parents)]
  BY DEF Unseen
<1>1. ASSUME NEW g, g = [k \in 0 .. Len(parents) |-> Next_(g, k)]
      PROVE  \A k \in 0 .. Len(parents) : among[k] = Next_(among, k)
  <2>1. among = [k \in 0 .. Len(parents) |-> Next_(among, k)]
    BY <1>1
  <2> QED BY <2>1
<1>2. CASE parents = <<>>
  <2>1. PICK g : g = [k \in 0 .. 0 |-> <<>>]
    OBVIOUS
  <2>2. g = [k \in 0 .. Len(parents) |-> Next_(g, k)]
    BY <1>2, <2>1
  <2>3. Unseen(c) = <<>>
    BY <1>0, <1>1, <1>2, <2>2
  <2> QED BY <1>2, <2>3 DEF Parents
<1>3. CASE \E p \in 1 .. c - 1 : parents = <<p>>
  <2>1. PICK p \in 1 .. c - 1 : parents = <<p>>
    BY <1>3
  <2> DEFINE g1 == IF p \in seen THEN <<>> ELSE <<p>>
             g == [k \in 0 .. 1 |-> IF k = 0 THEN <<>> ELSE g1]
  <2>2. g = [k \in 0 .. Len(parents) |-> Next_(g, k)]
    BY <2>1
  <2>3. \A k \in 0 .. Len(parents) : among[k] = Next_(among, k)
    <3> HIDE DEF g, Next_, among
    <3> QED BY <1>1, <2>2
  <2>4. among[0] = <<>> /\ among[1] = g1
    <3> HIDE DEF among
    <3>1. among[0] = <<>>
      BY <2>1, <2>3
    <3>2. among[1] = Next_(among, 1)
      <4> HIDE DEF Next_
      <4> QED BY <2>1, <2>3
    <3>3. Next_(among, 1) = IF p \in seen THEN among[0] ELSE Append(among[0], p)
      BY <2>1
    <3>4. g1 = IF p \in seen THEN <<>> ELSE Append(<<>>, p)
      BY Appended
    <3> HIDE DEF Next_, g1
    <3> QED BY <3>1, <3>2, <3>3, <3>4
  <2>5. Unseen(c) = g1
    <3> HIDE DEF among, g1
    <3> QED BY <1>0, <2>1, <2>4
  <2>6. Parents(c) = {p}
    BY <2>1 DEF Parents
  <2>7. CASE p \in seen
    BY <2>1, <2>5, <2>6, <2>7
  <2>8. CASE p \notin seen
    BY <2>1, <2>5, <2>6, <2>8
  <2> QED BY <2>7, <2>8
<1>4. CASE \E p, q \in 1 .. c - 1 : p # q /\ parents = <<p, q>>
  <2>1. PICK p \in 1 .. c - 1, q \in 1 .. c - 1 : p # q /\ parents = <<p, q>>
    BY <1>4
  <2> DEFINE g1 == IF p \in seen THEN <<>> ELSE <<p>>
             g2 == IF q \in seen THEN g1 ELSE Append(g1, q)
             g == [k \in 0 .. 2 |-> IF k = 0 THEN <<>> ELSE IF k = 1 THEN g1 ELSE g2]
  <2>a. parents[1] = p /\ parents[2] = q /\ Len(parents) = 2
    BY <2>1
  <2>b. g1 = IF p \in seen THEN <<>> ELSE Append(<<>>, p)
    BY Appended
  <2>c. \A k \in 0 .. 2 : g[k] = Next_(g, k)
    <3> HIDE DEF g1, parents
    <3>1. g[0] = Next_(g, 0)
      BY <2>a
    <3>2. g[1] = Next_(g, 1)
      BY <2>a, <2>b
    <3>3. g[2] = Next_(g, 2)
      BY <2>a
    <3> HIDE DEF g, Next_
    <3> QED BY <3>1, <3>2, <3>3
  <2>2. g = [k \in 0 .. Len(parents) |-> Next_(g, k)]
    <3>1. g = [k \in 0 .. 2 |-> g[k]]
      OBVIOUS
    <3> HIDE DEF g, Next_
    <3> QED BY <2>a, <2>c, <3>1
  <2>3. \A k \in 0 .. Len(parents) : among[k] = Next_(among, k)
    <3> HIDE DEF g, Next_, among
    <3> QED BY <1>1, <2>2
  <2>4. among[0] = <<>> /\ among[1] = g1 /\ among[2] = g2
    <3> HIDE DEF among
    <3>1. among[0] = <<>>
      BY <2>a, <2>3
    <3>2. among[1] = g1
      <4>1. among[1] = Next_(among, 1)
        <5> HIDE DEF Next_
        <5> QED BY <2>a, <2>3
      <4>2. Next_(among, 1) = IF p \in seen THEN among[0] ELSE Append(among[0], p)
        BY <2>a
      <4> HIDE DEF Next_, g1
      <4> QED BY <2>b, <3>1, <4>1, <4>2
    <3> HIDE DEF g1
    <3> QED BY <2>a, <2>3, <3>1, <3>2
  <2>5. Unseen(c) = g2
    <3> HIDE DEF among, g2
    <3> QED BY <1>0, <2>a, <2>4
  <2>6. Parents(c) = {p, q}
    BY <2>1 DEF Parents
  <2>7. CASE p \in seen /\ q \in seen
    BY <2>1, <2>5, <2>6, <2>7
  <2>8. CASE p \notin seen /\ q \in seen
    BY <2>1, <2>5, <2>6, <2>8
  <2>9. CASE p \in seen /\ q \notin seen
    BY <2>1, <2>5, <2>6, <2>9
  <2>10. CASE p \notin seen /\ q \notin seen
    <3>1. Unseen(c) = <<p, q>>
      BY <2>5, <2>10, Appended
    <3> QED BY <2>1, <2>6, <2>10, <3>1
  <2> QED BY <2>7, <2>8, <2>9, <2>10
<1> QED BY <1>2, <1>3, <1>4 DEF ParentsOK

-----------------------------------------------------------------------------
(* The history.                                                             *)

LEMMA ChangesOfACommit ==
    ASSUME NEW old, NEW new, NEW modified \in SUBSET (new \cap old),
           NEW renames \in Rewrites(old, new)
    PROVE  LET ch == ChangesBetween(old, new, modified, renames) IN
           /\ \A x \in ch : x.type = "deleted" => x.path \notin new
           /\ \A p \in new \ old : \E x \in ch : x.path = p
<1>1. \A r \in renames : r[1] \in old \ new /\ r[2] \in new \ old
  BY DEF Rewrites
<1>2. ASSUME NEW x \in ChangesBetween(old, new, modified, renames), x.type = "deleted"
      PROVE  x.path \notin new
  BY <1>2 DEF ChangesBetween
<1>3. ASSUME NEW p \in new \ old
      PROVE  \E x \in ChangesBetween(old, new, modified, renames) : x.path = p
  <2>1. CASE p \in {r[2] : r \in renames}
    <3>1. [path |-> p, type |-> "renamed"] \in ChangesBetween(old, new, modified, renames)
      BY <2>1 DEF ChangesBetween
    <3> QED BY <3>1
  <2>2. CASE p \notin {r[2] : r \in renames}
    <3>1. [path |-> p, type |-> "added"] \in ChangesBetween(old, new, modified, renames)
      BY <1>3, <2>2 DEF ChangesBetween
    <3> QED BY <3>1
  <2> QED BY <2>1, <2>2
<1> QED BY <1>2, <1>3

Rec == [parents : Seq(Nat), date : Dates, tree : Trees, changes : SUBSET Change]

LEMMA ChangesAreTyped ==
    ASSUME NEW old \in SUBSET Paths, NEW new \in SUBSET Paths, NEW modified \in SUBSET (new \cap old),
           NEW renames \in Rewrites(old, new)
    PROVE  ChangesBetween(old, new, modified, renames) \in SUBSET Change
<1>1. \A r \in renames : r[2] \in new
  BY DEF Rewrites
<1> QED BY <1>1 DEF ChangesBetween, Change, ChangeTypes

\* A commit that keeps to the rules may be appended.
LEMMA HistoryGrows ==
    ASSUME HistoryInv, NEW x \in Rec, history' = Append(history, x),
           NEW n, n = Len(history) + 1, ParentsOK(n)', ChangesOK(n)'
    PROVE  HistoryInv'
<1>0. history \in Seq(Rec) /\ \A c \in Commits : c \in 1 .. Len(history) /\ ParentsOK(c) /\ ChangesOK(c)
  BY DEF HistoryInv, Rec, Commits
<1>1. history' \in Seq(Rec) /\ Len(history') = Len(history) + 1 /\ Len(history) \in Nat
  BY <1>0
<1>2. \A c \in Commits : history'[c] = history[c]
  BY <1>0
<1>3. ASSUME NEW c \in Commits PROVE ParentsOK(c)' /\ ChangesOK(c)'
  <2>1. ParentsOK(c)'
    <3>1. ParentsOK(c) /\ history'[c].parents = history[c].parents
      BY <1>0, <1>2
    <3> QED BY <3>1 DEF ParentsOK
  <2>2. FirstParent(c) \in Commits \cup {NoCommit}
    <3>1. ParentsOK(c)
      BY <1>0
    <3>2. \A p \in 1 .. c - 1 : p \in Commits
      BY <1>0, <1>1 DEF Commits
    <3> QED BY <3>1, <3>2 DEF ParentsOK, FirstParent, NoCommit
  <2>3. TreeOf(c)' = TreeOf(c) /\ TreeOf(FirstParent(c))' = TreeOf(FirstParent(c))
    BY <1>2, <2>2 DEF TreeOf, FirstParent, NoTree
  <2>4. IsMerge(c)' = IsMerge(c) /\ history'[c].changes = history[c].changes
    BY <1>2 DEF IsMerge
  <2>5. ChangesOK(c)
    BY <1>0
  <2>6. ChangesOK(c)'
    BY <2>3, <2>4, <2>5 DEF ChangesOK
  <2> QED BY <2>1, <2>6
<1>4. \A c \in Commits' : c \in Commits \/ c = n
  BY <1>1 DEF Commits
<1> QED BY <1>1, <1>3, <1>4 DEF HistoryInv, Rec

LEMMA HistoryStep == HistoryInv /\ [Next]_vars => HistoryInv'
<1> SUFFICES ASSUME HistoryInv, [Next]_vars, NEW n, n = Len(history) + 1 PROVE HistoryInv'
  OBVIOUS
<1>0. n - 1 = Len(history) /\ Len(history) \in Nat /\ 1 .. n - 1 = Commits
  BY DEF HistoryInv, Commits
<1>1. ASSUME NEW parent \in {NoCommit} \cup Commits, CommitOn(parent) PROVE HistoryInv'
  <2>1. PICK d \in Dates, tree \in Trees :
             \E modified \in SUBSET (tree \cap TreeOf(parent)),
                renames \in Rewrites(TreeOf(parent), tree) :
                history' = Append(history,
                    [parents |-> IF parent = NoCommit THEN <<>> ELSE <<parent>>, date |-> d,
                     tree |-> tree,
                     changes |-> ChangesBetween(TreeOf(parent), tree, modified, renames)])
    BY <1>1 DEF CommitOn
  <2>2. PICK modified \in SUBSET (tree \cap TreeOf(parent)),
             renames \in Rewrites(TreeOf(parent), tree) :
                history' = Append(history,
                    [parents |-> IF parent = NoCommit THEN <<>> ELSE <<parent>>, date |-> d,
                     tree |-> tree,
                     changes |-> ChangesBetween(TreeOf(parent), tree, modified, renames)])
    BY <2>1
  <2> DEFINE parents == IF parent = NoCommit THEN <<>> ELSE <<parent>>
             changes == ChangesBetween(TreeOf(parent), tree, modified, renames)
             x == [parents |-> parents, date |-> d, tree |-> tree, changes |-> changes]
  <2>3. TreeOf(parent) \in SUBSET Paths /\ tree \in SUBSET Paths
    <3>1. \A c \in Commits : history[c] \in Rec
      BY ElementOfSeq DEF HistoryInv, Commits, Rec
    <3> QED BY <3>1, HistoryAssumption DEF TreeOf, NoTree, Rec
  <2>4. changes \in SUBSET Change
    BY <2>3, ChangesAreTyped
  <2>5. parents \in Seq(Nat)
    BY <1>0 DEF NoCommit
  <2>6. x \in Rec
    <3> HIDE DEF changes, parents
    <3> QED BY <2>4, <2>5 DEF Rec
  <2>7. history' = Append(history, x) /\ history'[n] = x
    BY <1>0, <2>2, <2>6 DEF HistoryInv
  <2>8. ParentsOK(n)'
    BY <1>0, <2>7 DEF ParentsOK, NoCommit
  <2>9. ChangesOK(n)'
    <3>1. TreeOf(n)' = tree /\ history'[n].changes = changes
      BY <1>0, <2>7 DEF TreeOf, NoCommit
    <3>2. FirstParent(n)' = parent
      BY <1>0, <2>7 DEF FirstParent, NoCommit
    <3>3. TreeOf(parent)' = TreeOf(parent)
      BY <1>0, <2>7 DEF TreeOf, HistoryInv, NoTree
    <3>4. /\ \A ch \in changes : ch.type = "deleted" => ch.path \notin tree
          /\ \A p \in tree \ TreeOf(parent) : \E ch \in changes : ch.path = p
      BY ChangesOfACommit
    <3> HIDE DEF changes
    <3>5. TreeOf(FirstParent(n))' = TreeOf(parent)
      BY <3>2, <3>3
    <3> QED BY <3>1, <3>4, <3>5 DEF ChangesOK
  <2> HIDE DEF x
  <2> QED BY <2>6, <2>7, <2>8, <2>9, HistoryGrows
<1>2. ASSUME NEW p \in Commits, NEW q \in Commits, Merge(p, q) PROVE HistoryInv'
  <2>1. PICK d \in Dates, tree \in Trees :
             history' = Append(history, [parents |-> <<p, q>>, date |-> d, tree |-> tree,
                                         changes |-> {}])
    BY <1>2 DEF Merge
  <2> DEFINE x == [parents |-> <<p, q>>, date |-> d, tree |-> tree, changes |-> {}]
  <2>2. x \in Rec /\ p # q
    BY <1>0, <1>2 DEF Rec, Merge
  <2>3. history' = Append(history, x) /\ history'[n] = x
    BY <1>0, <2>1, <2>2 DEF HistoryInv
  <2>4. ParentsOK(n)'
    <3>1. p \in 1 .. n - 1 /\ q \in 1 .. n - 1 /\ history'[n].parents = <<p, q>>
      BY <1>0, <2>3
    <3> QED BY <2>2, <3>1 DEF ParentsOK
  <2>5. IsMerge(n)'
    BY <2>3 DEF IsMerge
  <2>6. ChangesOK(n)'
    BY <2>5 DEF ChangesOK
  <2> HIDE DEF x
  <2> QED BY <2>2, <2>3, <2>4, <2>6, HistoryGrows
<1>3. CASE UNCHANGED history
  <2>1. Commits' = Commits
    BY <1>3 DEF Commits
  <2>2. ASSUME NEW c \in Commits PROVE ParentsOK(c)' /\ ChangesOK(c)'
    <3>1. ParentsOK(c)' = ParentsOK(c) /\ IsMerge(c)' = IsMerge(c)
      BY <1>3 DEF ParentsOK, IsMerge
    <3>2. TreeOf(c)' = TreeOf(c)
      BY <1>3 DEF TreeOf, NoTree
    <3>3. TreeOf(FirstParent(c))' = TreeOf(FirstParent(c))
      BY <1>3 DEF TreeOf, FirstParent, NoTree
    <3> QED BY <1>3, <3>1, <3>2, <3>3 DEF ChangesOK, HistoryInv
  <2> QED BY <1>3, <2>1, <2>2 DEF HistoryInv
<1> QED BY <1>1, <1>2, <1>3 DEF Next, vars, StartWalk, Visit, Hoist

-----------------------------------------------------------------------------
(* Reachability: the least set that holds HEAD and the parents of what it   *)
(* holds.  The recursion ends because parents come before their children.   *)

LEMMA LeastOf ==
    ASSUME NEW T \in SUBSET Nat, T # {}
    PROVE  \E n \in T : \A m \in T : n <= m
<1> DEFINE R == OpToRel(<, Nat)
<1>1. IsWellFoundedOn(R, Nat)
  BY NatLessThanWellFounded
<1>2. \E n \in T : \A m \in T : ~(<<m, n>> \in R)
  <2> HIDE DEF R
  <2> QED BY <1>1, WFMin
<1>3. \A m, n \in Nat : m < n => <<m, n>> \in R
  BY DEF OpToRel
<1>4. PICK n \in T : \A m \in T : ~(<<m, n>> \in R)
  BY <1>2
<1>5. \A m \in T : m \in Nat /\ n \in Nat /\ ~(m < n)
  <2> HIDE DEF R
  <2> QED BY <1>3, <1>4
<1>6. \A m \in T : n <= m
  <2> HIDE DEF R
  <2> QED BY <1>5
<1> QED BY <1>6

ParentsAreEarlier == \A c \in Commits : Parents(c) \subseteq 1 .. c - 1

LEMMA EarlierParents ==
    ASSUME HistoryInv
    PROVE  ParentsAreEarlier /\ Len(history) \in Nat
<1>1. ASSUME NEW c \in Commits PROVE Parents(c) \subseteq 1 .. c - 1
  <2>1. ParentsOK(c)
    BY DEF HistoryInv
  <2> QED BY <2>1 DEF ParentsOK, Parents
<1> QED BY <1>1 DEF ParentsAreEarlier, HistoryInv

With(g, c) == {c} \cup UNION {g[p] : p \in Parents(c)}

LEMMA AncestorsDefined ==
    ASSUME ParentsAreEarlier, Len(history) \in Nat
    PROVE  \E g \in [Commits -> SUBSET Commits] : g = [c \in Commits |-> With(g, c)]
<1> DEFINE N == Len(history)
           Solves(g, n) == \A c \in 1 .. n : g[c] = With(g, c)
           Bad == {n \in 0 .. N : ~ \E g \in [1 .. n -> SUBSET Commits] : Solves(g, n)}
<1>1. Bad = {}
  <2>1. SUFFICES ASSUME Bad # {} PROVE FALSE
    OBVIOUS
  <2>2. PICK n \in Bad : \A m \in Bad : n <= m
    <3>1. Bad \in SUBSET Nat
      OBVIOUS
    <3> HIDE DEF Bad
    <3> QED BY <2>1, <3>1, LeastOf
  <2>3. n # 0
    <3>1. PICK g \in [1 .. 0 -> SUBSET Commits] : TRUE
      <4> [c \in 1 .. 0 |-> {}] \in [1 .. 0 -> SUBSET Commits]
        OBVIOUS
      <4> QED OBVIOUS
    <3>2. Solves(g, 0)
      OBVIOUS
    <3> QED BY <3>1, <3>2
  <2>4. PICK g \in [1 .. n - 1 -> SUBSET Commits] : Solves(g, n - 1)
    <3>1. n - 1 \in 0 .. N /\ n - 1 \notin Bad
      <4> HIDE DEF Solves
      <4> QED BY <2>2, <2>3
    <3> HIDE DEF Solves
    <3> QED BY <3>1
  <2> DEFINE h == [c \in 1 .. n |-> IF c = n THEN With(g, n) ELSE g[c]]
  <2>5. n \in 1 .. N /\ \A c \in 1 .. n : c \in Commits /\ Parents(c) \subseteq 1 .. c - 1
    BY <2>2, <2>3 DEF ParentsAreEarlier, Commits
  <2>6. \A c \in 1 .. n : With(h, c) = With(g, c)
    <3> TAKE c \in 1 .. n
    <3>1. \A p \in Parents(c) : h[p] = g[p]
      BY <2>5
    <3> HIDE DEF h
    <3> QED BY <3>1 DEF With
  <2>7. With(g, n) \in SUBSET Commits
    <3>1. \A p \in Parents(n) : g[p] \subseteq Commits
      BY <2>5
    <3> QED BY <2>5, <3>1 DEF With
  <2>8. h \in [1 .. n -> SUBSET Commits]
    <3>1. \A c \in 1 .. n : c # n => c \in 1 .. n - 1
      BY <2>5
    <3> QED BY <2>7, <3>1
  <2>9. Solves(h, n)
    <3>1. \A c \in 1 .. n : h[c] = With(g, c)
      BY <2>4, <2>5
    <3> HIDE DEF h
    <3> QED BY <2>6, <3>1
  <2>10. n \notin Bad
    <3> HIDE DEF Solves, h
    <3> QED BY <2>8, <2>9
  <2> QED BY <2>2, <2>10
<1>2. PICK g \in [1 .. N -> SUBSET Commits] : Solves(g, N)
  <3> HIDE DEF Solves
  <3> QED BY <1>1
<1>3. g = [c \in Commits |-> g[c]] /\ \A c \in Commits : g[c] = With(g, c)
  BY <1>2 DEF Commits
<1>4. [c \in Commits |-> g[c]] = [c \in Commits |-> With(g, c)]
  BY <1>3
<1> QED BY <1>2, <1>3, <1>4 DEF Commits

\* What Reachable is made of.
Ancestors == CHOOSE g : g = [c \in Commits |-> With(g, c)]

LEMMA AncestorsSolve ==
    ASSUME ParentsAreEarlier, Len(history) \in Nat
    PROVE  /\ Reachable = Ancestors[head]
           /\ \A c \in Commits : Ancestors[c] = With(Ancestors, c)
<1>1. Ancestors = [c \in Commits |-> With(Ancestors, c)]
  BY AncestorsDefined DEF Ancestors
<1>2. Reachable = Ancestors[head]
  BY DEF Reachable, Ancestors, With
<1> QED BY <1>1, <1>2

\* S holds the parents of its members.
Closed(S) == \A c \in S : Parents(c) \subseteq S

LEMMA ReachableIsTheLeastClosedSet ==
    ASSUME HistoryInv, head \in Commits
    PROVE  /\ head \in Reachable /\ Reachable \subseteq Commits /\ Closed(Reachable)
           /\ \A S : head \in S /\ Closed(S) => Reachable \subseteq S
<1>1. ParentsAreEarlier /\ Len(history) \in Nat /\ Commits \subseteq Nat
  BY EarlierParents DEF Commits
<1>2. /\ Reachable = Ancestors[head]
      /\ \A c \in Commits : Ancestors[c] = With(Ancestors, c)
  BY <1>1, AncestorsSolve
<1>3. \A c \in Commits : c \in Ancestors[c]
  BY <1>2 DEF With
<1>4. \A c \in Commits : \A p \in Parents(c) : p \in Commits /\ p < c
  BY <1>1 DEF ParentsAreEarlier, Commits
<1>5. ASSUME NEW S, head \in S, Closed(S) PROVE Reachable \subseteq S
  <2> DEFINE Bad == {c \in Commits : c \in S /\ ~(Ancestors[c] \subseteq S)}
  <2>1. SUFFICES ASSUME Bad # {} PROVE FALSE
    BY <1>2, <1>5
  <2>2. PICK c \in Bad : \A d \in Bad : c <= d
    BY <1>1, <2>1, LeastOf
  <2>3. \A p \in Parents(c) : p \in Commits /\ p \in S /\ Ancestors[p] \subseteq S
    <3> TAKE p \in Parents(c)
    <3>1. p \in Commits /\ p < c /\ p \in S
      BY <1>4, <1>5, <2>2 DEF Closed
    <3>2. p \notin Bad
      BY <1>1, <2>2, <3>1
    <3> QED BY <3>1, <3>2
  <2>4. Ancestors[c] \subseteq S
    BY <1>2, <2>2, <2>3 DEF With
  <2> QED BY <2>2, <2>4
<1>6. Reachable \subseteq Commits
  <2>1. Closed(Commits)
    BY <1>4 DEF Closed
  <2> QED BY <1>5, <2>1
<1>7. \A c \in Commits : Closed(Ancestors[c])
  <2> DEFINE Bad == {c \in Commits : ~Closed(Ancestors[c])}
  <2>1. SUFFICES ASSUME Bad # {} PROVE FALSE
    OBVIOUS
  <2>2. PICK c \in Bad : \A d \in Bad : c <= d
    <3> HIDE DEF Closed
    <3> QED BY <1>1, <2>1, LeastOf
  <2>3. \A p \in Parents(c) : p \in Commits /\ Closed(Ancestors[p]) /\ Ancestors[p] \subseteq Ancestors[c]
    <3>1. \A p \in Parents(c) : Ancestors[p] \subseteq Ancestors[c]
      BY <1>2, <2>2 DEF With
    <3> TAKE p \in Parents(c)
    <3>2. p \in Commits /\ p < c
      BY <1>4, <2>2
    <3>3. p \notin Bad
      <4> HIDE DEF Closed
      <4> QED BY <1>1, <2>2, <3>2
    <3> QED BY <3>1, <3>2, <3>3
  <2>4. ASSUME NEW d \in Ancestors[c] PROVE Parents(d) \subseteq Ancestors[c]
    <3>1. d = c \/ \E p \in Parents(c) : d \in Ancestors[p]
      BY <1>2, <2>2 DEF With
    <3>2. CASE d = c
      BY <1>3, <2>3, <3>2
    <3>3. CASE \E p \in Parents(c) : d \in Ancestors[p]
      BY <2>3, <3>3 DEF Closed
    <3> QED BY <3>1, <3>2, <3>3
  <2> QED BY <2>2, <2>4 DEF Closed
<1> QED BY <1>2, <1>3, <1>5, <1>6, <1>7

-----------------------------------------------------------------------------
(* The walk.                                                                *)

\* What has been yielded and what waits, in the order it was met.
Walked == Len(oids) + Len(queue)
At(i) == IF i <= Len(oids) THEN oids[i] ELSE queue[i - Len(oids)]

Types ==
    /\ HistoryInv
    /\ Len(history) <= MaxCommits
    /\ phase \in {"grow", "walk", "done"}
    /\ head \in Commits \cup {NoCommit}
    /\ include_merges \in BOOLEAN
    /\ queue \in Seq(Commits) /\ seen \subseteq Commits
    /\ oids \in Seq(Commits) /\ rows \in Seq(Commits)

StageInv ==
    /\ phase = "grow" => /\ head = NoCommit /\ queue = <<>> /\ seen = {}
                         /\ oids = <<>> /\ rows = <<>>
    /\ phase # "grow" => head \in Commits /\ Walked >= 1 /\ At(1) = head
    /\ phase # "done" => headRev = NoCommit /\ live = {}
    /\ phase = "done" => /\ queue = <<>>
                         /\ headRev = current_head_rev /\ live = query_live_paths

\* The walk meets a commit once, and through a child that it has yielded.
WalkInv ==
    /\ \A i, j \in 1 .. Walked : At(i) = At(j) => i = j
    /\ seen = {At(i) : i \in 1 .. Walked}
    /\ \A i \in 1 .. Len(oids) : Parents(oids[i]) \subseteq seen
    /\ \A i \in 2 .. Walked : \E j \in 1 .. Len(oids) : j < i /\ At(i) \in Parents(oids[j])

\* Without merges the walk is a line of parents.
ChainInv ==
    (\A i \in 1 .. Walked : ~IsMerge(At(i))) =>
        /\ Len(queue) <= 1
        /\ \A i \in 2 .. Walked : At(i) \in Parents(At(i - 1))

RowsInv ==
    /\ \A j, k \in 1 .. Len(rows) : rows[j] = rows[k] => j = k
    /\ {rows[k] : k \in 1 .. Len(rows)} = {c \in {oids[i] : i \in 1 .. Len(oids)} : Kept(c)}
    /\ Len(oids) >= 1 /\ Kept(oids[1]) => Len(rows) >= 1 /\ rows[1] = oids[1]
    /\ (\A i \in 1 .. Len(oids) : Kept(oids[i])) => rows = oids

Inv == Types /\ StageInv /\ WalkInv /\ ChainInv /\ RowsInv

LEMMA SequencesOfCommits ==
    ASSUME Types
    PROVE  /\ Len(oids) \in Nat /\ Len(queue) \in Nat /\ Len(rows) \in Nat
           /\ \A i \in 1 .. Len(oids) : oids[i] \in Commits
           /\ \A i \in 1 .. Len(queue) : queue[i] \in Commits
           /\ \A i \in 1 .. Len(rows) : rows[i] \in Commits
           /\ \A i \in 1 .. Walked : At(i) \in Commits
<1>1. /\ Len(oids) \in Nat /\ Len(queue) \in Nat /\ Len(rows) \in Nat
      /\ \A i \in 1 .. Len(oids) : oids[i] \in Commits
      /\ \A i \in 1 .. Len(queue) : queue[i] \in Commits
      /\ \A i \in 1 .. Len(rows) : rows[i] \in Commits
  BY ElementOfSeq, LenProperties DEF Types
<1>2. ASSUME NEW i \in 1 .. Walked PROVE At(i) \in Commits
  BY <1>1 DEF Walked, At
<1> QED BY <1>1, <1>2

\* What a visit does to the order of the walk.
LEMMA VisitExtends ==
    ASSUME Types, Visit, NEW c, c = Head(queue), NEW fresh, fresh = Unseen(c), NEW w, w = Walked
    PROVE  /\ c \in Commits /\ c = At(Len(oids) + 1) /\ Len(queue) >= 1
           /\ fresh \in Seq(Commits) /\ Len(fresh) \in Nat
           /\ \A j, k \in 1 .. Len(fresh) : fresh[j] = fresh[k] => j = k
           /\ {fresh[k] : k \in 1 .. Len(fresh)} = Parents(c) \ seen
           /\ Len(fresh) <= Len(history[c].parents)
           /\ Len(oids') = Len(oids) + 1 /\ Len(queue') = Len(queue) - 1 + Len(fresh)
           /\ oids' \in Seq(Commits) /\ queue' \in Seq(Commits)
           /\ \A i \in 1 .. Len(oids) : oids'[i] = oids[i]
           /\ oids'[Len(oids) + 1] = c
           /\ Walked' = Walked + Len(fresh)
           /\ \A i \in 1 .. Walked : At(i)' = At(i)
           /\ \A i \in w + 1 .. w + Len(fresh) : At(i)' = fresh[i - w]
<1>0. queue # <<>> /\ queue' = Tail(queue) \o fresh /\ oids' = Append(oids, c)
  BY DEF Visit
<1>1. /\ queue \in Seq(Commits) /\ oids \in Seq(Commits)
      /\ Len(oids) \in Nat /\ Len(queue) \in Nat
  BY SequencesOfCommits DEF Types
<1>2. c \in Commits /\ Len(queue) >= 1 /\ c = queue[1]
  BY <1>0, <1>1
<1>3. ParentsOK(c)
  BY <1>2 DEF Types, HistoryInv
<1>4. /\ fresh \in Seq(1 .. c - 1)
      /\ Len(fresh) <= Len(history[c].parents)
      /\ \A j, k \in 1 .. Len(fresh) : fresh[j] = fresh[k] => j = k
      /\ {fresh[k] : k \in 1 .. Len(fresh)} = Parents(c) \ seen
  BY <1>2, <1>3, UnseenParents
<1>5. fresh \in Seq(Commits) /\ Len(fresh) \in Nat
  <2>1. 1 .. c - 1 \subseteq Commits
    BY <1>2 DEF Commits, Types, HistoryInv
  <2> QED BY <1>4, <2>1, SeqMonotonic, LenProperties
<1>6. /\ Len(oids') = Len(oids) + 1 /\ oids' \in Seq(Commits)
      /\ \A i \in 1 .. Len(oids) : oids'[i] = oids[i]
      /\ oids'[Len(oids) + 1] = c
  BY <1>0, <1>1, <1>2, AppendProperties
<1>7. /\ Tail(queue) \in Seq(Commits) /\ Len(Tail(queue)) = Len(queue) - 1
      /\ \A i \in 1 .. Len(queue) - 1 : Tail(queue)[i] = queue[i + 1]
  BY <1>0, <1>1, HeadTailProperties
<1>8. /\ queue' \in Seq(Commits) /\ Len(queue') = Len(queue) - 1 + Len(fresh)
      /\ \A i \in 1 .. Len(queue) - 1 + Len(fresh) :
            queue'[i] = IF i <= Len(queue) - 1 THEN Tail(queue)[i] ELSE fresh[i - (Len(queue) - 1)]
  BY <1>0, <1>5, <1>7, ConcatProperties
<1>9. Walked' = Walked + Len(fresh) /\ c = At(Len(oids) + 1)
  BY <1>1, <1>2, <1>5, <1>6, <1>8 DEF Walked, At
<1>10. ASSUME NEW i \in 1 .. Walked PROVE At(i)' = At(i)
  <2>1. CASE i <= Len(oids)
    BY <1>1, <1>6, <2>1 DEF At
  <2>2. CASE i = Len(oids) + 1
    BY <1>1, <1>6, <1>9, <2>2 DEF At
  <2>3. CASE i > Len(oids) + 1
    <3> DEFINE j == i - Len(oids)
    <3>1. At(i) = queue[j] /\ At(i)' = queue'[j - 1] /\ j - 1 \in 1 .. Len(queue) - 1
      BY <1>1, <1>6, <2>3 DEF At, Walked
    <3>2. queue'[j - 1] = Tail(queue)[j - 1]
      BY <1>1, <1>5, <1>8, <3>1
    <3>3. Tail(queue)[j - 1] = queue[j]
      BY <1>1, <1>7, <3>1
    <3> QED BY <3>1, <3>2, <3>3
  <2> QED BY <1>1, <2>1, <2>2, <2>3
<1>11. ASSUME NEW i \in w + 1 .. w + Len(fresh) PROVE At(i)' = fresh[i - w]
  <2> DEFINE j == i - Len(oids')
  <2>1. ~(i <= Len(oids')) /\ j \in 1 .. Len(queue) - 1 + Len(fresh)
    BY <1>1, <1>2, <1>5, <1>6 DEF Walked
  <2>2. At(i)' = queue'[j]
    BY <2>1 DEF At
  <2>3. queue'[j] = fresh[i - w]
    <3>1. queue'[j] = IF j <= Len(queue) - 1 THEN Tail(queue)[j] ELSE fresh[j - (Len(queue) - 1)]
      <4> HIDE DEF j
      <4> QED BY <1>8, <2>1
    <3>2. ~(j <= Len(queue) - 1) /\ j - (Len(queue) - 1) = i - w
      BY <1>1, <1>2, <1>5, <1>6 DEF Walked
    <3> HIDE DEF j
    <3> QED BY <3>1, <3>2
  <2> QED BY <2>2, <2>3
<1> QED BY <1>2, <1>4, <1>5, <1>6, <1>8, <1>9, <1>10, <1>11

LEMMA VisitKeepsTypes ==
    ASSUME Inv, Visit
    PROVE  Types'
<1>1. PICK c : c = Head(queue)
  OBVIOUS
<1>2. PICK fresh, w : fresh = Unseen(c) /\ w = Walked
  OBVIOUS
<1>3. Types
  BY DEF Inv
<1>4. HistoryInv'
  <2>1. [Next]_vars
    BY DEF Next
  <2> QED BY <1>3, <2>1, HistoryStep DEF Types
<1>5. c \in Commits /\ fresh \in Seq(Commits) /\ oids' \in Seq(Commits) /\ queue' \in Seq(Commits)
  BY <1>1, <1>2, <1>3, VisitExtends
<1>6. /\ seen' = seen \cup {fresh[k] : k \in 1 .. Len(fresh)}
      /\ rows' = IF Kept(c) THEN Append(rows, c) ELSE rows
      /\ UNCHANGED <<history, phase, head, include_merges>>
  BY <1>1, <1>2 DEF Visit
<1>7. seen' \subseteq Commits /\ rows' \in Seq(Commits)
  BY <1>3, <1>5, <1>6 DEF Types
<1> QED BY <1>3, <1>4, <1>5, <1>6, <1>7 DEF Types, Commits

LEMMA VisitKeepsWalk ==
    ASSUME Inv, Visit
    PROVE  WalkInv'
<1>1. PICK c : c = Head(queue)
  OBVIOUS
<1>2. PICK fresh, w : fresh = Unseen(c) /\ w = Walked
  OBVIOUS
<1>3. Types /\ WalkInv
  BY DEF Inv
<1>4. /\ c \in Commits /\ c = At(Len(oids) + 1) /\ Len(queue) >= 1
      /\ Len(fresh) \in Nat
      /\ \A j, k \in 1 .. Len(fresh) : fresh[j] = fresh[k] => j = k
      /\ {fresh[k] : k \in 1 .. Len(fresh)} = Parents(c) \ seen
      /\ Len(oids') = Len(oids) + 1
      /\ \A i \in 1 .. Len(oids) : oids'[i] = oids[i]
      /\ oids'[Len(oids) + 1] = c
      /\ Walked' = w + Len(fresh)
      /\ \A i \in 1 .. w : At(i)' = At(i)
      /\ \A i \in w + 1 .. w + Len(fresh) : At(i)' = fresh[i - w]
  BY <1>1, <1>2, <1>3, VisitExtends
<1>5. seen' = seen \cup {fresh[k] : k \in 1 .. Len(fresh)} /\ history' = history
  BY <1>1, <1>2 DEF Visit
<1>6. Len(oids) \in Nat /\ Len(queue) \in Nat /\ w = Len(oids) + Len(queue) /\ w \in Nat
  BY <1>2, <1>3, SequencesOfCommits DEF Walked
<1>7. \A i \in 1 .. Walked' : i \in 1 .. w \/ (i \in w + 1 .. w + Len(fresh) /\ i - w \in 1 .. Len(fresh))
  BY <1>4, <1>6
<1>8. \A i \in 1 .. w : At(i) \in seen
  BY <1>2, <1>3 DEF WalkInv
<1>9. \A i \in w + 1 .. w + Len(fresh) : fresh[i - w] \notin seen /\ fresh[i - w] \in Parents(c)
  BY <1>4, <1>6
<1>10. ASSUME NEW i \in 1 .. Walked', NEW j \in 1 .. Walked', At(i)' = At(j)' PROVE i = j
  <2>1. CASE i \in 1 .. w /\ j \in 1 .. w
    BY <1>2, <1>3, <1>4, <1>10, <2>1 DEF WalkInv
  <2>2. CASE i \in 1 .. w /\ j \in w + 1 .. w + Len(fresh)
    BY <1>4, <1>8, <1>9, <1>10, <2>2
  <2>3. CASE j \in 1 .. w /\ i \in w + 1 .. w + Len(fresh)
    BY <1>4, <1>8, <1>9, <1>10, <2>3
  <2>4. CASE i \in w + 1 .. w + Len(fresh) /\ j \in w + 1 .. w + Len(fresh)
    <3>1. i - w = j - w
      BY SMTT(30), <1>4, <1>6, <1>7, <1>10, <2>4
    <3> QED BY <1>6, <2>4, <3>1
  <2> QED BY <1>7, <2>1, <2>2, <2>3, <2>4
<1>11. seen' = {At(i)' : i \in 1 .. Walked'}
  <2>1. ASSUME NEW x \in seen' PROVE \E i \in 1 .. Walked' : x = At(i)'
    <3>1. CASE x \in seen
      <4>1. PICK i \in 1 .. w : x = At(i)
        BY <1>2, <1>3, <3>1 DEF WalkInv
      <4> QED BY <1>4, <1>6, <4>1
    <3>2. CASE \E k \in 1 .. Len(fresh) : x = fresh[k]
      <4>1. PICK k \in 1 .. Len(fresh) : x = fresh[k]
        BY <3>2
      <4>2. PICK i : i = w + k
        OBVIOUS
      <4>3. i \in w + 1 .. w + Len(fresh) /\ i - w = k /\ i \in 1 .. Walked'
        BY <1>4, <1>6, <4>2
      <4> QED BY <1>4, <4>1, <4>3
    <3> QED BY <1>5, <3>1, <3>2
  <2>2. ASSUME NEW i \in 1 .. Walked' PROVE At(i)' \in seen'
    BY <1>4, <1>5, <1>7, <1>8
  <2> QED BY <2>1, <2>2
<1>12. Parents(c)' = Parents(c) /\ \A d : Parents(d)' = Parents(d)
  BY <1>5 DEF Parents
<1>13. ASSUME NEW i \in 1 .. Len(oids') PROVE Parents(oids[i])' \subseteq seen'
  <2>1. CASE i \in 1 .. Len(oids)
    <3>1. Parents(oids[i]) \subseteq seen
      BY <1>3, <2>1 DEF WalkInv
    <3>2. Parents(oids[i])' = Parents(oids[i])
      BY <1>4, <1>5, <2>1 DEF Parents
    <3> QED BY <1>5, <3>1, <3>2
  <2>2. CASE i = Len(oids) + 1
    <3>1. Parents(oids[i])' = Parents(c)
      BY <1>4, <1>5, <2>2 DEF Parents
    <3> QED BY <1>4, <1>5, <3>1
  <2> QED BY <1>4, <1>6, <2>1, <2>2
<1>14. ASSUME NEW i \in 2 .. Walked'
       PROVE  \E j \in 1 .. Len(oids') : j < i /\ At(i)' \in Parents(oids[j])'
  <2>1. CASE i \in 1 .. w
    <3>1. PICK j \in 1 .. Len(oids) : j < i /\ At(i) \in Parents(oids[j])
      BY <1>2, <1>3, <2>1 DEF WalkInv
    <3>2. Parents(oids[j])' = Parents(oids[j])
      BY SMTT(30), <1>4, <1>5 DEF Parents
    <3> QED BY <1>4, <1>6, <2>1, <3>1, <3>2
  <2>2. CASE i \in w + 1 .. w + Len(fresh)
    <3> DEFINE j == Len(oids) + 1
    <3>1. j \in 1 .. Len(oids') /\ j < i
      BY <1>4, <1>6, <2>2
    <3>2. PICK k : k = j
      OBVIOUS
    <3>3. Parents(oids[k])' = Parents(c)
      BY <1>4, <1>5, <3>2 DEF Parents
    <3>4. At(i)' \in Parents(c)
      BY <1>4, <1>9, <2>2
    <3> QED BY <3>1, <3>2, <3>3, <3>4
  <2> QED BY <1>7, <2>1, <2>2
<1> QED BY <1>10, <1>11, <1>13, <1>14 DEF WalkInv

LEMMA VisitKeepsChain ==
    ASSUME Inv, Visit
    PROVE  ChainInv'
<1>1. PICK c : c = Head(queue)
  OBVIOUS
<1>2. PICK fresh, w : fresh = Unseen(c) /\ w = Walked
  OBVIOUS
<1>3. Types /\ ChainInv
  BY DEF Inv
<1>4. /\ c \in Commits /\ c = At(Len(oids) + 1) /\ Len(queue) >= 1
      /\ Len(fresh) \in Nat
      /\ {fresh[k] : k \in 1 .. Len(fresh)} = Parents(c) \ seen
      /\ Len(fresh) <= Len(history[c].parents)
      /\ Len(queue') = Len(queue) - 1 + Len(fresh)
      /\ Walked' = w + Len(fresh)
      /\ \A i \in 1 .. w : At(i)' = At(i)
      /\ \A i \in w + 1 .. w + Len(fresh) : At(i)' = fresh[i - w]
  BY <1>1, <1>2, <1>3, VisitExtends
<1>5. history' = history
  BY DEF Visit
<1>6. Len(oids) \in Nat /\ Len(queue) \in Nat /\ w = Len(oids) + Len(queue) /\ w \in Nat
  BY <1>2, <1>3, SequencesOfCommits DEF Walked
<1>7. SUFFICES ASSUME \A i \in 1 .. Walked' : ~IsMerge(At(i))'
      PROVE  /\ Len(queue') <= 1
             /\ \A i \in 2 .. Walked' : At(i)' \in Parents(At(i - 1))'
  BY DEF ChainInv
<1>8. ASSUME NEW i \in 1 .. w PROVE ~IsMerge(At(i))
  <2>1. ~IsMerge(At(i))' /\ At(i)' = At(i)
    BY <1>4, <1>6, <1>7
  <2> QED BY <1>5, <2>1 DEF IsMerge
<1>9. Len(queue) = 1 /\ c = At(w) /\ w >= 1
  <2>1. Len(queue) <= 1
    BY <1>2, <1>3, <1>8 DEF ChainInv
  <2>2. Len(queue) >= 1
    BY <1>4
  <2>3. Len(queue) = 1 /\ w = Len(oids) + 1
    BY <1>6, <2>1, <2>2
  <2> QED BY <1>4, <1>6, <2>3
<1>10. Len(fresh) <= 1
  <2>1. ~IsMerge(c)
    <3>1. w \in 1 .. w
      BY <1>6, <1>9
    <3>2. ~IsMerge(At(w))
      BY <1>8, <3>1
    <3> QED BY <1>9, <3>2
  <2>2. Len(history[c].parents) \in Nat
    BY <1>3, <1>4 DEF Types, HistoryInv, ParentsOK
  <2> QED BY <1>4, <2>1, <2>2 DEF IsMerge
<1>11. ASSUME NEW i \in 2 .. Walked' PROVE At(i)' \in Parents(At(i - 1))'
  <2>1. PICK h : h = i - 1
    OBVIOUS
  <2>2. h \in 1 .. w /\ At(h)' = At(h)
    BY <1>4, <1>6, <1>10, <2>1
  <2>3. Parents(At(h))' = Parents(At(h))
    BY <1>5, <2>2 DEF Parents
  <2>4. CASE i \in 1 .. w
    BY <1>2, <1>3, <1>4, <1>8, <2>1, <2>3, <2>4 DEF ChainInv
  <2>5. CASE i = w + 1
    <3>0. Len(fresh) \in Nat /\ i \in 2 .. w + Len(fresh)
      BY <1>4
    <3>1. Len(fresh) = 1 /\ i - w = 1 /\ i \in w + 1 .. w + Len(fresh)
      BY SMTT(30), <1>6, <1>10, <2>5, <3>0
    <3>3. At(i)' = fresh[i - w] /\ fresh[1] \in Parents(c)
      BY <1>4, <3>1
    <3>2. c = At(h)
      BY <1>6, <1>9, <2>1, <2>5
    <3> QED BY <2>1, <2>3, <3>1, <3>2, <3>3
  <2> QED BY SMTT(30), <1>4, <1>6, <1>10, <2>4, <2>5
<1> QED BY <1>4, <1>6, <1>9, <1>10, <1>11

LEMMA VisitKeepsRows ==
    ASSUME Inv, Visit
    PROVE  RowsInv'
<1>1. PICK c : c = Head(queue)
  OBVIOUS
<1>2. PICK fresh, w : fresh = Unseen(c) /\ w = Walked
  OBVIOUS
<1>3. Types /\ WalkInv /\ RowsInv
  BY DEF Inv
<1>4. /\ c \in Commits /\ c = At(Len(oids) + 1) /\ Len(queue) >= 1
      /\ Len(oids') = Len(oids) + 1
      /\ \A i \in 1 .. Len(oids) : oids'[i] = oids[i]
      /\ oids'[Len(oids) + 1] = c
  BY <1>1, <1>2, <1>3, VisitExtends
<1>5. /\ oids' = Append(oids, c) /\ rows' = IF Kept(c) THEN Append(rows, c) ELSE rows
      /\ history' = history /\ include_merges' = include_merges
  BY <1>1 DEF Visit
<1>6. /\ Len(oids) \in Nat /\ Len(rows) \in Nat /\ Len(queue) \in Nat
      /\ oids \in Seq(Commits) /\ rows \in Seq(Commits)
  BY <1>3, SequencesOfCommits DEF Types
<1>7. \A i \in 1 .. Len(oids) : oids[i] # c
  <2> TAKE i \in 1 .. Len(oids)
  <2>1. At(i) = oids[i] /\ i \in 1 .. Walked /\ Len(oids) + 1 \in 1 .. Walked
    BY <1>4, <1>6 DEF At, Walked
  <2> QED BY <1>3, <1>4, <1>6, <2>1 DEF WalkInv
<1>8. \A k \in 1 .. Len(rows) : rows[k] # c
  <2> TAKE k \in 1 .. Len(rows)
  <2>1. rows[k] \in {d \in {oids[i] : i \in 1 .. Len(oids)} : Kept(d)}
    BY <1>3 DEF RowsInv
  <2> QED BY <1>7, <2>1
<1>9. \A d : Kept(d)' = Kept(d)
  BY <1>5 DEF Kept, IsMerge
<1>10. {oids'[i] : i \in 1 .. Len(oids')} = {oids[i] : i \in 1 .. Len(oids)} \cup {c}
  BY <1>4, <1>6
<1>11. CASE Kept(c)
  <2>1. /\ rows' \in Seq(Commits) /\ Len(rows') = Len(rows) + 1
        /\ \A k \in 1 .. Len(rows) : rows'[k] = rows[k]
        /\ rows'[Len(rows) + 1] = c
    BY <1>4, <1>5, <1>6, <1>11, AppendProperties
  <2>2. \A j, k \in 1 .. Len(rows') : rows'[j] = rows'[k] => j = k
    BY SMTT(30), <1>3, <1>6, <1>8, <2>1 DEF RowsInv
  <2>3. {rows'[k] : k \in 1 .. Len(rows')} = {rows[k] : k \in 1 .. Len(rows)} \cup {c}
    BY <1>6, <2>1
  <2>4. {rows'[k] : k \in 1 .. Len(rows')}
           = {d \in {oids'[i] : i \in 1 .. Len(oids')} : Kept(d)'}
    BY <1>3, <1>9, <1>10, <1>11, <2>3 DEF RowsInv
  <2>5. Kept(oids[1])' => Len(rows') >= 1 /\ rows'[1] = oids'[1]
    <3>1. CASE Len(oids) = 0
      <4>1. Len(rows) = 0
        BY <1>3, <1>6, <3>1 DEF RowsInv
      <4> QED BY <1>4, <1>6, <2>1, <3>1, <4>1
    <3>2. CASE Len(oids) >= 1
      <4>1. oids'[1] = oids[1] /\ Kept(oids[1])' = Kept(oids[1])
        BY <1>4, <1>5, <1>6, <3>2 DEF Kept, IsMerge
      <4> QED BY <1>3, <1>6, <2>1, <3>2, <4>1 DEF RowsInv
    <3> QED BY <1>6, <3>1, <3>2
  <2>6. (\A i \in 1 .. Len(oids') : Kept(oids[i])') => rows' = oids'
    <3> SUFFICES ASSUME \A i \in 1 .. Len(oids') : Kept(oids[i])' PROVE rows' = oids'
      OBVIOUS
    <3>1. ASSUME NEW i \in 1 .. Len(oids) PROVE Kept(oids[i])
      <4>1. Kept(oids[i])'
        BY <1>4, <1>6
      <4> QED BY <1>4, <1>5, <4>1 DEF Kept, IsMerge
    <3> QED BY <1>3, <1>5, <1>11, <3>1 DEF RowsInv
  <2> QED BY <2>2, <2>4, <2>5, <2>6 DEF RowsInv
<1>12. CASE ~Kept(c)
  <2>1. {rows'[k] : k \in 1 .. Len(rows')}
           = {d \in {oids'[i] : i \in 1 .. Len(oids')} : Kept(d)'}
    BY <1>3, <1>5, <1>9, <1>10, <1>12 DEF RowsInv
  <2>2. Kept(oids[1])' => Len(rows') >= 1 /\ rows'[1] = oids'[1]
    <3>1. CASE Len(oids) = 0
      <4>1. Kept(oids[1])' = Kept(c)
        BY <1>4, <1>5, <1>6, <3>1 DEF Kept, IsMerge
      <4> QED BY <1>12, <4>1
    <3>2. CASE Len(oids) >= 1
      <4>1. oids'[1] = oids[1] /\ Kept(oids[1])' = Kept(oids[1])
        BY <1>4, <1>5, <1>6, <3>2 DEF Kept, IsMerge
      <4> QED BY <1>3, <1>5, <1>6, <1>12, <3>2, <4>1 DEF RowsInv
    <3> QED BY <1>6, <3>1, <3>2
  <2>3. ~(\A i \in 1 .. Len(oids') : Kept(oids[i])')
    <3>1. PICK k : k = Len(oids) + 1
      OBVIOUS
    <3>2. k \in 1 .. Len(oids') /\ Kept(oids[k])' = Kept(c)
      BY <1>4, <1>5, <1>6, <3>1 DEF Kept, IsMerge
    <3> QED BY <1>12, <3>2
  <2>4. \A j, k \in 1 .. Len(rows') : rows'[j] = rows'[k] => j = k
    BY <1>3, <1>5, <1>12 DEF RowsInv
  <2> QED BY <2>1, <2>2, <2>3, <2>4 DEF RowsInv
<1> QED BY <1>11, <1>12

\* No parent is enqueued, nothing is yielded.
LEMMA WalkRests ==
    ASSUME WalkInv, ChainInv, RowsInv, UNCHANGED <<history, include_merges, walk>>
    PROVE  WalkInv' /\ ChainInv' /\ RowsInv'
<1>1. /\ \A i : At(i)' = At(i)
      /\ \A i : IsMerge(At(i))' = IsMerge(At(i)) /\ Parents(At(i))' = Parents(At(i))
      /\ \A i : Parents(At(i - 1))' = Parents(At(i - 1))
      /\ \A i : Parents(oids[i])' = Parents(oids[i]) /\ Kept(oids[i])' = Kept(oids[i])
      /\ \A c : Kept(c)' = Kept(c)
      /\ Walked' = Walked
  BY DEF At, IsMerge, Parents, Kept, walk, Walked
<1>2. WalkInv'
  <2>1. /\ \A i, j \in 1 .. Walked' : At(i)' = At(j)' => i = j
        /\ seen' = {At(i)' : i \in 1 .. Walked'}
    BY <1>1 DEF WalkInv, walk
  <2>2. \A i \in 1 .. Len(oids') : Parents(oids[i])' \subseteq seen'
    BY <1>1 DEF WalkInv, walk
  <2>3. ASSUME NEW i \in 2 .. Walked'
        PROVE  \E j \in 1 .. Len(oids') : j < i /\ At(i)' \in Parents(oids[j])'
    <3>1. PICK j \in 1 .. Len(oids) : j < i /\ At(i) \in Parents(oids[j])
      BY <1>1, <2>3 DEF WalkInv
    <3>2. j \in 1 .. Len(oids')
      BY DEF walk
    <3> QED BY <1>1, <3>1, <3>2
  <2> QED BY <2>1, <2>2, <2>3 DEF WalkInv
<1>3. ChainInv'
  BY <1>1 DEF ChainInv, walk
<1>4. RowsInv'
  BY <1>1 DEF RowsInv, walk
<1> QED BY <1>2, <1>3, <1>4

LEMMA InitInv == Init => Inv
<1> SUFFICES ASSUME Init PROVE Inv
  OBVIOUS
<1> USE DEF Init
<1>1. HistoryInv /\ Commits = {} /\ Len(history) = 0
  BY DEF HistoryInv, Commits
<1>2. Types
  BY <1>1, HistoryAssumption DEF Types
<1>3. StageInv
  BY DEF StageInv
<1>4. Walked = 0 /\ Len(oids) = 0 /\ Len(queue) = 0 /\ Len(rows) = 0
  BY DEF Walked
<1>5. WalkInv /\ ChainInv /\ RowsInv
  BY <1>4 DEF WalkInv, ChainInv, RowsInv
<1> QED BY <1>2, <1>3, <1>5 DEF Inv

\* While the history grows there is no walk.
LEMMA GrowKeepsInv ==
    ASSUME Inv, phase = "grow", HistoryInv', Len(history') <= MaxCommits,
           UNCHANGED <<phase, head, include_merges, walk, headRev, live>>
    PROVE  Inv'
<1>1. /\ queue' = <<>> /\ seen' = {} /\ oids' = <<>> /\ rows' = <<>> /\ head' = NoCommit
      /\ phase' = "grow" /\ headRev' = NoCommit /\ live' = {}
  BY DEF Inv, StageInv, walk
<1>2. Types'
  BY <1>1 DEF Inv, Types
<1>3. StageInv'
  BY <1>1 DEF StageInv
<1>4. Walked' = 0 /\ Len(oids') = 0 /\ Len(queue') = 0 /\ Len(rows') = 0
  BY <1>1 DEF Walked
<1>5. WalkInv' /\ ChainInv' /\ RowsInv'
  BY <1>1, <1>4 DEF WalkInv, ChainInv, RowsInv
<1> QED BY <1>2, <1>3, <1>5 DEF Inv

LEMMA StartKeepsInv ==
    ASSUME Inv, StartWalk
    PROVE  Inv'
<1>1. /\ phase = "grow" /\ phase' = "walk" /\ history # <<>>
      /\ history' = history /\ include_merges' = include_merges
      /\ headRev' = NoCommit /\ live' = {}
  BY DEF StartWalk, Inv, StageInv
<1>2. Len(history) \in Nat \ {0}
  BY <1>1, EmptySeq DEF Inv, Types, HistoryInv
<1>3. PICK n : n = Len(history)
  OBVIOUS
<1>4. /\ n \in Commits /\ head' = n /\ queue' = <<n>> /\ seen' = {n} /\ oids' = <<>> /\ rows' = <<>>
  BY <1>1, <1>2, <1>3 DEF StartWalk, Inv, StageInv, Commits
<1>5. HistoryInv'
  <2>1. [Next]_vars
    BY DEF Next
  <2> QED BY <2>1, HistoryStep DEF Inv, Types
<1>6. Types'
  BY <1>1, <1>4, <1>5 DEF Inv, Types, Commits
<1>7. Walked' = 1 /\ Len(oids') = 0 /\ Len(queue') = 1 /\ Len(rows') = 0 /\ At(1)' = n
  BY <1>4 DEF Walked, At
<1>8. StageInv'
  BY <1>1, <1>4, <1>6, <1>7 DEF StageInv, Commits
<1>9. WalkInv'
  BY <1>4, <1>7 DEF WalkInv
<1>10. ChainInv'
  BY <1>7 DEF ChainInv
<1>11. RowsInv'
  BY <1>4, <1>7 DEF RowsInv
<1> QED BY <1>6, <1>8, <1>9, <1>10, <1>11 DEF Inv

LEMMA VisitKeepsInv ==
    ASSUME Inv, Visit
    PROVE  Inv'
<1>1. Types' /\ WalkInv' /\ ChainInv' /\ RowsInv'
  BY VisitKeepsTypes, VisitKeepsWalk, VisitKeepsChain, VisitKeepsRows
<1>2. /\ phase = "walk" /\ phase' = "walk" /\ head' = head /\ history' = history
      /\ headRev' = headRev /\ live' = live
  BY DEF Visit
<1>3. PICK c, fresh, w : c = Head(queue) /\ fresh = Unseen(c) /\ w = Walked
  OBVIOUS
<1>4. Walked' = w + Len(fresh) /\ Len(fresh) \in Nat /\ \A i \in 1 .. w : At(i)' = At(i)
  BY <1>3, VisitExtends DEF Inv
<1>5. w \in Nat
  BY <1>3, SequencesOfCommits DEF Inv, Walked
<1>6. StageInv'
  BY <1>2, <1>3, <1>4, <1>5 DEF StageInv, Inv, Commits
<1> QED BY <1>1, <1>6 DEF Inv

LEMMA HoistKeepsInv ==
    ASSUME Inv, Hoist
    PROVE  Inv'
<1>1. /\ phase' = "done" /\ queue' = <<>>
      /\ headRev' = current_head_rev /\ live' = query_live_paths
      /\ UNCHANGED <<history, head, include_merges, walk>>
  BY DEF Hoist, walk
<1>2. HistoryInv'
  <2>1. [Next]_vars
    BY DEF Next
  <2> QED BY <2>1, HistoryStep DEF Inv, Types
<1>3. Types'
  BY <1>1, <1>2 DEF Inv, Types, Commits, walk
<1>4. WalkInv' /\ ChainInv' /\ RowsInv'
  BY <1>1, WalkRests DEF Inv
<1>5. current_head_rev' = current_head_rev /\ query_live_paths' = query_live_paths
  <2>1. history' = history /\ rows' = rows
    BY <1>1 DEF walk
  <2> QED BY <2>1 DEF current_head_rev, query_live_paths, FirstOf, Precedes, DateOf, Touching,
                      LatestType
<1>6. StageInv'
  BY <1>1, <1>5 DEF Inv, StageInv, Hoist, Walked, At, walk, Commits
<1> QED BY <1>3, <1>4, <1>6 DEF Inv

LEMMA NextInv == Inv /\ [Next]_vars => Inv'
<1> SUFFICES ASSUME Inv, [Next]_vars PROVE Inv'
  OBVIOUS
<1>1. HistoryInv'
  BY HistoryStep DEF Inv, Types
<1>2. ASSUME NEW parent \in {NoCommit} \cup Commits, CommitOn(parent) PROVE Inv'
  <2>1. Len(history') = Len(history) + 1 /\ Len(history) \in Nat
    BY <1>2 DEF CommitOn, Inv, Types, HistoryInv
  <2> QED BY <1>1, <1>2, <2>1, GrowKeepsInv, HistoryAssumption DEF CommitOn
<1>3. ASSUME NEW p \in Commits, NEW q \in Commits, Merge(p, q) PROVE Inv'
  <2>1. Len(history') = Len(history) + 1 /\ Len(history) \in Nat
    BY <1>3 DEF Merge, Inv, Types, HistoryInv
  <2> QED BY <1>1, <1>3, <2>1, GrowKeepsInv, HistoryAssumption DEF Merge
<1>4. CASE UNCHANGED vars
  <2>1. WalkInv' /\ ChainInv' /\ RowsInv'
    BY <1>4, WalkRests DEF vars, Inv
  <2>2. Types'
    BY <1>1, <1>4 DEF vars, Inv, Types, Commits, walk
  <2>3. current_head_rev' = current_head_rev /\ query_live_paths' = query_live_paths
    BY <1>4 DEF vars, walk, current_head_rev, query_live_paths, FirstOf, Precedes, DateOf,
                Touching, LatestType
  <2>4. StageInv'
    BY <1>4, <2>3 DEF vars, walk, Inv, StageInv, Walked, At, Commits
  <2> QED BY <2>1, <2>2, <2>4 DEF Inv
<1> QED
  BY <1>2, <1>3, <1>4, StartKeepsInv, VisitKeepsInv, HoistKeepsInv DEF Next

LEMMA Invariance == Spec => []Inv
  BY InitInv, NextInv, PTL DEF Spec

-----------------------------------------------------------------------------
(* What the invariant says when the walk is over.                           *)

LEMMA YieldedIsReachable ==
    ASSUME Inv, phase = "done"
    PROVE  /\ head \in Commits /\ queue = <<>> /\ Len(oids) \in Nat \ {0} /\ oids[1] = head
           /\ Walked = Len(oids) /\ \A i \in 1 .. Len(oids) : At(i) = oids[i]
           /\ Reachable = {oids[i] : i \in 1 .. Len(oids)}
<1>1. head \in Commits /\ queue = <<>> /\ Walked >= 1 /\ At(1) = head
  BY DEF Inv, StageInv
<1>2. /\ Len(oids) \in Nat \ {0} /\ Walked = Len(oids)
      /\ \A i \in 1 .. Len(oids) : At(i) = oids[i]
  BY <1>1, SequencesOfCommits DEF Walked, At, Inv
<1>3. seen = {oids[i] : i \in 1 .. Len(oids)}
  BY <1>2 DEF Inv, WalkInv
<1>4. oids[1] = head
  BY <1>1, <1>2
<1>5. /\ head \in Reachable /\ Closed(Reachable)
      /\ \A S : head \in S /\ Closed(S) => Reachable \subseteq S
  BY <1>1, ReachableIsTheLeastClosedSet DEF Inv, Types
<1>6. Reachable \subseteq seen
  <2>1. Closed(seen)
    BY <1>3 DEF Closed, Inv, WalkInv
  <2>2. head \in seen
    BY <1>2, <1>3, <1>4
  <2> QED BY <1>5, <2>1, <2>2
<1>7. \A i \in 1 .. Len(oids) : oids[i] \in Reachable
  <2> DEFINE Bad == {i \in 1 .. Len(oids) : oids[i] \notin Reachable}
  <2>1. SUFFICES ASSUME Bad # {} PROVE FALSE
    OBVIOUS
  <2>2. PICK i \in Bad : \A j \in Bad : i <= j
    <3>1. Bad \in SUBSET Nat
      OBVIOUS
    <3> HIDE DEF Bad
    <3> QED BY <2>1, <3>1, LeastOf
  <2>3. i \in 2 .. Walked
    BY <1>2, <1>4, <1>5, <2>2
  <2>4. PICK j \in 1 .. Len(oids) : j < i /\ At(i) \in Parents(oids[j])
    BY <2>3 DEF Inv, WalkInv
  <2>5. oids[j] \in Reachable
    BY <1>2, <2>2, <2>4
  <2>6. At(i) = oids[i] /\ i \in Bad
    BY <1>2, <2>2
  <2> QED BY <1>5, <2>2, <2>4, <2>5, <2>6 DEF Closed
<1> QED BY <1>1, <1>2, <1>3, <1>4, <1>6, <1>7

\* Every set of rows has a first one in the order of the queries.
LEMMA FirstExists ==
    ASSUME Types, NEW R \in SUBSET (1 .. Len(rows)), R # {}
    PROVE  /\ FirstOf(R) \in R
           /\ \A k \in R : Precedes(FirstOf(R), k)
           /\ \A j \in R : (\A k \in R : Precedes(j, k)) => FirstOf(R) = j
<1> DEFINE n == Len(rows)
           First(m, j) == \A k \in R \cap (1 .. m) : Precedes(j, k)
           Bad == {m \in 0 .. n : R \cap (1 .. m) # {} /\ ~ \E j \in R \cap (1 .. m) : First(m, j)}
<1>1. n \in Nat /\ \A k \in 1 .. n : DateOf(k) \in Nat
  <2>1. \A k \in 1 .. n : rows[k] \in Commits
    BY SequencesOfCommits
  <2>2. \A c \in Commits : history[c].date \in Nat
    <3>1. \A c \in Commits : history[c] \in Rec
      BY ElementOfSeq DEF Types, HistoryInv, Commits, Rec
    <3> QED BY <3>1, HistoryAssumption DEF Rec
  <2> QED BY <2>1, <2>2, SequencesOfCommits DEF DateOf
<1>2. /\ \A j \in 1 .. n : Precedes(j, j)
      /\ \A j, k \in 1 .. n : Precedes(j, k) \/ Precedes(k, j)
      /\ \A j, k \in 1 .. n : Precedes(j, k) /\ Precedes(k, j) => j = k
      /\ \A i, j, k \in 1 .. n : Precedes(i, j) /\ Precedes(j, k) => Precedes(i, k)
  BY <1>1 DEF Precedes
<1>3. Bad = {}
  <2>1. SUFFICES ASSUME Bad # {} PROVE FALSE
    OBVIOUS
  <2>2. PICK m \in Bad : \A l \in Bad : m <= l
    <3>1. Bad \in SUBSET Nat
      OBVIOUS
    <3> HIDE DEF Bad
    <3> QED BY <2>1, <3>1, LeastOf
  <2>3. m \in 1 .. n /\ m - 1 \in 0 .. n /\ m - 1 \notin Bad
    <3>1. m # 0
      BY <2>2
    <3>2. m \in 0 .. n
      BY <2>2
    <3>3. m - 1 \notin Bad
      <4> HIDE DEF Bad
      <4>1. m \in Nat
        BY <1>1, <3>2
      <4>2. ~(m <= m - 1)
        BY <4>1
      <4> QED BY <2>2, <4>2
    <3> HIDE DEF Bad, n
    <3> QED BY <1>1, <3>1, <3>2, <3>3
  <2>4. R \cap (1 .. m) = (R \cap (1 .. m - 1)) \cup (R \cap {m})
    <3>0. m \in Nat /\ m >= 1
      <4> HIDE DEF Bad, n
      <4> QED BY <1>1, <2>3
    <3>1. 1 .. m = (1 .. m - 1) \cup {m}
      BY <3>0
    <3> QED BY <3>1
  <2>5. \E j \in R \cap (1 .. m) : First(m, j)
    <3>1. CASE R \cap (1 .. m - 1) = {}
      BY <1>2, <2>2, <2>3, <2>4, <3>1
    <3>2. CASE R \cap (1 .. m - 1) # {}
      <4>1. PICK j \in R \cap (1 .. m - 1) : First(m - 1, j)
        BY <2>3, <3>2
      <4>2. CASE m \in R /\ Precedes(m, j)
        <5>1. First(m, m)
          <6>1. \A k \in R \cap (1 .. m - 1) : k \in 1 .. n /\ j \in 1 .. n /\ Precedes(j, k)
            BY <4>1
          <6>2. \A k \in R \cap (1 .. m - 1) : Precedes(m, k)
            <7> HIDE DEF First
            <7> QED BY <1>2, <2>3, <4>2, <6>1
          <6> QED BY <1>2, <2>3, <2>4, <6>2
        <5> HIDE DEF First
        <5> QED BY <2>3, <4>2, <5>1
      <4>3. CASE m \in R /\ Precedes(j, m)
        <5>1. First(m, j)
          BY <2>4, <4>1, <4>3
        <5> HIDE DEF First
        <5> QED BY <2>4, <4>1, <5>1
      <4>4. CASE m \notin R
        <5>1. First(m, j)
          BY <2>4, <4>1, <4>4
        <5> HIDE DEF First
        <5> QED BY <2>4, <4>1, <5>1
      <4> QED BY <1>2, <2>3, <4>1, <4>2, <4>3, <4>4
    <3> QED BY <3>1, <3>2
  <2> QED BY <2>2, <2>5
<1>4. PICK j \in R : \A k \in R : Precedes(j, k)
  <2>1. R \cap (1 .. n) = R /\ n \in 0 .. n
    <3>1. n \in 0 .. n
      BY <1>1
    <3> HIDE DEF n
    <3> QED BY <3>1 DEF n
  <2>2. \E j \in R \cap (1 .. n) : First(n, j)
    BY <1>3, <2>1
  <2> QED BY <2>1, <2>2
<1>5. FirstOf(R) \in R /\ \A k \in R : Precedes(FirstOf(R), k)
  BY <1>4 DEF FirstOf
<1> QED BY <1>2, <1>5

LEMMA SeenAreCounted ==
    ASSUME Types, WalkInv
    PROVE  Len(oids) + Len(queue) = Cardinality(seen)
<1>1. Walked \in Nat /\ Walked = Len(oids) + Len(queue)
  BY SequencesOfCommits DEF Walked
<1> DEFINE f == [i \in 1 .. Walked |-> At(i)]
<1>2. f \in Bijection(1 .. Walked, seen)
  BY DEF WalkInv, Bijection, Injection, Surjection, IsInjective
<1>3. ExistsBijection(1 .. Walked, seen)
  BY <1>2 DEF ExistsBijection
<1> QED BY <1>1, <1>3, FS_CountingElements

LEMMA InvImpliesTypeOK == Inv => TypeOK
<1> SUFFICES ASSUME Inv PROVE TypeOK
  OBVIOUS
<1>1. Types /\ StageInv /\ WalkInv
  BY DEF Inv
<1>2. Len(oids) + Len(queue) = Cardinality(seen)
  BY <1>1, SeenAreCounted
<1>3. headRev \in Commits \cup {NoCommit}
  <2>1. CASE phase = "done"
    <3>1. CASE rows = <<>>
      BY <1>1, <2>1, <3>1 DEF StageInv, current_head_rev
    <3>2. CASE rows # <<>>
      <4>1. Len(rows) \in Nat \ {0}
        BY <1>1, <3>2, EmptySeq DEF Types
      <4>2. FirstOf(1 .. Len(rows)) \in 1 .. Len(rows)
        <5>1. 1 .. Len(rows) # {}
          BY <4>1
        <5> QED BY <1>1, <5>1, FirstExists
      <4> QED BY <1>1, <2>1, <3>2, <4>2, SequencesOfCommits DEF StageInv, current_head_rev
    <3> QED BY <3>1, <3>2
  <2>2. CASE phase # "done"
    BY <1>1, <2>2 DEF StageInv
  <2> QED BY <2>1, <2>2
<1>4. live \subseteq Paths
  BY <1>1 DEF StageInv, Types, query_live_paths
<1> QED BY <1>1, <1>2, <1>3, <1>4 DEF Types, TypeOK, HistoryInv

\* The types, and the walk's books: what it has met is what it has yielded and
\* what waits, each once.
THEOREM TypeCorrect == Spec => []TypeOK
  BY Invariance, InvImpliesTypeOK, PTL

LEMMA InvImpliesOnce == Inv => WalkStoresEachCommitOnce
<1> SUFFICES ASSUME Inv, phase = "done" PROVE WalkStoresEachCommitOnce
  BY DEF WalkStoresEachCommitOnce
<1>1. Reachable = {oids[i] : i \in 1 .. Len(oids)}
  BY YieldedIsReachable
<1> QED BY <1>1 DEF WalkStoresEachCommitOnce, Inv, RowsInv

\* Of every history the store has one row for each reachable commit that is
\* kept, and none for another (rev_walk, process_commit_oid).
THEOREM StoredOnce == Spec => []WalkStoresEachCommitOnce
  BY Invariance, InvImpliesOnce, PTL

-----------------------------------------------------------------------------
(* HEAD, from the rows.                                                     *)

LEMMA DatesAreNumbers ==
    ASSUME Types
    PROVE  \A c \in Commits : history[c].date \in Nat
<1>1. \A c \in Commits : history[c] \in Rec
  BY ElementOfSeq DEF Types, HistoryInv, Commits, Rec
<1> QED BY <1>1, HistoryAssumption DEF Rec

LEMMA HeadIsNewest ==
    ASSUME Inv, phase = "done", InOrder
    PROVE  \A c \in Reachable : history[c].date <= history[head].date
<1> DEFINE S == {c \in Reachable : history[c].date <= history[head].date}
<1>1. head \in Commits /\ \A c \in Commits : history[c].date \in Nat
  BY DatesAreNumbers DEF Inv, StageInv
<1>2. head \in Reachable /\ Closed(Reachable) /\ Reachable \subseteq Commits
  BY <1>1, ReachableIsTheLeastClosedSet DEF Inv, Types
<1>3. head \in S
  BY <1>1, <1>2
<1>4. Closed(S)
  <2>1. ASSUME NEW c \in S, NEW p \in Parents(c) PROVE p \in S
    <3>1. c \in Reachable /\ p \in Reachable
      BY <1>2 DEF Closed
    <3>2. history[p].date <= history[c].date /\ history[c].date <= history[head].date
      BY <3>1 DEF InOrder
    <3> QED BY <1>1, <1>2, <3>1, <3>2
  <2> QED BY <2>1 DEF Closed
<1>5. Reachable \subseteq S
  <2> HIDE DEF S
  <2> QED BY <1>1, <1>3, <1>4, ReachableIsTheLeastClosedSet DEF Inv, Types
<1> QED BY <1>5

LEMMA InvImpliesHead == Inv => HeadRevIsHead
<1> SUFFICES ASSUME Inv, phase = "done", InOrder, Kept(head) PROVE headRev = head
  BY DEF HeadRevIsHead
<1>1. Types /\ RowsInv /\ headRev = current_head_rev
  BY DEF Inv, StageInv
<1>2. Len(rows) \in Nat /\ Len(rows) >= 1 /\ rows[1] = head /\ rows # <<>>
  BY <1>1, YieldedIsReachable, SequencesOfCommits DEF RowsInv
<1>3. \A k \in 1 .. Len(rows) : rows[k] \in Reachable /\ rows[k] \in Commits
  <2>1. Reachable = {oids[i] : i \in 1 .. Len(oids)}
    BY YieldedIsReachable
  <2> QED BY <1>1, <2>1, SequencesOfCommits DEF RowsInv
<1>4. \A k \in 1 .. Len(rows) : Precedes(1, k)
  <2> TAKE k \in 1 .. Len(rows)
  <2>1. history[rows[k]].date <= history[head].date
    BY <1>3, HeadIsNewest
  <2>2. history[rows[k]].date \in Nat /\ history[head].date \in Nat
    BY <1>1, <1>2, <1>3, DatesAreNumbers
  <2> QED BY <1>2, <2>1, <2>2 DEF Precedes, DateOf
<1>5. FirstOf(1 .. Len(rows)) = 1
  BY <1>1, <1>2, <1>4, FirstExists
<1> QED BY <1>1, <1>2, <1>5 DEF current_head_rev

\* The query for HEAD answers HEAD, on histories whose dates respect their
\* edges, same-second commits included (current_head_rev).
THEOREM HeadFound == Spec => []HeadRevIsHead
  BY Invariance, InvImpliesHead, PTL

-----------------------------------------------------------------------------
(* The files of HEAD, from the rows.                                        *)

\* On a linear history the rows are a line from HEAD to the root.
LEMMA LinearRows ==
    ASSUME Inv, phase = "done", Linear
    PROVE  /\ Len(rows) \in Nat \ {0} /\ rows[1] = head
           /\ \A k \in 1 .. Len(rows) : rows[k] \in Commits /\ rows[k] \in Reachable
                                        /\ ~IsMerge(rows[k])
           /\ \A k \in 1 .. Len(rows) :
                 FirstParent(rows[k]) = IF k < Len(rows) THEN rows[k + 1] ELSE NoCommit
           /\ \A k \in 2 .. Len(rows) : rows[k] \in Parents(rows[k - 1])
<1>1. /\ queue = <<>> /\ Len(oids) \in Nat \ {0} /\ oids[1] = head
      /\ Walked = Len(oids) /\ \A i \in 1 .. Len(oids) : At(i) = oids[i]
      /\ Reachable = {oids[i] : i \in 1 .. Len(oids)}
  BY YieldedIsReachable
<1>2. \A i \in 1 .. Len(oids) : ~IsMerge(oids[i]) /\ oids[i] \in Commits
  BY <1>1, SequencesOfCommits DEF Linear, Inv
<1>3. rows = oids
  BY <1>2 DEF Kept, Inv, RowsInv
<1>4. \A i \in 2 .. Len(rows) : rows[i] \in Parents(rows[i - 1])
  BY <1>1, <1>2, <1>3 DEF Inv, ChainInv
<1>5. \A k \in 1 .. Len(rows) : \/ Parents(rows[k]) = {} /\ FirstParent(rows[k]) = NoCommit
                               \/ Parents(rows[k]) = {FirstParent(rows[k])}
  <2> TAKE k \in 1 .. Len(rows)
  <2> DEFINE c == rows[k]
  <2>1. ParentsOK(c) /\ ~IsMerge(c)
    BY <1>2, <1>3 DEF Inv, Types, HistoryInv
  <2>2. history[c].parents = <<>> \/ \E p \in 1 .. c - 1 : history[c].parents = <<p>>
    BY <2>1 DEF ParentsOK, IsMerge
  <2> QED BY <2>2 DEF Parents, FirstParent
<1>6. \A k \in 1 .. Len(rows) : k < Len(rows) => FirstParent(rows[k]) = rows[k + 1]
  <2> SUFFICES ASSUME NEW k \in 1 .. Len(rows), k < Len(rows) PROVE FirstParent(rows[k]) = rows[k + 1]
    OBVIOUS
  <2>1. rows[k + 1] \in Parents(rows[k])
    <3>1. k + 1 \in 2 .. Len(rows) /\ (k + 1) - 1 = k
      BY <1>1, <1>3
    <3> QED BY <1>4, <3>1
  <2> QED BY <1>5, <2>1
<1>7. FirstParent(rows[Len(rows)]) = NoCommit
  <2> DEFINE n == Len(rows)
  <2>1. n \in 1 .. Len(rows) /\ n \in Nat
    BY <1>1, <1>3
  <2>2. \A i \in 1 .. n : rows[n] <= rows[i]
    <3> DEFINE Bad == {d \in 0 .. n - 1 : ~(rows[n] <= rows[n - d])}
    <3>1. Bad = {}
      <4>1. SUFFICES ASSUME Bad # {} PROVE FALSE
        OBVIOUS
      <4>2. PICK d \in Bad : \A e \in Bad : d <= e
        <5>1. Bad \in SUBSET Nat
          BY <2>1
        <5> HIDE DEF Bad
        <5> QED BY <4>1, <5>1, LeastOf
      <4>3. rows[n] \in Nat /\ \A i \in 1 .. n : rows[i] \in Nat
        BY <1>2, <1>3, <2>1 DEF Commits
      <4>4. d # 0
        BY <2>1, <4>2, <4>3
      <4>5. d - 1 \in 0 .. n - 1 /\ d - 1 \notin Bad
        <5>1. d \in 0 .. n - 1
          BY <4>2
        <5>2. d - 1 \in 0 .. n - 1 /\ ~(d <= d - 1)
          BY <2>1, <4>4, <5>1
        <5> HIDE DEF Bad
        <5> QED BY <4>2, <5>2
      <4>6. PICK i : i = n - d
        OBVIOUS
      <4>7. i \in 1 .. n /\ i + 1 \in 2 .. n /\ n - (d - 1) = i + 1 /\ (i + 1) - 1 = i
        <5> HIDE DEF n
        <5> QED BY <2>1, <4>2, <4>4, <4>6
      <4>8. rows[n] <= rows[i + 1]
        BY <4>5, <4>7
      <4>9. rows[i + 1] \in Parents(rows[i])
        BY <1>4, <4>7
      <4>10. rows[i + 1] < rows[i]
        <5>1. Parents(rows[i]) \subseteq 1 .. rows[i] - 1
          BY <1>2, <1>3, <4>7, EarlierParents DEF Inv, Types, ParentsAreEarlier
        <5> QED BY <4>3, <4>7, <4>9, <5>1
      <4>11. rows[n] <= rows[i]
        BY <4>3, <4>7, <4>8, <4>10
      <4> QED BY <4>2, <4>6, <4>11
    <3> TAKE i \in 1 .. n
    <3>2. n - i \in 0 .. n - 1 /\ n - (n - i) = i
      BY <2>1
    <3>3. n - i \notin Bad
      BY <3>1
    <3> QED BY <3>2, <3>3
  <2>3. Parents(rows[n]) \subseteq {rows[i] : i \in 1 .. n}
    <3>1. seen = {rows[i] : i \in 1 .. n}
      <4>1. seen = {At(i) : i \in 1 .. Walked}
        BY DEF Inv, WalkInv
      <4> QED BY <1>1, <1>3, <4>1
    <3>2. Parents(rows[n]) \subseteq seen
      BY <1>3, <2>1 DEF Inv, WalkInv
    <3> QED BY <3>1, <3>2
  <2>4. Parents(rows[n]) \subseteq 1 .. rows[n] - 1
    BY <1>2, <1>3, <2>1, EarlierParents DEF Inv, Types, ParentsAreEarlier
  <2>5. Parents(rows[n]) = {}
    <3>1. rows[n] \in Nat
      BY <1>2, <1>3, <2>1 DEF Commits
    <3> QED BY <2>2, <2>3, <2>4, <3>1
  <2> QED BY <1>5, <2>1, <2>5
<1> QED BY <1>1, <1>2, <1>3, <1>4, <1>6, <1>7

\* On such a history in date order the rows come newest first.
LEMMA DatesFall ==
    ASSUME Inv, phase = "done", InOrder, Linear
    PROVE  \A j, k \in 1 .. Len(rows) : j <= k => DateOf(j) >= DateOf(k)
<1> DEFINE n == Len(rows)
<1>1. n \in Nat \ {0}
  BY LinearRows
<1>2. \A k \in 1 .. n : DateOf(k) \in Nat
  BY LinearRows, DatesAreNumbers DEF DateOf, Inv
<1>3. \A k \in 2 .. n : DateOf(k - 1) >= DateOf(k)
  <2> TAKE k \in 2 .. n
  <2>1. PICK i : i = k - 1
    OBVIOUS
  <2>2. i \in 1 .. n /\ k \in 1 .. n
    BY <1>1, <2>1
  <2>3. rows[k] \in Parents(rows[i]) /\ rows[i] \in Reachable
    BY <2>1, <2>2, LinearRows
  <2>4. history[rows[k]].date <= history[rows[i]].date
    BY <2>3 DEF InOrder
  <2>5. DateOf(k) <= DateOf(i)
    BY <2>4 DEF DateOf
  <2> QED BY <1>2, <2>1, <2>2, <2>5
<1> SUFFICES ASSUME NEW j \in 1 .. n PROVE \A k \in 1 .. n : j <= k => DateOf(j) >= DateOf(k)
  OBVIOUS
<1> DEFINE Bad == {k \in 1 .. n : j <= k /\ ~(DateOf(j) >= DateOf(k))}
<1>4. Bad = {}
  <2>1. SUFFICES ASSUME Bad # {} PROVE FALSE
    OBVIOUS
  <2>2. PICK k \in Bad : \A l \in Bad : k <= l
    <3>1. Bad \in SUBSET Nat
      OBVIOUS
    <3> HIDE DEF Bad
    <3> QED BY <2>1, <3>1, LeastOf
  <2>3. k \in 1 .. n /\ j <= k /\ ~(DateOf(j) >= DateOf(k))
    BY <2>2
  <2>4. k # j
    <3>1. DateOf(j) >= DateOf(j)
      BY <1>2
    <3> QED BY <2>3, <3>1
  <2>5. PICK i : i = k - 1
    OBVIOUS
  <2>6. i \in 1 .. n /\ j <= i /\ ~(k <= i) /\ k \in 2 .. n
    <3> HIDE DEF n, Bad
    <3> QED BY <1>1, <2>3, <2>4, <2>5
  <2>7. i \notin Bad
    <3> HIDE DEF Bad
    <3> QED BY <2>2, <2>6
  <2>8. DateOf(j) >= DateOf(i)
    BY <2>6, <2>7
  <2>9. DateOf(i) >= DateOf(k)
    BY <1>3, <2>5, <2>6
  <2>10. DateOf(j) \in Nat /\ DateOf(i) \in Nat /\ DateOf(k) \in Nat
    BY <1>2, <2>3, <2>6
  <2> QED BY <2>3, <2>8, <2>9, <2>10
<1> QED BY <1>4

LEMMA InvImpliesScan == Inv => LinearScanIsComplete
<1> SUFFICES ASSUME Inv, phase = "done", InOrder, Linear, NEW p \in TreeOf(head)
             PROVE  p \in live
  BY DEF LinearScanIsComplete
<1> DEFINE n == Len(rows)
<1>1. /\ n \in Nat \ {0} /\ rows[1] = head
      /\ \A k \in 1 .. n : rows[k] \in Commits /\ rows[k] \in Reachable /\ ~IsMerge(rows[k])
      /\ \A k \in 1 .. n : FirstParent(rows[k]) = IF k < n THEN rows[k + 1] ELSE NoCommit
  BY LinearRows
<1>2. \A k \in 1 .. n : ChangesOK(rows[k])
  BY <1>1 DEF Inv, Types, HistoryInv
\* the first row, from HEAD on, whose parent has not the file
<1> DEFINE Without == {k \in 1 .. n : p \notin TreeOf(FirstParent(rows[k]))}
<1>3. Without # {}
  BY <1>1 DEF TreeOf, NoTree
<1>4. PICK m \in Without : \A k \in Without : m <= k
  <2>1. Without \in SUBSET Nat
    OBVIOUS
  <2> HIDE DEF Without
  <2> QED BY <1>3, <2>1, LeastOf
<1>5. \A k \in 1 .. m : k \in 1 .. n /\ p \in TreeOf(rows[k])
  <2> TAKE k \in 1 .. m
  <2>1. m \in 1 .. n /\ k \in 1 .. n
    BY <1>1, <1>4
  <2>2. CASE k = 1
    BY <1>1, <2>2
  <2>3. CASE k # 1
    <3>1. PICK j : j = k - 1
      OBVIOUS
    <3>2. j \in 1 .. n /\ j < m /\ j + 1 = k /\ j < n
      BY <1>1, <2>1, <2>3, <3>1
    <3>3. j \notin Without
      <4>1. ~(m <= j)
        BY <2>1, <3>2
      <4> HIDE DEF Without
      <4> QED BY <1>4, <4>1
    <3>4. p \in TreeOf(FirstParent(rows[j]))
      BY <3>2, <3>3
    <3> QED BY <1>1, <2>1, <3>2, <3>4
  <2> QED BY <2>1, <2>2, <2>3
<1>6. m \in Touching(p) /\ Touching(p) \subseteq 1 .. n
  <2>1. m \in 1 .. n /\ p \in TreeOf(rows[m]) /\ p \notin TreeOf(FirstParent(rows[m]))
    BY <1>1, <1>4, <1>5
  <2>2. \E ch \in history[rows[m]].changes : ch.path = p
    BY <1>1, <1>2, <2>1 DEF ChangesOK
  <2> QED BY <2>1, <2>2 DEF Touching
<1>7. FirstOf(Touching(p)) \in Touching(p) /\ Precedes(FirstOf(Touching(p)), m)
  BY <1>6, FirstExists DEF Inv
<1>8. \A j, k \in 1 .. n : j <= k => DateOf(j) >= DateOf(k)
  BY DatesFall
<1> DEFINE f == FirstOf(Touching(p))
<1>9. f \in 1 .. m
  <2>1. f \in 1 .. n /\ m \in 1 .. n /\ Precedes(f, m)
    BY <1>6, <1>7
  <2>2. DateOf(f) \in Nat /\ DateOf(m) \in Nat
    BY <1>1, <2>1, DatesAreNumbers DEF DateOf, Inv
  <2>3. ~(m < f)
    <3>1. SUFFICES ASSUME m < f PROVE FALSE
      OBVIOUS
    <3>2. DateOf(m) >= DateOf(f)
      <4> HIDE DEF f
      <4> QED BY <1>8, <2>1, <3>1
    <3>3. DateOf(f) = DateOf(m) /\ f <= m
      <4> HIDE DEF f
      <4> QED BY <2>1, <2>2, <3>2 DEF Precedes
    <3> HIDE DEF f
    <3> QED BY <2>1, <3>1, <3>3
  <2> HIDE DEF f
  <2> QED BY <2>1, <2>3
<1>10. p \in TreeOf(rows[f])
  BY <1>5, <1>9
<1>11. \A ch \in history[rows[f]].changes : ch.path = p => ch.type # "deleted"
  BY <1>1, <1>2, <1>9, <1>10 DEF ChangesOK
<1>12. LatestType(p) # "deleted"
  <2>1. \E ch \in history[rows[f]].changes : ch.path = p
    BY <1>7 DEF Touching
  <2> QED BY <1>11, <2>1 DEF LatestType
<1>13. p \in Paths
  <2>1. history[head] \in Rec
    <3>1. head \in 1 .. Len(history) /\ history \in Seq(Rec)
      BY <1>1 DEF Inv, Types, StageInv, HistoryInv, Commits, Rec
    <3> QED BY <3>1, ElementOfSeq
  <2>2. TreeOf(head) \subseteq Paths
    BY <2>1, HistoryAssumption DEF Rec, TreeOf, NoTree
  <2> QED BY <2>2
<1> QED BY <1>6, <1>12, <1>13 DEF Inv, StageInv, query_live_paths

\* The scan list misses no file of HEAD's tree on a linear history in date order
\* (query_live_paths).
THEOREM ScanComplete == Spec => []LinearScanIsComplete
  BY Invariance, InvImpliesScan, PTL

===============================================================================
