---------------------------- MODULE ChangeSetProofs ----------------------------
(***************************************************************************)
(* The search for cycles is right on every import graph; so what a gate     *)
(* reports of a change set, measured or served, is of the working tree of   *)
(* its call, for any trees, edits and gates.                                *)
(***************************************************************************)
EXTENDS ChangeSet, FiniteSetTheorems, SequenceTheorems, WellFoundedInduction, TLAPS

-----------------------------------------------------------------------------
(* Sequences and reachability.                                              *)

LEMMA Appended ==
    ASSUME NEW T, NEW q \in Seq(T), NEW x \in T
    PROVE  /\ Append(q, x) \in Seq(T) /\ Len(Append(q, x)) = Len(q) + 1
           /\ Append(q, x)[Len(q) + 1] = x
           /\ \A i \in 1 .. Len(q) : Append(q, x)[i] = q[i]
           /\ Range(Append(q, x)) = Range(q) \cup {x}
<1>1. /\ Append(q, x) \in Seq(T) /\ Len(Append(q, x)) = Len(q) + 1
      /\ Append(q, x)[Len(q) + 1] = x
      /\ \A i \in 1 .. Len(q) : Append(q, x)[i] = q[i]
  OBVIOUS
<1>2. DOMAIN Append(q, x) = 1 .. Len(q) + 1 /\ DOMAIN q = 1 .. Len(q) /\ Len(q) \in Nat
  OBVIOUS
<1> DEFINE r == Append(q, x)
<1>3. DOMAIN r = DOMAIN q \cup {Len(q) + 1}
  BY <1>2
<1>4. (\A i \in DOMAIN q : r[i] = q[i]) /\ r[Len(q) + 1] = x
  BY <1>1, <1>2
<1> HIDE DEF r
<1>5. Range(r) = Range(q) \cup {x}
  BY <1>3, <1>4 DEF Range
<1>6. QED
  BY <1>1, <1>5 DEF r

LEMMA Shortened ==
    ASSUME NEW T, NEW q \in Seq(T), NEW n \in 0 .. Len(q)
    PROVE  /\ SubSeq(q, 1, n) \in Seq(T) /\ Len(SubSeq(q, 1, n)) = n
           /\ \A i \in 1 .. n : SubSeq(q, 1, n)[i] = q[i]
<1>1. \A i \in 1 .. n : q[i] \in T
  OBVIOUS
<1>2. /\ SubSeq(q, 1, n) \in Seq(T)
      /\ Len(SubSeq(q, 1, n)) = IF 1 <= n THEN n - 1 + 1 ELSE 0
      /\ \A i \in 1 .. n - 1 + 1 : SubSeq(q, 1, n)[i] = q[1 + i - 1]
  BY <1>1, SubSeqProperties
<1>3. n - 1 + 1 = n /\ \A i \in 1 .. n : 1 + i - 1 = i
  OBVIOUS
<1>4. QED
  BY <1>2, <1>3

LEMMA Fronted ==
    ASSUME NEW T, NEW q \in Seq(T), q # <<>>
    PROVE  /\ Front(q) \in Seq(T) /\ Len(Front(q)) = Len(q) - 1 /\ Len(q) \in Nat \ {0}
           /\ \A i \in 1 .. Len(q) - 1 : Front(q)[i] = q[i]
           /\ Last(q) = q[Len(q)] /\ Last(q) \in T
<1>1. Len(q) \in Nat \ {0}
  OBVIOUS
<1>2. Len(q) - 1 \in 0 .. Len(q)
  BY <1>1
<1>3. /\ SubSeq(q, 1, Len(q) - 1) \in Seq(T) /\ Len(SubSeq(q, 1, Len(q) - 1)) = Len(q) - 1
      /\ \A i \in 1 .. Len(q) - 1 : SubSeq(q, 1, Len(q) - 1)[i] = q[i]
  BY <1>2, Shortened
<1>4. QED
  BY <1>1, <1>3 DEF Front, Last

LEMMA InRange ==
    ASSUME NEW T, NEW q \in Seq(T)
    PROVE  /\ Range(q) = {q[i] : i \in 1 .. Len(q)} /\ Range(q) \subseteq T
  BY DEF Range

LEMMA ReachesSelf == ASSUME NEW edges, NEW p PROVE Reaches(edges, p, p)
  BY DEF Reaches

LEMMA ReachesNext ==
    ASSUME NEW edges, NEW p, NEW q, NEW r, Reaches(edges, p, q), <<q, r>> \in edges
    PROVE  Reaches(edges, p, r)
  BY DEF Reaches

LEMMA ReachesTrans ==
    ASSUME NEW edges, NEW p, NEW q, NEW r, Reaches(edges, p, q), Reaches(edges, q, r)
    PROVE  Reaches(edges, p, r)
  BY DEF Reaches

LEMMA ReachesWithin ==
    ASSUME NEW edges, NEW within \in SUBSET Paths, NEW p \in within, NEW q,
           \A e \in edges : e[1] \in within => e[2] \in within, Reaches(edges, p, q)
    PROVE  q \in within
  BY DEF Reaches

-----------------------------------------------------------------------------
(* Tarjan's search.                                                         *)

Visited(s) == {p \in Paths : s.indices[p] # UNSET}
Done(s) == UNION s.sccs
OnCall(s) == Range(s.call)
Looked(adj, s, x) == adj[x] \ s.rest[x]

States == [indices : [Paths -> Nat], low : [Paths -> Nat], idx : Nat \ {0},
           tstack : Seq(Paths), call : Seq(Paths), rest : [Paths -> SUBSET Paths],
           sccs : SUBSET SUBSET Paths]

\* x was put on the stack by the visit of the k-th file of the work stack, or by
\* a visit of a child of it that has been left
Under(s, k, x) ==
    /\ x \in OnStack(s) /\ s.indices[s.call[k]] <= s.indices[x]
    /\ k # Len(s.call) => s.indices[x] < s.indices[s.call[k + 1]]

\* Numbers are given in the order of the visits; what has one is on the stack or
\* in a component.
NumberInv(s) ==
    /\ \A p \in Paths : s.indices[p] < s.idx
    /\ \A p, q \in Visited(s) : s.indices[p] = s.indices[q] => p = q
    /\ Visited(s) = OnStack(s) \cup Done(s) /\ OnStack(s) \cap Done(s) = {}

StackInv(s) ==
    /\ \A i, j \in 1 .. Len(s.tstack) : i < j => s.indices[s.tstack[i]] < s.indices[s.tstack[j]]
    /\ \A i, j \in 1 .. Len(s.call) : i < j => s.indices[s.call[i]] < s.indices[s.call[j]]
    /\ OnCall(s) \subseteq OnStack(s)
    /\ \A x \in OnStack(s) : \E k \in 1 .. Len(s.call) : Under(s, k, x)

RestInv(adj, s) ==
    /\ \A p \in Paths : s.rest[p] \subseteq adj[p]
    /\ \A p \in Visited(s) : s.rest[p] # {} => p \in OnCall(s)
    /\ \A p \in Paths : Looked(adj, s, p) \subseteq Visited(s)
    /\ \A p \in Unvisited(s) : Looked(adj, s, p) = {}

\* `low` of a file on the work stack: no looked-at edge from under it leads below
\* that on the stack, and it reaches what has that number.
LowInv(adj, edges, s) ==
    \A k \in 1 .. Len(s.call) :
        /\ \A x \in OnStack(s), y \in OnStack(s) :
              Under(s, k, x) /\ y \in Looked(adj, s, x) => s.low[s.call[k]] <= s.indices[y]
        /\ s.low[s.call[k]] <= s.indices[s.call[k]]
        /\ \E z \in OnStack(s) : s.indices[z] = s.low[s.call[k]] /\ Reaches(edges, s.call[k], z)

\* A file on the work stack reaches what came on the stack after it, and is
\* reached by what is under it.
ReachInv(edges, s) ==
    \A k \in 1 .. Len(s.call), x \in OnStack(s) :
        /\ s.indices[s.call[k]] <= s.indices[x] => Reaches(edges, s.call[k], x)
        /\ Under(s, k, x) => Reaches(edges, x, s.call[k])

\* Components are whole, and no edge leaves what is in one for what is in none.
DoneInv(adj, edges, s) ==
    /\ \A x \in Done(s) : adj[x] \subseteq Done(s)
    /\ \A c \in s.sccs : \A x \in c, y \in Paths :
          y \in c <=> Reaches(edges, x, y) /\ Reaches(edges, y, x)

SearchInv(adj, edges, s) ==
    /\ s \in States
    /\ NumberInv(s) /\ StackInv(s) /\ RestInv(adj, s)
    /\ LowInv(adj, edges, s) /\ ReachInv(edges, s) /\ DoneInv(adj, edges, s)

LEMMA SearchTypes ==
    ASSUME NEW adj, NEW edges, NEW s, SearchInv(adj, edges, s)
    PROVE  /\ s.indices \in [Paths -> Nat] /\ s.low \in [Paths -> Nat] /\ s.idx \in Nat /\ s.idx # 0
           /\ s.tstack \in Seq(Paths) /\ s.call \in Seq(Paths) /\ s.rest \in [Paths -> SUBSET Paths]
           /\ s.sccs \in SUBSET SUBSET Paths /\ Len(s.call) \in Nat /\ Len(s.tstack) \in Nat
           /\ OnStack(s) \subseteq Paths /\ OnCall(s) \subseteq Paths /\ Done(s) \subseteq Paths
           /\ OnCall(s) = {s.call[i] : i \in 1 .. Len(s.call)}
           /\ OnStack(s) = {s.tstack[i] : i \in 1 .. Len(s.tstack)}
<1>1. s \in States
  BY DEF SearchInv
<1>2. /\ s.indices \in [Paths -> Nat] /\ s.low \in [Paths -> Nat] /\ s.idx \in Nat /\ s.idx # 0
      /\ s.tstack \in Seq(Paths) /\ s.call \in Seq(Paths) /\ s.rest \in [Paths -> SUBSET Paths]
      /\ s.sccs \in SUBSET SUBSET Paths
  BY <1>1 DEF States
<1>3. Len(s.call) \in Nat /\ Len(s.tstack) \in Nat
  BY <1>2
<1>4. OnCall(s) \subseteq Paths /\ OnCall(s) = {s.call[i] : i \in 1 .. Len(s.call)}
  BY <1>2, InRange DEF OnCall
<1>5. OnStack(s) \subseteq Paths /\ OnStack(s) = {s.tstack[i] : i \in 1 .. Len(s.tstack)}
  BY <1>2, InRange DEF OnStack
<1>6. Done(s) \subseteq Paths
  BY <1>2 DEF Done
<1>7. QED
  BY <1>2, <1>3, <1>4, <1>5, <1>6

\* What the first visit of w makes of a search.
Visits(s, t, w, rest) ==
    /\ t.indices = [s.indices EXCEPT ![w] = s.idx] /\ t.low = [s.low EXCEPT ![w] = s.idx]
    /\ t.idx = s.idx + 1 /\ t.rest = rest /\ t.sccs = s.sccs
    /\ t.tstack = Append(s.tstack, w) /\ t.call = Append(s.call, w)
    /\ t \in States

LEMMA IsState ==
    ASSUME NEW s \in States, NEW t, t = [field \in DOMAIN s |-> t[field]],
           t.indices \in [Paths -> Nat], t.low \in [Paths -> Nat], t.idx \in Nat \ {0},
           t.tstack \in Seq(Paths), t.call \in Seq(Paths), t.rest \in [Paths -> SUBSET Paths],
           t.sccs \in SUBSET SUBSET Paths
    PROVE  t \in States
  BY DEF States

\* A search with another rest.
LEMMA RestIs ==
    ASSUME NEW s \in States, NEW rest \in [Paths -> SUBSET Paths]
    PROVE  LET u == [s EXCEPT !.rest = rest] IN
           /\ u \in States /\ u.indices = s.indices /\ u.low = s.low /\ u.idx = s.idx
           /\ u.tstack = s.tstack /\ u.call = s.call /\ u.rest = rest /\ u.sccs = s.sccs
<1> DEFINE u == [s EXCEPT !.rest = rest]
<1>1. /\ u.indices = s.indices /\ u.low = s.low /\ u.idx = s.idx
      /\ u.tstack = s.tstack /\ u.call = s.call /\ u.rest = rest /\ u.sccs = s.sccs
  BY DEF States
<1>2. u = [field \in DOMAIN s |-> u[field]]
  BY DEF States
<1>3. /\ s.indices \in [Paths -> Nat] /\ s.low \in [Paths -> Nat] /\ s.idx \in Nat \ {0}
      /\ s.tstack \in Seq(Paths) /\ s.call \in Seq(Paths) /\ s.sccs \in SUBSET SUBSET Paths
  BY DEF States
<1> HIDE DEF u
<1>4. u \in States
  BY <1>1, <1>2, <1>3, IsState
<1>5. QED
  BY <1>1, <1>4 DEF u

LEMMA VisitIs ==
    ASSUME NEW s \in States, NEW w \in Paths, NEW rest \in [Paths -> SUBSET Paths]
    PROVE  Visits(s, FirstVisit([s EXCEPT !.rest = rest], w), w, rest)
<1> DEFINE u == [s EXCEPT !.rest = rest]
           t == FirstVisit(u, w)
<1>1. /\ u \in States /\ u.indices = s.indices /\ u.low = s.low /\ u.idx = s.idx
      /\ u.tstack = s.tstack /\ u.call = s.call /\ u.rest = rest /\ u.sccs = s.sccs
  BY RestIs
<1> HIDE DEF u
<1>2. /\ t.indices = [u.indices EXCEPT ![w] = u.idx] /\ t.low = [u.low EXCEPT ![w] = u.idx]
      /\ t.idx = u.idx + 1 /\ t.rest = u.rest /\ t.sccs = u.sccs
      /\ t.tstack = Append(u.tstack, w) /\ t.call = Append(u.call, w)
  BY <1>1 DEF FirstVisit, States
<1>3. t = [field \in DOMAIN u |-> t[field]]
  BY <1>1 DEF FirstVisit, States
<1>4. /\ u.indices \in [Paths -> Nat] /\ u.low \in [Paths -> Nat] /\ u.idx \in Nat
      /\ u.tstack \in Seq(Paths) /\ u.call \in Seq(Paths)
      /\ u.rest \in [Paths -> SUBSET Paths] /\ u.sccs \in SUBSET SUBSET Paths
  BY <1>1 DEF States
<1> HIDE DEF t
<1>5. t.indices \in [Paths -> Nat] /\ t.low \in [Paths -> Nat] /\ t.idx \in Nat \ {0}
  BY <1>2, <1>4
<1>6. t.tstack \in Seq(Paths) /\ t.call \in Seq(Paths)
  BY <1>2, <1>4, Appended
<1>7. t \in States
  BY <1>1, <1>2, <1>3, <1>4, <1>5, <1>6, IsState
<1>8. Visits(s, t, w, rest)
  BY <1>1, <1>2, <1>7 DEF Visits
<1>9. QED
  BY <1>8 DEF t, u

\* Under a visit, the files of the work stack keep what is under them.
LEMMA VisitFacts ==
    ASSUME NEW adj, NEW edges, NEW s, SearchInv(adj, edges, s),
           NEW w \in Unvisited(s), NEW t, NEW rest, Visits(s, t, w, rest)
    PROVE  /\ w \in Paths /\ w \notin Visited(s) /\ w \notin OnStack(s) /\ w \notin Done(s)
           /\ Visited(t) = Visited(s) \cup {w} /\ Done(t) = Done(s)
           /\ OnStack(t) = OnStack(s) \cup {w} /\ OnCall(t) = OnCall(s) \cup {w}
           /\ t.indices[w] = s.idx /\ t.low[w] = s.idx
           /\ \A p \in Paths : p # w => t.indices[p] = s.indices[p] /\ t.low[p] = s.low[p]
           /\ \A p \in Visited(s) : t.indices[p] < s.idx
           /\ Len(t.call) = Len(s.call) + 1 /\ t.call[Len(s.call) + 1] = w
           /\ \A k \in 1 .. Len(s.call) : /\ t.call[k] = s.call[k]
                                          /\ s.call[k] \in OnStack(s) /\ s.call[k] # w
<1>1. /\ s.indices \in [Paths -> Nat] /\ s.low \in [Paths -> Nat] /\ s.idx \in Nat /\ s.idx # 0
      /\ s.tstack \in Seq(Paths) /\ s.call \in Seq(Paths) /\ OnCall(s) = {s.call[i] : i \in 1 .. Len(s.call)}
  BY SearchTypes
<1>2. w \in Paths /\ w \notin Visited(s)
  BY DEF Unvisited, Visited
<1>3. w \notin OnStack(s) /\ w \notin Done(s)
  BY <1>2 DEF SearchInv, NumberInv
<1>4. /\ t.indices[w] = s.idx /\ t.low[w] = s.idx
      /\ \A p \in Paths : p # w => t.indices[p] = s.indices[p] /\ t.low[p] = s.low[p]
  BY <1>1, <1>2 DEF Visits
<1>5. Visited(t) = Visited(s) \cup {w}
  BY <1>1, <1>2, <1>4 DEF Visited, UNSET
<1>6. Done(t) = Done(s)
  BY DEF Visits, Done
<1>7. OnStack(t) = OnStack(s) \cup {w}
  BY <1>1, <1>2, Appended DEF Visits, OnStack
<1>8. /\ OnCall(t) = OnCall(s) \cup {w}
      /\ Len(t.call) = Len(s.call) + 1 /\ t.call[Len(s.call) + 1] = w
      /\ \A k \in 1 .. Len(s.call) : t.call[k] = s.call[k]
  BY SMTT(40), <1>1, <1>2, Appended DEF Visits, OnCall
<1>9. \A p \in Visited(s) : t.indices[p] < s.idx
  BY <1>2, <1>4 DEF SearchInv, NumberInv, Visited
<1>10. \A k \in 1 .. Len(s.call) : s.call[k] \in OnStack(s) /\ s.call[k] # w
  BY <1>1, <1>3 DEF SearchInv, StackInv
<1>11. QED
  BY <1>2, <1>3, <1>4, <1>5, <1>6, <1>7, <1>8, <1>9, <1>10

LEMMA VisitUnder ==
    ASSUME NEW adj, NEW edges, NEW s, SearchInv(adj, edges, s),
           NEW w \in Unvisited(s), NEW t, NEW rest, Visits(s, t, w, rest)
    PROVE  /\ \A k \in 1 .. Len(s.call) : \A x : Under(t, k, x) <=> Under(s, k, x)
           /\ \A x : Under(t, Len(s.call) + 1, x) <=> x = w
<1>1. /\ Len(s.call) \in Nat /\ OnStack(s) \subseteq Visited(s) /\ Visited(s) \subseteq Paths
      /\ s.idx \in Nat /\ s.indices \in [Paths -> Nat]
  BY SearchTypes DEF SearchInv, NumberInv, Visited
<1>2. /\ w \notin OnStack(s) /\ OnStack(t) = OnStack(s) \cup {w} /\ t.indices[w] = s.idx
      /\ \A p \in OnStack(s) : t.indices[p] = s.indices[p] /\ t.indices[p] < s.idx
      /\ Len(t.call) = Len(s.call) + 1 /\ t.call[Len(s.call) + 1] = w
      /\ \A k \in 1 .. Len(s.call) : t.call[k] = s.call[k] /\ s.call[k] \in OnStack(s)
  BY <1>1, VisitFacts
<1>3. ASSUME NEW k \in 1 .. Len(s.call), NEW x PROVE Under(t, k, x) <=> Under(s, k, x)
  <2>1. k # Len(t.call) /\ k \in Nat /\ t.call[k] = s.call[k]
    BY <1>1, <1>2, <1>3
  <2>2. CASE k = Len(s.call)
    <3>1. t.call[k + 1] = w
      BY <1>2, <2>2
    <3>2. Under(t, k, x) <=> /\ x \in OnStack(t) /\ t.indices[s.call[k]] <= t.indices[x]
                             /\ t.indices[x] < s.idx
      BY <1>2, <2>1, <3>1 DEF Under
    <3>3. ~ (s.idx < s.idx)
      BY <1>1
    <3>4. QED
      BY <1>2, <1>3, <2>2, <3>2, <3>3 DEF Under
  <2>3. CASE k # Len(s.call)
    <3>1. k + 1 \in 1 .. Len(s.call)
      BY <1>1, <1>3, <2>3
    <3>2. t.call[k + 1] = s.call[k + 1] /\ s.call[k + 1] \in OnStack(s)
      BY <1>2, <3>1
    <3>3. ~ (s.idx < t.indices[s.call[k + 1]])
      <4>1. t.indices[s.call[k + 1]] < s.idx /\ t.indices[s.call[k + 1]] \in Nat
        BY <1>1, <1>2, <3>2
      <4>2. QED
        BY <1>1, <4>1
    <3>4. QED
      BY <1>2, <1>3, <2>1, <2>3, <3>2, <3>3 DEF Under
  <2>4. QED
    BY <2>2, <2>3
<1>4. ASSUME NEW x PROVE Under(t, Len(s.call) + 1, x) <=> x = w
  <2>1. Under(t, Len(s.call) + 1, x) <=> x \in OnStack(t) /\ s.idx <= t.indices[x]
    BY <1>2 DEF Under
  <2>2. \A p \in OnStack(s) : ~ (s.idx <= t.indices[p])
    <3>1. \A p \in OnStack(s) : t.indices[p] \in Nat
      BY <1>1, <1>2
    <3>2. QED
      BY <1>1, <1>2, <3>1
  <2>3. s.idx <= s.idx
    BY <1>1
  <2>4. QED
    BY <1>2, <2>1, <2>2, <2>3
<1>5. QED
  BY <1>3, <1>4

LEMMA VisitNumbers ==
    ASSUME NEW adj, NEW edges, NEW s, SearchInv(adj, edges, s),
           NEW w \in Unvisited(s), NEW t, NEW rest, Visits(s, t, w, rest)
    PROVE  NumberInv(t) /\ StackInv(t)
<1>0. /\ s.indices \in [Paths -> Nat] /\ s.idx \in Nat /\ s.tstack \in Seq(Paths)
      /\ OnStack(s) = {s.tstack[i] : i \in 1 .. Len(s.tstack)}
      /\ OnStack(s) \subseteq Visited(s) /\ Visited(s) \subseteq Paths
      /\ Len(s.call) \in Nat /\ Len(s.tstack) \in Nat /\ s.call \in Seq(Paths)
  BY SearchTypes DEF SearchInv, NumberInv, Visited
<1>1. /\ w \in Paths /\ w \notin Visited(s) /\ w \notin OnStack(s) /\ w \notin Done(s)
      /\ Visited(t) = Visited(s) \cup {w} /\ Done(t) = Done(s)
      /\ OnStack(t) = OnStack(s) \cup {w} /\ OnCall(t) = OnCall(s) \cup {w}
      /\ t.indices[w] = s.idx
      /\ \A p \in Paths : p # w => t.indices[p] = s.indices[p]
      /\ \A p \in Visited(s) : t.indices[p] < s.idx
      /\ Len(t.call) = Len(s.call) + 1 /\ t.call[Len(s.call) + 1] = w
      /\ \A k \in 1 .. Len(s.call) : t.call[k] = s.call[k] /\ s.call[k] \in OnStack(s) /\ s.call[k] # w
  BY VisitFacts
<1>2. NumberInv(t)
  <2>1. ASSUME NEW p \in Paths PROVE t.indices[p] < t.idx
    <3>1. t.idx = s.idx + 1 /\ s.indices[p] < s.idx /\ s.indices[p] \in Nat
      BY <1>0 DEF Visits, SearchInv, NumberInv
    <3>2. QED
      BY <1>0, <1>1, <3>1
  <2>2. ASSUME NEW p \in Visited(t), NEW q \in Visited(t), t.indices[p] = t.indices[q] PROVE p = q
    <3>1. \A x \in Visited(s) : t.indices[x] # s.idx /\ t.indices[x] = s.indices[x]
      BY <1>0, <1>1
    <3>2. QED
      BY <1>1, <2>2, <3>1 DEF SearchInv, NumberInv
  <2>3. Visited(t) = OnStack(t) \cup Done(t) /\ OnStack(t) \cap Done(t) = {}
    BY <1>1 DEF SearchInv, NumberInv
  <2>4. QED
    BY <2>1, <2>2, <2>3 DEF NumberInv
<1>3. /\ Len(t.tstack) = Len(s.tstack) + 1 /\ t.tstack[Len(s.tstack) + 1] = w
      /\ \A i \in 1 .. Len(s.tstack) : t.tstack[i] = s.tstack[i] /\ s.tstack[i] \in OnStack(s)
  BY <1>0, <1>1, Appended DEF Visits
<1>4. ASSUME NEW i \in 1 .. Len(t.tstack), NEW j \in 1 .. Len(t.tstack), i < j
      PROVE  t.indices[t.tstack[i]] < t.indices[t.tstack[j]]
  <2>1. i \in 1 .. Len(s.tstack)
    BY <1>0, <1>3, <1>4
  <2>2. CASE j = Len(s.tstack) + 1
    BY <1>0, <1>1, <1>3, <2>1, <2>2
  <2>3. CASE j # Len(s.tstack) + 1
    <3>1. j \in 1 .. Len(s.tstack)
      BY <1>0, <1>3, <2>3
    <3>2. s.indices[s.tstack[i]] < s.indices[s.tstack[j]]
      BY <1>4, <2>1, <3>1 DEF SearchInv, StackInv
    <3>3. s.tstack[i] # w /\ s.tstack[j] # w /\ s.tstack[i] \in Paths /\ s.tstack[j] \in Paths
      BY <1>0, <1>1, <2>1, <3>1
    <3>4. t.tstack[i] = s.tstack[i] /\ t.tstack[j] = s.tstack[j]
      BY <1>3, <2>1, <3>1
    <3>5. /\ t.indices[s.tstack[i]] = s.indices[s.tstack[i]]
          /\ t.indices[s.tstack[j]] = s.indices[s.tstack[j]]
      BY <1>1, <3>3
    <3>6. QED
      BY <3>2, <3>4, <3>5
  <2>4. QED
    BY <2>2, <2>3
<1>5. ASSUME NEW i \in 1 .. Len(t.call), NEW j \in 1 .. Len(t.call), i < j
      PROVE  t.indices[t.call[i]] < t.indices[t.call[j]]
  <2>1. i \in 1 .. Len(s.call)
    BY <1>0, <1>1, <1>5
  <2>2. CASE j = Len(s.call) + 1
    BY <1>0, <1>1, <2>1, <2>2
  <2>3. CASE j # Len(s.call) + 1
    <3>1. j \in 1 .. Len(s.call)
      BY <1>0, <1>1, <2>3
    <3>2. s.indices[s.call[i]] < s.indices[s.call[j]]
      BY <1>5, <2>1, <3>1 DEF SearchInv, StackInv
    <3>3. s.call[i] # w /\ s.call[j] # w /\ s.call[i] \in Paths /\ s.call[j] \in Paths
      BY <1>0, <1>1, <2>1, <3>1
    <3>4. QED
      BY <1>1, <2>1, <3>1, <3>2, <3>3
  <2>4. QED
    BY <2>2, <2>3
<1>6. OnCall(t) \subseteq OnStack(t)
  BY <1>1 DEF SearchInv, StackInv
<1>7. ASSUME NEW x \in OnStack(t) PROVE \E k \in 1 .. Len(t.call) : Under(t, k, x)
  <2>1. CASE x = w
    <3>1. \A y : Under(t, Len(s.call) + 1, y) <=> y = w
      BY VisitUnder
    <3>2. Len(s.call) + 1 \in 1 .. Len(t.call)
      BY <1>0, <1>1
    <3>3. QED
      BY <2>1, <3>1, <3>2
  <2>2. CASE x # w
    <3>1. PICK k \in 1 .. Len(s.call) : Under(s, k, x)
      BY <1>1, <1>7, <2>2 DEF SearchInv, StackInv
    <3>2. Under(t, k, x) /\ k \in 1 .. Len(t.call)
      BY <1>0, <1>1, <3>1, VisitUnder
    <3>3. QED
      BY <3>2
  <2>3. QED
    BY <2>1, <2>2
<1>8. StackInv(t)
  BY <1>4, <1>5, <1>6, <1>7 DEF StackInv
<1>9. QED
  BY <1>2, <1>8

\* What is visited is nobody's, or a child of the top of the work stack.
Called(s, w, rest) ==
    \/ s.call = <<>> /\ rest = s.rest
    \/ /\ s.call # <<>> /\ w \in s.rest[Last(s.call)]
       /\ rest = [s.rest EXCEPT ![Last(s.call)] = @ \ {w}]

LEMMA VisitKeeps ==
    ASSUME NEW edges \in SUBSET (Paths \X Paths), NEW adj, adj = Adjacency(edges),
           NEW s, SearchInv(adj, edges, s), NEW w \in Unvisited(s), NEW t,
           NEW rest, Visits(s, t, w, rest), Called(s, w, rest)
    PROVE  SearchInv(adj, edges, t)
<1>0. /\ s.indices \in [Paths -> Nat] /\ s.low \in [Paths -> Nat] /\ s.idx \in Nat
      /\ s.call \in Seq(Paths) /\ s.rest \in [Paths -> SUBSET Paths]
      /\ OnStack(s) \subseteq Visited(s) /\ Visited(s) \subseteq Paths /\ Done(s) \subseteq Paths
      /\ Len(s.call) \in Nat /\ OnCall(s) = {s.call[i] : i \in 1 .. Len(s.call)}
  BY SearchTypes DEF SearchInv, NumberInv, Visited
<1>1. /\ w \in Paths /\ w \notin Visited(s) /\ w \notin OnStack(s) /\ w \notin Done(s)
      /\ Visited(t) = Visited(s) \cup {w} /\ Done(t) = Done(s)
      /\ OnStack(t) = OnStack(s) \cup {w} /\ OnCall(t) = OnCall(s) \cup {w}
      /\ t.indices[w] = s.idx /\ t.low[w] = s.idx
      /\ \A p \in Paths : p # w => t.indices[p] = s.indices[p] /\ t.low[p] = s.low[p]
      /\ \A p \in Visited(s) : t.indices[p] < s.idx
      /\ Len(t.call) = Len(s.call) + 1 /\ t.call[Len(s.call) + 1] = w
      /\ \A k \in 1 .. Len(s.call) : t.call[k] = s.call[k] /\ s.call[k] \in OnStack(s) /\ s.call[k] # w
  BY VisitFacts
<1>2. /\ \A k \in 1 .. Len(s.call) : \A x : Under(t, k, x) <=> Under(s, k, x)
      /\ \A x : Under(t, Len(s.call) + 1, x) <=> x = w
  BY VisitUnder
<1>3. \A k \in 1 .. Len(t.call) : k = Len(s.call) + 1 \/ k \in 1 .. Len(s.call)
  BY <1>0, <1>1
<1>4. \A p \in Paths : \/ rest[p] = s.rest[p]
                       \/ /\ s.call # <<>> /\ p = Last(s.call) /\ w \in s.rest[p]
                          /\ rest[p] = s.rest[p] \ {w}
  BY <1>0 DEF Called
<1>5. t.rest = rest /\ t.sccs = s.sccs
  BY DEF Visits
<1>6. \A x \in Paths : \A y : y \in Looked(adj, t, x) => y \in Looked(adj, s, x) \/ y = w
  BY <1>4, <1>5 DEF Looked
<1>7. \A x \in Paths : \A y \in Looked(adj, t, x) : y = w => s.call # <<>> /\ x = Last(s.call)
  BY <1>0, <1>1, <1>4, <1>5 DEF Looked, SearchInv, RestInv
<1>8. s.call # <<>> => Last(s.call) = s.call[Len(s.call)] /\ Len(s.call) \in 1 .. Len(s.call)
  <2>1. ASSUME s.call # <<>> PROVE Len(s.call) \in 1 .. Len(s.call)
    BY <1>0, <2>1
  <2>2. QED
    BY <2>1 DEF Last
<1>9. RestInv(adj, t)
  <2>1. \A p \in Paths : t.rest[p] \subseteq adj[p]
    BY <1>4, <1>5 DEF SearchInv, RestInv
  <2>2. ASSUME NEW p \in Visited(t), t.rest[p] # {} PROVE p \in OnCall(t)
    <3>1. CASE p = w
      BY <1>1, <3>1
    <3>2. CASE p # w
      <4>1. p \in Visited(s) /\ s.rest[p] # {}
        BY <1>0, <1>1, <1>4, <1>5, <2>2, <3>2
      <4>2. QED
        BY <1>1, <4>1 DEF SearchInv, RestInv
    <3>3. QED
      BY <3>1, <3>2
  <2>3. ASSUME NEW p \in Paths PROVE Looked(adj, t, p) \subseteq Visited(t)
    BY <1>1, <1>6, <2>3 DEF SearchInv, RestInv
  <2>4. ASSUME NEW p \in Unvisited(t) PROVE Looked(adj, t, p) = {}
    <3>1. p \in Unvisited(s) /\ p \in Paths /\ p \notin Visited(s)
      BY <1>1, <2>4 DEF Unvisited, Visited
    <3>2. s.call # <<>> => p # Last(s.call)
      BY <1>0, <1>1, <1>8, <3>1
    <3>3. rest[p] = s.rest[p]
      BY <1>4, <3>1, <3>2
    <3>4. QED
      BY <1>5, <3>1, <3>3 DEF SearchInv, RestInv, Looked
  <2>5. QED
    BY <2>1, <2>2, <2>3, <2>4 DEF RestInv
<1>10. LowInv(adj, edges, t)
  <2>1. ASSUME NEW k \in 1 .. Len(t.call), NEW x \in OnStack(t), NEW y \in OnStack(t),
               Under(t, k, x), y \in Looked(adj, t, x)
        PROVE  t.low[t.call[k]] <= t.indices[y]
    <3>1. x \in Paths
      BY <1>0, <1>1, <2>1
    <3>2. CASE k = Len(s.call) + 1
      <4>1. x = w
        BY <1>2, <2>1, <3>2
      <4>2. Looked(adj, s, w) = {} /\ rest[w] = s.rest[w]
        <5>1. s.call # <<>> => w # Last(s.call)
          BY <1>0, <1>1, <1>8
        <5>2. QED
          BY <1>1, <1>4, <5>1 DEF SearchInv, RestInv
      <4>3. FALSE
        BY <1>5, <2>1, <4>1, <4>2 DEF Looked
      <4>4. QED
        BY <4>3
    <3>3. CASE k \in 1 .. Len(s.call)
      <4>1. Under(s, k, x) /\ t.call[k] = s.call[k] /\ t.low[s.call[k]] = s.low[s.call[k]]
        BY <1>0, <1>1, <1>2, <2>1, <3>3
      <4>2. x \in OnStack(s)
        BY <4>1 DEF Under
      <4>3. CASE y = w
        <5>1. s.low[s.call[k]] <= s.indices[s.call[k]] /\ s.call[k] \in Visited(s)
          BY <1>0, <1>1, <3>3 DEF SearchInv, LowInv
        <5>2. s.indices[s.call[k]] < s.idx
          BY <1>0, <1>1, <3>3, <5>1
        <5>3. s.low[s.call[k]] \in Nat /\ s.indices[s.call[k]] \in Nat
          BY <1>0, <5>1
        <5>4. QED
          BY SMTT(40), <1>0, <1>1, <4>1, <4>3, <5>1, <5>2, <5>3
      <4>4. CASE y # w
        <5>1. y \in OnStack(s) /\ y \in Looked(adj, s, x) /\ t.indices[y] = s.indices[y]
          BY <1>0, <1>1, <1>6, <2>1, <3>1, <4>4
        <5>2. s.low[s.call[k]] <= s.indices[y]
          BY <3>3, <4>1, <4>2, <5>1 DEF SearchInv, LowInv
        <5>3. QED
          BY <4>1, <5>1, <5>2
      <4>5. QED
        BY <4>3, <4>4
    <3>4. QED
      BY <1>3, <3>2, <3>3
  <2>2. ASSUME NEW k \in 1 .. Len(t.call)
        PROVE  /\ t.low[t.call[k]] <= t.indices[t.call[k]]
               /\ \E z \in OnStack(t) : t.indices[z] = t.low[t.call[k]] /\ Reaches(edges, t.call[k], z)
    <3>1. CASE k = Len(s.call) + 1
      <4>1. s.idx <= s.idx
        BY <1>0
      <4>2. Reaches(edges, w, w)
        BY ReachesSelf
      <4>3. QED
        BY <1>1, <3>1, <4>1, <4>2
    <3>2. CASE k \in 1 .. Len(s.call)
      <4>1. /\ t.call[k] = s.call[k] /\ t.low[s.call[k]] = s.low[s.call[k]]
            /\ t.indices[s.call[k]] = s.indices[s.call[k]]
        BY <1>0, <1>1, <3>2
      <4>2. PICK z \in OnStack(s) : s.indices[z] = s.low[s.call[k]] /\ Reaches(edges, s.call[k], z)
        BY <3>2 DEF SearchInv, LowInv
      <4>3. z \in OnStack(t) /\ t.indices[z] = s.indices[z]
        BY <1>0, <1>1, <4>2
      <4>4. s.low[s.call[k]] <= s.indices[s.call[k]]
        BY <3>2 DEF SearchInv, LowInv
      <4>5. QED
        BY <4>1, <4>2, <4>3, <4>4
    <3>3. QED
      BY <1>3, <3>1, <3>2
  <2>3. QED
    BY <2>1, <2>2 DEF LowInv
<1>11. ReachInv(edges, t)
  <2>1. ASSUME NEW k \in 1 .. Len(t.call), NEW x \in OnStack(t), t.indices[t.call[k]] <= t.indices[x]
        PROVE  Reaches(edges, t.call[k], x)
    <3>1. CASE k = Len(s.call) + 1
      <4>1. x = w
        <5>1. ASSUME x # w PROVE FALSE
          <6>1. t.indices[x] < s.idx /\ s.idx <= t.indices[x] /\ t.indices[x] \in Nat
            BY <1>0, <1>1, <2>1, <3>1, <5>1
          <6>2. QED
            BY <1>0, <6>1
        <5>2. QED
          BY <5>1
      <4>2. QED
        BY <1>1, <3>1, <4>1, ReachesSelf
    <3>2. CASE k \in 1 .. Len(s.call) /\ x = w
      <4>1. s.call # <<>>
        BY <1>0, <3>2
      <4> DEFINE v == Last(s.call)
      <4>2. v = s.call[Len(s.call)] /\ Len(s.call) \in 1 .. Len(s.call) /\ v \in OnStack(s)
        BY <1>1, <1>8, <4>1
      <4>3. s.indices[s.call[k]] <= s.indices[v]
        <5>1. CASE k = Len(s.call)
          <6>1. s.indices[v] <= s.indices[v]
            BY <1>0, <4>2
          <6>2. QED
            BY <4>2, <5>1, <6>1
        <5>2. CASE k # Len(s.call)
          <6>1. k < Len(s.call)
            BY <1>0, <3>2, <5>2
          <6>2. s.indices[s.call[k]] < s.indices[v]
            BY <3>2, <4>2, <6>1 DEF SearchInv, StackInv
          <6>3. s.indices[s.call[k]] \in Nat /\ s.indices[v] \in Nat
            BY <1>0, <1>1, <3>2, <4>2
          <6>4. QED
            BY <6>2, <6>3
        <5>3. QED
          BY <5>1, <5>2
      <4>4. Reaches(edges, s.call[k], v)
        BY <3>2, <4>2, <4>3 DEF SearchInv, ReachInv
      <4>5. <<v, w>> \in edges
        <5>1. w \in s.rest[v] /\ v \in Paths
          BY <1>0, <4>1, <4>2 DEF Called
        <5>2. w \in adj[v]
          BY <5>1 DEF SearchInv, RestInv
        <5>3. QED
          BY <5>1, <5>2 DEF Adjacency
      <4> HIDE DEF v
      <4>6. QED
        BY <1>1, <3>2, <4>4, <4>5, ReachesNext
    <3>3. CASE k \in 1 .. Len(s.call) /\ x # w
      <4>1. x \in OnStack(s) /\ t.call[k] = s.call[k] /\ t.indices[x] = s.indices[x]
            /\ t.indices[s.call[k]] = s.indices[s.call[k]]
        BY <1>0, <1>1, <3>3
      <4>2. QED
        BY <2>1, <3>3, <4>1 DEF SearchInv, ReachInv
    <3>4. QED
      BY <1>3, <3>1, <3>2, <3>3
  <2>2. ASSUME NEW k \in 1 .. Len(t.call), NEW x \in OnStack(t), Under(t, k, x)
        PROVE  Reaches(edges, x, t.call[k])
    <3>1. CASE k = Len(s.call) + 1
      <4>1. x = w /\ t.call[k] = w
        BY <1>1, <1>2, <2>2, <3>1
      <4>2. QED
        BY <4>1, ReachesSelf
    <3>2. CASE k \in 1 .. Len(s.call)
      <4>1. Under(s, k, x) /\ t.call[k] = s.call[k]
        BY <1>1, <1>2, <2>2, <3>2
      <4>2. x \in OnStack(s)
        BY <4>1 DEF Under
      <4>3. QED
        BY <3>2, <4>1, <4>2 DEF SearchInv, ReachInv
    <3>3. QED
      BY <1>3, <3>1, <3>2
  <2>3. QED
    BY <2>1, <2>2 DEF ReachInv
<1>12. DoneInv(adj, edges, t)
  BY <1>1, <1>5 DEF SearchInv, DoneInv
<1>13. NumberInv(t) /\ StackInv(t)
  BY VisitNumbers
<1>14. t \in States
  BY DEF Visits
<1>15. QED
  BY <1>9, <1>10, <1>11, <1>12, <1>13, <1>14 DEF SearchInv

\* Where the top of the work stack stands.
LEMMA TopIs ==
    ASSUME NEW adj, NEW edges, NEW s, SearchInv(adj, edges, s), s.call # <<>>
    PROVE  /\ Len(s.call) \in Nat /\ Len(s.call) \in 1 .. Len(s.call)
           /\ Last(s.call) = s.call[Len(s.call)]
           /\ Last(s.call) \in Paths /\ Last(s.call) \in OnStack(s) /\ Last(s.call) \in OnCall(s)
           /\ \A k \in 1 .. Len(s.call) : s.call[k] \in OnStack(s) /\ s.call[k] \in Paths
           /\ \A k \in 1 .. Len(s.call) - 1 : /\ s.indices[s.call[k]] < s.indices[Last(s.call)]
                                              /\ s.call[k] # Last(s.call)
           /\ \A x : Under(s, Len(s.call), x) <=>
                         x \in OnStack(s) /\ s.indices[Last(s.call)] <= s.indices[x]
           /\ \A k \in 1 .. Len(s.call) : Under(s, k, Last(s.call)) => k = Len(s.call)
<1> DEFINE m == Len(s.call)
           v == Last(s.call)
<1>1. /\ s.call \in Seq(Paths) /\ m \in Nat /\ s.indices \in [Paths -> Nat]
      /\ OnStack(s) \subseteq Paths /\ OnCall(s) = {s.call[i] : i \in 1 .. Len(s.call)}
  BY SMTT(30), SearchTypes
<1>2. m \in 1 .. m /\ v = s.call[m]
  <2>1. m # 0
    BY <1>1
  <2>2. m \in 1 .. m
    BY <1>1, <2>1
  <2>3. QED
    BY <2>2 DEF Last
<1>3. \A k \in 1 .. m : s.call[k] \in OnStack(s) /\ s.call[k] \in Paths
  BY <1>1 DEF SearchInv, StackInv
<1>4. v \in Paths /\ v \in OnStack(s) /\ v \in OnCall(s)
  BY <1>1, <1>2, <1>3
<1>5. \A k \in 1 .. m - 1 : s.indices[s.call[k]] < s.indices[v]
  <2> TAKE k \in 1 .. m - 1
  <2>1. k \in 1 .. m /\ k < m
    BY <1>1
  <2>2. QED
    BY <1>2, <2>1 DEF SearchInv, StackInv
<1>6. \A k \in 1 .. m - 1 : s.call[k] # v
  <2>1. ~ (s.indices[v] < s.indices[v])
    BY <1>1, <1>4
  <2>2. QED
    BY <1>5, <2>1
<1>7. \A x : Under(s, m, x) <=> x \in OnStack(s) /\ s.indices[v] <= s.indices[x]
  BY <1>2 DEF Under
<1>8. ASSUME NEW k \in 1 .. m, Under(s, k, v), k # m PROVE FALSE
  <2>1. s.indices[v] < s.indices[s.call[k + 1]]
    BY <1>8 DEF Under
  <2>2. k + 1 \in 1 .. m
    BY <1>1, <1>8
  <2>3. ~ (s.indices[v] < s.indices[v])
    BY <1>1, <1>4
  <2>4. k + 1 # m
    BY <1>2, <2>1, <2>3
  <2>5. k + 1 \in 1 .. m - 1
    BY <1>1, <2>2, <2>4
  <2>6. s.indices[s.call[k + 1]] < s.indices[v]
    BY <1>5, <2>5
  <2>7. s.indices[s.call[k + 1]] \in Nat /\ s.indices[v] \in Nat
    BY <1>1, <1>3, <1>4, <2>2
  <2>8. QED
    BY <2>1, <2>6, <2>7
<1>9. QED
  BY <1>1, <1>2, <1>3, <1>4, <1>5, <1>6, <1>7, <1>8

LEMMA LowerIs ==
    ASSUME NEW s \in States, NEW v \in Paths, NEW to \in Nat
    PROVE  LET t == Lower(s, v, to) IN
           /\ t \in States /\ t.indices = s.indices /\ t.idx = s.idx /\ t.tstack = s.tstack
           /\ t.call = s.call /\ t.rest = s.rest /\ t.sccs = s.sccs
           /\ \A p \in Paths : p # v => t.low[p] = s.low[p]
           /\ t.low[v] <= s.low[v] /\ t.low[v] <= to
           /\ t.low[v] = s.low[v] \/ t.low[v] = to
<1> DEFINE t == Lower(s, v, to)
           m == IF to < s.low[v] THEN to ELSE s.low[v]
<1>1. /\ t.indices = s.indices /\ t.idx = s.idx /\ t.tstack = s.tstack
      /\ t.call = s.call /\ t.rest = s.rest /\ t.sccs = s.sccs
      /\ t.low = [s.low EXCEPT ![v] = m]
  BY DEF Lower, States
<1>2. t = [field \in DOMAIN s |-> t[field]]
  BY DEF Lower, States
<1>3. /\ s.indices \in [Paths -> Nat] /\ s.low \in [Paths -> Nat] /\ s.idx \in Nat \ {0}
      /\ s.tstack \in Seq(Paths) /\ s.call \in Seq(Paths)
      /\ s.rest \in [Paths -> SUBSET Paths] /\ s.sccs \in SUBSET SUBSET Paths
  BY DEF States
<1> HIDE DEF t
<1>4. m \in Nat /\ m <= s.low[v] /\ m <= to /\ (m = s.low[v] \/ m = to)
  BY <1>3
<1> HIDE DEF m
<1>5. t.low \in [Paths -> Nat] /\ t.low[v] = m /\ \A p \in Paths : p # v => t.low[p] = s.low[p]
  BY <1>1, <1>3, <1>4
<1>6. t \in States
  BY <1>1, <1>2, <1>3, <1>5, IsState
<1>7. QED
  BY <1>1, <1>4, <1>5, <1>6 DEF t

\* What a look at a visited child w of v makes of a search.
Looks(s, t, v, w) ==
    /\ t \in States /\ t.indices = s.indices /\ t.idx = s.idx /\ t.tstack = s.tstack
    /\ t.call = s.call /\ t.sccs = s.sccs /\ t.rest = [s.rest EXCEPT ![v] = @ \ {w}]
    /\ \A p \in Paths : p # v => t.low[p] = s.low[p]
    /\ t.low[v] <= s.low[v] /\ (w \in OnStack(s) => t.low[v] <= s.indices[w])
    /\ t.low[v] = s.low[v] \/ (w \in OnStack(s) /\ t.low[v] = s.indices[w])

LEMMA LookIs ==
    ASSUME NEW s \in States, NEW v \in Paths, NEW w \in Paths
    PROVE  LET u == [s EXCEPT !.rest = [s.rest EXCEPT ![v] = @ \ {w}]]
           IN Looks(s, IF w \in OnStack(u) THEN Lower(u, v, u.indices[w]) ELSE u, v, w)
<1> DEFINE rest == [s.rest EXCEPT ![v] = @ \ {w}]
           u == [s EXCEPT !.rest = rest]
<1>1. s.rest \in [Paths -> SUBSET Paths] /\ s.indices \in [Paths -> Nat] /\ s.low \in [Paths -> Nat]
  BY DEF States
<1>2. rest \in [Paths -> SUBSET Paths]
  BY <1>1
<1> HIDE DEF rest
<1>3. /\ u \in States /\ u.indices = s.indices /\ u.low = s.low /\ u.idx = s.idx
      /\ u.tstack = s.tstack /\ u.call = s.call /\ u.rest = rest /\ u.sccs = s.sccs
  BY <1>2, RestIs
<1> HIDE DEF u
<1>4. OnStack(u) = OnStack(s)
  BY <1>3 DEF OnStack
<1>5. s.low[v] <= s.low[v]
  BY <1>1
<1>6. CASE w \notin OnStack(s)
  <2>1. Looks(s, u, v, w)
    BY <1>3, <1>5, <1>6 DEF Looks, rest
  <2>2. QED
    BY <1>4, <1>6, <2>1 DEF u, rest
<1>7. CASE w \in OnStack(s)
  <2> DEFINE t == Lower(u, v, u.indices[w])
  <2>1. u.indices[w] \in Nat
    BY <1>1, <1>3
  <2>2. /\ t \in States /\ t.indices = u.indices /\ t.idx = u.idx /\ t.tstack = u.tstack
        /\ t.call = u.call /\ t.rest = u.rest /\ t.sccs = u.sccs
        /\ \A p \in Paths : p # v => t.low[p] = u.low[p]
        /\ t.low[v] <= u.low[v] /\ t.low[v] <= u.indices[w]
        /\ t.low[v] = u.low[v] \/ t.low[v] = u.indices[w]
    BY <1>3, <2>1, LowerIs
  <2> HIDE DEF t
  <2>3. Looks(s, t, v, w)
    BY <1>3, <1>7, <2>2 DEF Looks, rest
  <2>4. QED
    BY <1>4, <1>7, <2>3 DEF t, u, rest
<1>8. QED
  BY <1>6, <1>7

LEMMA LookKeeps ==
    ASSUME NEW edges \in SUBSET (Paths \X Paths), NEW adj, adj = Adjacency(edges),
           NEW s, SearchInv(adj, edges, s), s.call # <<>>,
           NEW w \in s.rest[Last(s.call)], w \in Visited(s),
           NEW t, Looks(s, t, Last(s.call), w)
    PROVE  SearchInv(adj, edges, t)
<1> DEFINE v == Last(s.call)
           m == Len(s.call)
<1>0. /\ s.indices \in [Paths -> Nat] /\ s.low \in [Paths -> Nat]
      /\ s.rest \in [Paths -> SUBSET Paths] /\ OnStack(s) \subseteq Paths
      /\ m \in Nat /\ m \in 1 .. m /\ v = s.call[m] /\ v \in Paths /\ v \in OnStack(s) /\ v \in OnCall(s)
      /\ \A k \in 1 .. m : s.call[k] \in OnStack(s) /\ s.call[k] \in Paths
      /\ \A k \in 1 .. m - 1 : s.indices[s.call[k]] < s.indices[v] /\ s.call[k] # v
      /\ \A x : Under(s, m, x) <=> x \in OnStack(s) /\ s.indices[v] <= s.indices[x]
      /\ \A k \in 1 .. m : Under(s, k, v) => k = m
  BY SearchTypes, TopIs
<1>1. /\ t \in States /\ t.indices = s.indices /\ t.idx = s.idx /\ t.tstack = s.tstack
      /\ t.call = s.call /\ t.sccs = s.sccs /\ t.rest = [s.rest EXCEPT ![v] = @ \ {w}]
      /\ \A p \in Paths : p # v => t.low[p] = s.low[p]
      /\ t.low[v] <= s.low[v] /\ (w \in OnStack(s) => t.low[v] <= s.indices[w])
      /\ t.low[v] = s.low[v] \/ (w \in OnStack(s) /\ t.low[v] = s.indices[w])
  BY DEF Looks
<1>2. w \in Paths /\ w \in adj[v] /\ <<v, w>> \in edges
  <2>1. w \in Paths /\ w \in adj[v]
    BY <1>0 DEF SearchInv, RestInv
  <2>2. QED
    BY <1>0, <2>1 DEF Adjacency
<1> HIDE DEF v
<1>3. /\ Visited(t) = Visited(s) /\ Unvisited(t) = Unvisited(s) /\ OnStack(t) = OnStack(s)
      /\ OnCall(t) = OnCall(s) /\ Done(t) = Done(s)
  BY <1>1 DEF Visited, Unvisited, OnStack, OnCall, Done
<1>4. \A k, x : Under(t, k, x) <=> Under(s, k, x)
  BY <1>1, <1>3 DEF Under
<1>5. NumberInv(t)
  BY <1>1, <1>3 DEF SearchInv, NumberInv
<1>6. StackInv(t)
  BY <1>1, <1>3, <1>4 DEF SearchInv, StackInv
<1>7. \A p \in Paths : /\ t.rest[p] \subseteq s.rest[p] /\ (p # v => t.rest[p] = s.rest[p])
                       /\ (p = v => t.rest[p] = s.rest[p] \ {w})
  <2>1. s.rest \in [Paths -> SUBSET Paths] /\ v \in Paths
    BY <1>0
  <2>2. t.rest = [s.rest EXCEPT ![v] = @ \ {w}]
    BY <1>1
  <2>3. QED
    BY SMTT(30), <2>1, <2>2
<1>8. \A x \in Paths : \A y : y \in Looked(adj, t, x) => y \in Looked(adj, s, x) \/ (x = v /\ y = w)
  BY <1>7 DEF Looked
<1>9. RestInv(adj, t)
  <2>1. \A p \in Paths : t.rest[p] \subseteq adj[p]
    BY <1>7 DEF SearchInv, RestInv
  <2>2. \A p \in Visited(t) : t.rest[p] # {} => p \in OnCall(t)
    <3>1. \A p \in Visited(t) : t.rest[p] # {} => s.rest[p] # {}
      BY <1>7 DEF Visited
    <3>2. QED
      BY <1>3, <3>1 DEF SearchInv, RestInv
  <2>3. \A p \in Paths : Looked(adj, t, p) \subseteq Visited(t)
    BY <1>3, <1>8 DEF SearchInv, RestInv
  <2>4. \A p \in Unvisited(t) : Looked(adj, t, p) = {}
    <3>1. \A p \in Unvisited(t) : p \in Paths /\ p # v
      BY <1>0, <1>3 DEF SearchInv, NumberInv, Unvisited, Visited
    <3>2. QED
      BY <1>3, <1>7, <3>1 DEF SearchInv, RestInv, Looked
  <2>5. QED
    BY <2>1, <2>2, <2>3, <2>4 DEF RestInv
<1>10. t.low \in [Paths -> Nat]
  BY <1>1 DEF States
<1>11. ASSUME NEW k \in 1 .. m, NEW x \in OnStack(s), NEW y \in OnStack(s),
              Under(s, k, x), y \in Looked(adj, t, x)
       PROVE  t.low[s.call[k]] <= s.indices[y]
  <2>1. x \in Paths /\ y \in Paths /\ s.call[k] \in Paths
    BY <1>0
  <2>2. CASE y \in Looked(adj, s, x)
    <3>1. s.low[s.call[k]] <= s.indices[y]
      BY <1>11, <2>2 DEF SearchInv, LowInv
    <3>2. CASE s.call[k] # v
      BY <1>1, <2>1, <3>1, <3>2
    <3>3. CASE s.call[k] = v
      <4>1. t.low[v] <= s.low[v] /\ s.low[v] <= s.indices[y]
        BY <1>1, <3>1, <3>3
      <4>2. t.low[v] \in Nat /\ s.low[v] \in Nat /\ s.indices[y] \in Nat
        BY <1>0, <1>10, <2>1
      <4>3. QED
        BY <3>3, <4>1, <4>2
    <3>4. QED
      BY <3>2, <3>3
  <2>3. CASE x = v /\ y = w
    <3>1. k = m
      BY <1>0, <1>11, <2>3
    <3>2. QED
      BY <1>0, <1>1, <1>11, <2>3, <3>1
  <2>4. QED
    BY <1>8, <1>11, <2>1, <2>2, <2>3
<1>12. ASSUME NEW k \in 1 .. m
       PROVE  /\ t.low[s.call[k]] <= s.indices[s.call[k]]
              /\ \E z \in OnStack(s) : s.indices[z] = t.low[s.call[k]] /\ Reaches(edges, s.call[k], z)
  <2>1. s.low[s.call[k]] <= s.indices[s.call[k]] /\ s.call[k] \in Paths
    BY <1>0 DEF SearchInv, LowInv
  <2>2. PICK z \in OnStack(s) : s.indices[z] = s.low[s.call[k]] /\ Reaches(edges, s.call[k], z)
    BY DEF SearchInv, LowInv
  <2>3. CASE s.call[k] # v
    BY <1>1, <2>1, <2>2, <2>3
  <2>4. CASE s.call[k] = v
    <3>1. t.low[v] <= s.indices[v]
      <4>1. t.low[v] <= s.low[v] /\ s.low[v] <= s.indices[v]
        BY <1>1, <2>1, <2>4
      <4>2. t.low[v] \in Nat /\ s.low[v] \in Nat /\ s.indices[v] \in Nat
        BY <1>0, <1>10
      <4>3. QED
        BY <4>1, <4>2
    <3>2. CASE t.low[v] = s.low[v]
      BY <2>2, <2>4, <3>1, <3>2
    <3>3. CASE w \in OnStack(s) /\ t.low[v] = s.indices[w]
      <4>1. Reaches(edges, v, w)
        BY <1>2, ReachesSelf, ReachesNext
      <4>2. QED
        BY <2>4, <3>1, <3>3, <4>1
    <3>4. QED
      BY <1>1, <3>2, <3>3
  <2>5. QED
    BY <2>3, <2>4
<1>13. LowInv(adj, edges, t)
  BY <1>1, <1>3, <1>4, <1>11, <1>12 DEF LowInv
<1>14. ReachInv(edges, t)
  BY <1>1, <1>3, <1>4 DEF SearchInv, ReachInv
<1>15. DoneInv(adj, edges, t)
  BY <1>1, <1>3 DEF SearchInv, DoneInv
<1>16. QED
  BY <1>1, <1>5, <1>6, <1>9, <1>13, <1>14, <1>15 DEF SearchInv

LEMMA PoppedIs ==
    ASSUME NEW s \in States, NEW v \in OnStack(s)
    PROVE  LET u == Popped(s, v) IN
           /\ u \in States /\ u.indices = s.indices /\ u.low = s.low /\ u.idx = s.idx
           /\ u.call = s.call /\ u.rest = s.rest
           /\ s.low[v] # s.indices[v] => u.tstack = s.tstack /\ u.sccs = s.sccs
           /\ s.low[v] = s.indices[v] =>
                 \E n \in 1 .. Len(s.tstack) :
                    /\ s.tstack[n] = v /\ u.tstack = SubSeq(s.tstack, 1, n - 1)
                    /\ u.sccs = s.sccs \cup {{s.tstack[i] : i \in n .. Len(s.tstack)}}
<1> DEFINE u == Popped(s, v)
           n == CHOOSE n \in 1 .. Len(s.tstack) : s.tstack[n] = v
           left == SubSeq(s.tstack, 1, n - 1)
           sccs == s.sccs \cup {{s.tstack[i] : i \in n .. Len(s.tstack)}}
<1>1. /\ s.indices \in [Paths -> Nat] /\ s.low \in [Paths -> Nat] /\ s.idx \in Nat \ {0}
      /\ s.tstack \in Seq(Paths) /\ s.call \in Seq(Paths)
      /\ s.rest \in [Paths -> SUBSET Paths] /\ s.sccs \in SUBSET SUBSET Paths
  BY DEF States
<1>2. CASE s.low[v] # s.indices[v]
  BY <1>2 DEF Popped
<1>3. CASE s.low[v] = s.indices[v]
  <2>1. OnStack(s) = {s.tstack[i] : i \in 1 .. Len(s.tstack)} /\ Len(s.tstack) \in Nat
    <3>1. s.tstack \in Seq(Paths)
      BY <1>1
    <3>2. Range(s.tstack) = {s.tstack[i] : i \in 1 .. Len(s.tstack)}
      BY <3>1, InRange
    <3>3. QED
      BY <3>1, <3>2 DEF OnStack
  <2>2. n \in 1 .. Len(s.tstack) /\ s.tstack[n] = v
    BY <2>1
  <2>3. u = [s EXCEPT !.tstack = left, !.sccs = sccs]
    BY <1>3 DEF Popped
  <2> HIDE DEF u, n
  <2>4. n - 1 \in 0 .. Len(s.tstack) /\ n \in Nat
    BY <2>1, <2>2
  <2>5. left \in Seq(Paths)
    BY <1>1, <2>4, Shortened
  <2>6. \A i \in n .. Len(s.tstack) : s.tstack[i] \in Paths
    <3> TAKE i \in n .. Len(s.tstack)
    <3>1. i \in 1 .. Len(s.tstack)
      BY <2>1, <2>2
    <3>2. QED
      BY <1>1, <3>1
  <2>7. sccs \in SUBSET SUBSET Paths
    <3>1. {s.tstack[i] : i \in n .. Len(s.tstack)} \subseteq Paths
      BY <2>6
    <3>2. QED
      BY <1>1, <3>1
  <2> HIDE DEF left, sccs
  <2>8. /\ u.indices = s.indices /\ u.low = s.low /\ u.idx = s.idx /\ u.call = s.call
        /\ u.rest = s.rest /\ u.tstack = left /\ u.sccs = sccs
    BY <2>3 DEF States
  <2>9. u = [field \in DOMAIN s |-> u[field]]
    BY <2>3 DEF States
  <2>10. u \in States
    BY <1>1, <2>5, <2>7, <2>8, <2>9, IsState
  <2>11. /\ u.tstack = SubSeq(s.tstack, 1, n - 1)
         /\ u.sccs = s.sccs \cup {{s.tstack[i] : i \in n .. Len(s.tstack)}}
    BY <2>8 DEF left, sccs
  <2>12. QED
    BY <1>3, <2>2, <2>8, <2>10, <2>11 DEF u
<1>4. QED
  BY <1>2, <1>3

LEMMA CallIs ==
    ASSUME NEW s \in States, NEW call \in Seq(Paths)
    PROVE  LET u == [s EXCEPT !.call = call] IN
           /\ u \in States /\ u.indices = s.indices /\ u.low = s.low /\ u.idx = s.idx
           /\ u.tstack = s.tstack /\ u.call = call /\ u.rest = s.rest /\ u.sccs = s.sccs
<1> DEFINE u == [s EXCEPT !.call = call]
<1>1. /\ u.indices = s.indices /\ u.low = s.low /\ u.idx = s.idx
      /\ u.tstack = s.tstack /\ u.call = call /\ u.rest = s.rest /\ u.sccs = s.sccs
  BY DEF States
<1>2. u = [field \in DOMAIN s |-> u[field]]
  BY DEF States
<1>3. /\ s.indices \in [Paths -> Nat] /\ s.low \in [Paths -> Nat] /\ s.idx \in Nat \ {0}
      /\ s.tstack \in Seq(Paths) /\ s.rest \in [Paths -> SUBSET Paths]
      /\ s.sccs \in SUBSET SUBSET Paths
  BY DEF States
<1> HIDE DEF u
<1>4. u \in States
  BY <1>1, <1>2, <1>3, IsState
<1>5. QED
  BY <1>1, <1>4 DEF u

\* What leaving the top v of the work stack makes of a search: a root takes what
\* is on the stack from it on, and another lowers the file below it.
Leaves(s, t, v) ==
    /\ t \in States /\ t.indices = s.indices /\ t.idx = s.idx /\ t.rest = s.rest
    /\ t.call = Front(s.call)
    /\ t.call = <<>> => t.low = s.low
    /\ t.call # <<>> =>
          LET u == Last(t.call) IN
          /\ \A p \in Paths : p # u => t.low[p] = s.low[p]
          /\ t.low[u] <= s.low[u] /\ t.low[u] <= s.low[v]
          /\ t.low[u] = s.low[u] \/ t.low[u] = s.low[v]
    /\ s.low[v] # s.indices[v] => t.tstack = s.tstack /\ t.sccs = s.sccs
    /\ s.low[v] = s.indices[v] =>
          \E n \in 1 .. Len(s.tstack) :
             /\ s.tstack[n] = v /\ t.tstack = SubSeq(s.tstack, 1, n - 1)
             /\ t.sccs = s.sccs \cup {{s.tstack[i] : i \in n .. Len(s.tstack)}}

LEMMA LeaveIs ==
    ASSUME NEW s \in States, s.call # <<>>, NEW v \in OnStack(s)
    PROVE  Leaves(s, Leave(s, v), v)
<1> DEFINE u == Popped(s, v)
           w == [u EXCEPT !.call = Front(s.call)]
           x == [u EXCEPT !.call = Front(@)]
           t == Leave(s, v)
<1>1. /\ u \in States /\ u.indices = s.indices /\ u.low = s.low /\ u.idx = s.idx
      /\ u.call = s.call /\ u.rest = s.rest
      /\ s.low[v] # s.indices[v] => u.tstack = s.tstack /\ u.sccs = s.sccs
      /\ s.low[v] = s.indices[v] =>
            \E n \in 1 .. Len(s.tstack) :
               /\ s.tstack[n] = v /\ u.tstack = SubSeq(s.tstack, 1, n - 1)
               /\ u.sccs = s.sccs \cup {{s.tstack[i] : i \in n .. Len(s.tstack)}}
  BY PoppedIs
<1>2. s.low \in [Paths -> Nat] /\ s.call \in Seq(Paths) /\ v \in Paths
  <2>1. s.low \in [Paths -> Nat] /\ s.call \in Seq(Paths) /\ s.tstack \in Seq(Paths)
    BY DEF States
  <2>2. QED
    BY <2>1, InRange DEF OnStack
<1>3. Front(s.call) \in Seq(Paths)
  BY <1>2, Fronted
<1>4. t = IF x.call = <<>> THEN x ELSE Lower(x, Last(x.call), s.low[v])
  BY DEF Leave
<1> HIDE DEF u, t
<1>5. x = w
  BY <1>1
<1> HIDE DEF x
<1>6. /\ w \in States /\ w.indices = u.indices /\ w.low = u.low /\ w.idx = u.idx
      /\ w.tstack = u.tstack /\ w.call = Front(s.call) /\ w.rest = u.rest /\ w.sccs = u.sccs
  BY <1>1, <1>3, CallIs
<1> HIDE DEF w
<1>7. CASE w.call = <<>>
  BY <1>1, <1>4, <1>5, <1>6, <1>7 DEF Leaves, t
<1>8. CASE w.call # <<>>
  <2> DEFINE up == Last(w.call)
             low == s.low[v]
  <2>1. up \in Paths /\ low \in Nat
    BY <1>2, <1>3, <1>6, <1>8, Fronted
  <2> HIDE DEF up, low
  <2>2. t = Lower(w, up, low)
    BY <1>4, <1>5, <1>8 DEF up, low
  <2>3. /\ t \in States /\ t.indices = w.indices /\ t.idx = w.idx /\ t.tstack = w.tstack
        /\ t.call = w.call /\ t.rest = w.rest /\ t.sccs = w.sccs
        /\ \A p \in Paths : p # up => t.low[p] = w.low[p]
        /\ t.low[up] <= w.low[up] /\ t.low[up] <= low
        /\ t.low[up] = w.low[up] \/ t.low[up] = low
    <3>1. w \in States
      BY <1>6
    <3>2. LET y == Lower(w, up, low) IN
             /\ y \in States /\ y.indices = w.indices /\ y.idx = w.idx /\ y.tstack = w.tstack
             /\ y.call = w.call /\ y.rest = w.rest /\ y.sccs = w.sccs
             /\ \A p \in Paths : p # up => y.low[p] = w.low[p]
             /\ y.low[up] <= w.low[up] /\ y.low[up] <= low
             /\ y.low[up] = w.low[up] \/ y.low[up] = low
      BY <2>1, <3>1, LowerIs
    <3>3. QED
      BY SMTT(40), <2>2, <3>2
  <2>4. up = Last(t.call)
    BY <2>3 DEF up
  <2>5. Leaves(s, t, v)
    <3>1. /\ t \in States /\ t.indices = s.indices /\ t.idx = s.idx /\ t.rest = s.rest
          /\ t.call = Front(s.call) /\ t.call # <<>> /\ w.low = s.low
          /\ t.tstack = u.tstack /\ t.sccs = u.sccs
      BY <1>1, <1>6, <1>8, <2>3
    <3>2. /\ \A p \in Paths : p # up => t.low[p] = s.low[p]
          /\ t.low[up] <= s.low[up] /\ t.low[up] <= low
          /\ t.low[up] = s.low[up] \/ t.low[up] = low
      BY <2>3, <3>1
    <3>3. QED
      BY <1>1, <2>4, <3>1, <3>2 DEF Leaves, low
  <2>6. QED
    BY <2>5 DEF t
<1>9. QED
  BY <1>7, <1>8

\* What a root takes.
Tree(s) == {x \in OnStack(s) : s.indices[Last(s.call)] <= s.indices[x]}

LEMMA RootTakes ==
    ASSUME NEW adj, NEW edges, NEW s, SearchInv(adj, edges, s), s.call # <<>>,
           NEW t, Leaves(s, t, Last(s.call)), s.low[Last(s.call)] = s.indices[Last(s.call)]
    PROVE  /\ OnStack(t) = OnStack(s) \ Tree(s) /\ Done(t) = Done(s) \cup Tree(s)
           /\ t.sccs = s.sccs \cup {Tree(s)}
           /\ Len(t.tstack) \in Nat /\ Len(t.tstack) <= Len(s.tstack)
           /\ \A i \in 1 .. Len(t.tstack) : t.tstack[i] = s.tstack[i]
<1> DEFINE v == Last(s.call)
<1>1. /\ s.indices \in [Paths -> Nat] /\ s.tstack \in Seq(Paths) /\ Len(s.tstack) \in Nat
      /\ OnStack(s) = {s.tstack[i] : i \in 1 .. Len(s.tstack)} /\ OnStack(s) \subseteq Paths
      /\ v \in Paths /\ v \in OnStack(s)
  BY SearchTypes, TopIs
<1>2. PICK n \in 1 .. Len(s.tstack) :
         /\ s.tstack[n] = v /\ t.tstack = SubSeq(s.tstack, 1, n - 1)
         /\ t.sccs = s.sccs \cup {{s.tstack[i] : i \in n .. Len(s.tstack)}}
  BY DEF Leaves
<1> HIDE DEF v
<1>3. n \in Nat /\ n - 1 \in Nat /\ n - 1 \in 0 .. Len(s.tstack)
  BY <1>1, <1>2
<1>4. t.tstack \in Seq(Paths) /\ Len(t.tstack) = n - 1 /\ \A i \in 1 .. n - 1 : t.tstack[i] = s.tstack[i]
  BY <1>1, <1>2, <1>3, Shortened
<1>5. ASSUME NEW i \in 1 .. Len(s.tstack)
      PROVE  s.indices[v] <= s.indices[s.tstack[i]] <=> i \in n .. Len(s.tstack)
  <2>1. s.indices[s.tstack[i]] \in Nat /\ s.indices[v] \in Nat
    BY <1>1, <1>5
  <2>2. CASE i < n
    <3>1. s.indices[s.tstack[i]] < s.indices[v]
      BY <1>2, <1>5, <2>2 DEF SearchInv, StackInv
    <3>2. ~ (s.indices[v] <= s.indices[s.tstack[i]])
      BY <2>1, <3>1
    <3>3. i \notin n .. Len(s.tstack)
      BY <1>3, <2>2
    <3>4. QED
      BY <3>2, <3>3
  <2>3. CASE i = n
    <3>1. s.indices[v] <= s.indices[v]
      BY <2>1
    <3>2. QED
      BY <1>2, <1>5, <2>3, <3>1
  <2>4. CASE n < i
    <3>1. s.indices[v] < s.indices[s.tstack[i]]
      BY <1>2, <1>5, <2>4 DEF SearchInv, StackInv
    <3>2. s.indices[v] <= s.indices[s.tstack[i]]
      BY <2>1, <3>1
    <3>3. i \in n .. Len(s.tstack)
      BY <1>3, <1>5, <2>4
    <3>4. QED
      BY <3>2, <3>3
  <2>5. i < n \/ i = n \/ n < i
    BY <1>3, <1>5
  <2>6. QED
    BY <2>2, <2>3, <2>4, <2>5
<1>6. \A i \in n .. Len(s.tstack) : i \in 1 .. Len(s.tstack)
  BY <1>1, <1>3, <1>2
<1>7. Tree(s) = {s.tstack[i] : i \in n .. Len(s.tstack)}
  BY <1>1, <1>5, <1>6 DEF Tree, v
<1>8. OnStack(t) = {t.tstack[i] : i \in 1 .. n - 1}
  <2>1. Range(t.tstack) = {t.tstack[i] : i \in 1 .. Len(t.tstack)}
    BY <1>4, InRange
  <2>2. QED
    BY <1>4, <2>1 DEF OnStack
<1>9. \A i : i \in 1 .. n - 1 <=> i \in 1 .. Len(s.tstack) /\ i \notin n .. Len(s.tstack)
  BY <1>1, <1>3, <1>2
<1>10. OnStack(t) = OnStack(s) \ Tree(s)
  <2>1. OnStack(t) = {s.tstack[i] : i \in 1 .. n - 1}
    BY <1>4, <1>8
  <2>2. ASSUME NEW i \in 1 .. n - 1 PROVE s.tstack[i] \in OnStack(s) /\ s.tstack[i] \notin Tree(s)
    <3>1. i \in 1 .. Len(s.tstack) /\ i \notin n .. Len(s.tstack)
      BY <1>9
    <3>2. ~ (s.indices[v] <= s.indices[s.tstack[i]])
      BY <1>5, <3>1
    <3>3. QED
      BY <1>1, <3>1, <3>2 DEF Tree, v
  <2>3. ASSUME NEW x \in OnStack(s), x \notin Tree(s) PROVE x \in OnStack(t)
    <3>1. PICK i \in 1 .. Len(s.tstack) : x = s.tstack[i]
      BY <1>1
    <3>2. i \notin n .. Len(s.tstack)
      BY <1>7, <2>3, <3>1
    <3>3. QED
      BY <1>9, <2>1, <3>1, <3>2
  <2>4. QED
    BY <2>1, <2>2, <2>3
<1>11. t.sccs = s.sccs \cup {Tree(s)}
  BY <1>2, <1>7
<1>12. Done(t) = Done(s) \cup Tree(s)
  BY <1>11 DEF Done
<1>13. Len(t.tstack) \in Nat /\ Len(t.tstack) <= Len(s.tstack)
  BY <1>1, <1>3, <1>4
<1>14. QED
  BY <1>4, <1>10, <1>11, <1>12, <1>13

\* The work stack without its top.
LEMMA LeaveCall ==
    ASSUME NEW adj, NEW edges, NEW s, SearchInv(adj, edges, s), s.call # <<>>,
           NEW t, Leaves(s, t, Last(s.call))
    PROVE  /\ Len(t.call) = Len(s.call) - 1 /\ Len(t.call) \in Nat
           /\ \A k \in 1 .. Len(t.call) : t.call[k] = s.call[k] /\ k \in 1 .. Len(s.call)
           /\ OnCall(t) = OnCall(s) \ {Last(s.call)}
           /\ t.call # <<>> => /\ Len(t.call) \in 1 .. Len(t.call)
                               /\ Last(t.call) = s.call[Len(t.call)] /\ Last(t.call) \in Paths
           /\ Visited(t) = Visited(s) /\ Unvisited(t) = Unvisited(s)
           /\ \A p : Looked(adj, t, p) = Looked(adj, s, p)
<1> DEFINE m == Len(s.call)
<1>1. /\ s.call \in Seq(Paths) /\ m \in Nat /\ m \in 1 .. m /\ Last(s.call) = s.call[m]
      /\ OnCall(s) = {s.call[i] : i \in 1 .. m}
      /\ \A k \in 1 .. m - 1 : s.call[k] # Last(s.call)
  BY SearchTypes, TopIs
<1>2. t.call = Front(s.call)
  BY DEF Leaves
<1>3. /\ t.call \in Seq(Paths) /\ Len(t.call) = m - 1
      /\ \A i \in 1 .. m - 1 : t.call[i] = s.call[i]
  BY <1>1, <1>2, Fronted
<1> HIDE DEF m
<1>4. Len(t.call) \in Nat /\ \A k \in 1 .. m - 1 : k \in 1 .. m
  BY <1>1, <1>3
<1>5. OnCall(t) = {t.call[i] : i \in 1 .. m - 1}
  BY <1>3, InRange DEF OnCall
<1>6. \A k \in 1 .. m : k \in 1 .. m - 1 \/ k = m
  BY <1>1
<1>7. OnCall(t) = OnCall(s) \ {Last(s.call)}
  BY <1>1, <1>3, <1>4, <1>5, <1>6
<1>8. t.call # <<>> => /\ Len(t.call) \in 1 .. Len(t.call)
                       /\ Last(t.call) = s.call[Len(t.call)] /\ Last(t.call) \in Paths
  <2>1. ASSUME t.call # <<>> PROVE /\ Len(t.call) \in 1 .. Len(t.call)
                                   /\ Last(t.call) = t.call[Len(t.call)] /\ Last(t.call) \in Paths
    <3>1. Len(t.call) \in Nat \ {0} /\ Last(t.call) = t.call[Len(t.call)] /\ Last(t.call) \in Paths
      BY <1>3, <2>1, Fronted
    <3>2. QED
      BY <3>1
  <2>2. QED
    BY <1>3, <2>1
<1>9. Visited(t) = Visited(s) /\ Unvisited(t) = Unvisited(s) /\ \A p : Looked(adj, t, p) = Looked(adj, s, p)
  BY DEF Leaves, Visited, Unvisited, Looked
<1>10. QED
  BY <1>3, <1>4, <1>7, <1>8, <1>9 DEF m

\* What a root takes is a component: nothing in it leads back below the root.
LEMMA RootIsWhole ==
    ASSUME NEW edges \in SUBSET (Paths \X Paths), NEW adj, adj = Adjacency(edges),
           NEW s, SearchInv(adj, edges, s), s.call # <<>>, s.rest[Last(s.call)] = {},
           s.low[Last(s.call)] = s.indices[Last(s.call)]
    PROVE  /\ \A x \in Tree(s) : adj[x] \subseteq Done(s) \cup Tree(s)
           /\ \A x \in Tree(s), y \in Paths :
                 y \in Tree(s) <=> Reaches(edges, x, y) /\ Reaches(edges, y, x)
<1> DEFINE v == Last(s.call)
           m == Len(s.call)
<1>1. /\ s.indices \in [Paths -> Nat] /\ s.rest \in [Paths -> SUBSET Paths]
      /\ OnStack(s) \subseteq Paths /\ Done(s) \subseteq Paths /\ OnCall(s) = {s.call[i] : i \in 1 .. m}
      /\ m \in Nat /\ m \in 1 .. m /\ v = s.call[m] /\ v \in Paths /\ v \in OnStack(s)
      /\ \A k \in 1 .. m - 1 : s.indices[s.call[k]] < s.indices[v]
      /\ \A x : Under(s, m, x) <=> x \in OnStack(s) /\ s.indices[v] <= s.indices[x]
      /\ Tree(s) = {x \in OnStack(s) : s.indices[v] <= s.indices[x]}
      /\ OnStack(s) \cap Done(s) = {} /\ Visited(s) = OnStack(s) \cup Done(s)
      /\ s.low[v] = s.indices[v] /\ s.rest[v] = {}
  BY SMTT(40), SearchTypes, TopIs DEF Tree, SearchInv, NumberInv
<1>2. v \in Tree(s) /\ Tree(s) \subseteq OnStack(s)
  <2>1. s.indices[v] <= s.indices[v]
    BY <1>1
  <2>2. QED
    BY <1>1, <2>1
<1>3. ASSUME NEW x \in Tree(s) PROVE s.rest[x] = {}
  <2>1. CASE x \notin OnCall(s)
    BY <1>1, <1>3, <2>1 DEF SearchInv, RestInv
  <2>2. CASE x \in OnCall(s)
    <3>1. PICK k \in 1 .. m : x = s.call[k]
      BY <1>1, <2>2
    <3>2. k \notin 1 .. m - 1
      <4>1. ASSUME k \in 1 .. m - 1 PROVE FALSE
        <5>1. s.indices[x] < s.indices[v] /\ s.indices[v] <= s.indices[x]
          BY <1>1, <1>3, <3>1, <4>1
        <5>2. s.indices[x] \in Nat /\ s.indices[v] \in Nat
          BY <1>1, <1>3
        <5>3. QED
          BY <5>1, <5>2
      <4>2. QED
        BY <4>1
    <3>3. k = m
      BY <1>1, <3>1, <3>2
    <3>4. QED
      BY <1>1, <3>1, <3>3
  <2>3. QED
    BY <2>1, <2>2
<1>4. ASSUME NEW x \in Tree(s), NEW y \in adj[x] PROVE y \in Done(s) \cup Tree(s)
  <2>1. x \in Paths /\ Looked(adj, s, x) = adj[x]
    BY <1>1, <1>2, <1>3, <1>4 DEF Looked
  <2>2. y \in Looked(adj, s, x) /\ y \in OnStack(s) \cup Done(s)
    BY <1>1, <1>4, <2>1 DEF SearchInv, RestInv
  <2>3. CASE y \in OnStack(s)
    <3>1. Under(s, m, x) /\ x \in OnStack(s)
      BY <1>1, <1>4
    <3>2. s.low[v] <= s.indices[y]
      BY <1>1, <2>2, <2>3, <3>1 DEF SearchInv, LowInv
    <3>3. QED
      BY <1>1, <2>3, <3>2
  <2>4. QED
    BY <2>2, <2>3
<1>5. \A x \in Tree(s) : Reaches(edges, v, x) /\ Reaches(edges, x, v)
  <2> TAKE x \in Tree(s)
  <2>1. x \in OnStack(s) /\ s.indices[v] <= s.indices[x] /\ Under(s, m, x)
    BY <1>1
  <2>2. QED
    BY <1>1, <2>1 DEF SearchInv, ReachInv
<1>6. \A e \in edges : /\ e[1] \in Paths /\ e[2] \in Paths
                       /\ e[2] = e[1] \/ e[2] \in adj[e[1]]
  <2> TAKE e \in edges
  <2>1. e[1] \in Paths /\ e[2] \in Paths /\ e = <<e[1], e[2]>>
    OBVIOUS
  <2>2. QED
    BY <2>1 DEF Adjacency
<1>7. \A x \in Done(s) : adj[x] \subseteq Done(s)
  BY DEF SearchInv, DoneInv
<1>8. ASSUME NEW x \in Tree(s), NEW y \in Paths, Reaches(edges, x, y), Reaches(edges, y, x)
      PROVE  y \in Tree(s)
  <2> DEFINE within == Done(s) \cup Tree(s)
  <2>1. within \in SUBSET Paths /\ x \in within
    BY <1>1, <1>2
  <2>2. \A e \in edges : e[1] \in within => e[2] \in within
    BY <1>4, <1>6, <1>7
  <2> HIDE DEF within
  <2>3. y \in within
    BY <1>8, <2>1, <2>2, ReachesWithin
  <2>4. CASE y \in Done(s)
    <3>1. \A e \in edges : e[1] \in Done(s) => e[2] \in Done(s)
      BY <1>6, <1>7
    <3>2. x \in Done(s)
      <4>1. Done(s) \in SUBSET Paths
        BY <1>1
      <4>2. QED
        BY <1>8, <2>4, <3>1, <4>1, ReachesWithin
    <3>3. QED
      BY <1>1, <1>2, <3>2
  <2>5. QED
    BY <2>3, <2>4 DEF within
<1>9. ASSUME NEW x \in Tree(s), NEW y \in Tree(s) PROVE Reaches(edges, x, y)
  BY <1>5, ReachesTrans
<1>10. QED
  BY <1>4, <1>8, <1>9

LEMMA RootKeeps ==
    ASSUME NEW edges \in SUBSET (Paths \X Paths), NEW adj, adj = Adjacency(edges),
           NEW s, SearchInv(adj, edges, s), s.call # <<>>, s.rest[Last(s.call)] = {},
           NEW t, Leaves(s, t, Last(s.call)), s.low[Last(s.call)] = s.indices[Last(s.call)]
    PROVE  SearchInv(adj, edges, t)
<1> DEFINE v == Last(s.call)
           m == Len(s.call)
<1>0. /\ s.indices \in [Paths -> Nat] /\ s.low \in [Paths -> Nat]
      /\ OnStack(s) \subseteq Paths /\ Done(s) \subseteq Paths
      /\ m \in Nat /\ m \in 1 .. m /\ v = s.call[m] /\ v \in Paths /\ v \in OnStack(s)
      /\ \A k \in 1 .. m : s.call[k] \in OnStack(s) /\ s.call[k] \in Paths
      /\ \A k \in 1 .. m - 1 : s.indices[s.call[k]] < s.indices[v] /\ s.call[k] # v
      /\ \A x : Under(s, m, x) <=> x \in OnStack(s) /\ s.indices[v] <= s.indices[x]
      /\ Tree(s) = {x \in OnStack(s) : s.indices[v] <= s.indices[x]}
      /\ s.low[v] = s.indices[v] /\ s.rest[v] = {}
  BY SearchTypes, TopIs DEF Tree
<1>1. /\ t \in States /\ t.indices = s.indices /\ t.idx = s.idx /\ t.rest = s.rest
      /\ t.call = <<>> => t.low = s.low
      /\ t.call # <<>> =>
            /\ \A p \in Paths : p # Last(t.call) => t.low[p] = s.low[p]
            /\ t.low[Last(t.call)] <= s.low[Last(t.call)]
            /\ t.low[Last(t.call)] = s.low[Last(t.call)] \/ t.low[Last(t.call)] = s.low[v]
            /\ t.low[Last(t.call)] <= s.low[v]
  BY DEF Leaves
<1>2. /\ OnStack(t) = OnStack(s) \ Tree(s) /\ Done(t) = Done(s) \cup Tree(s)
      /\ t.sccs = s.sccs \cup {Tree(s)}
      /\ Len(t.tstack) \in Nat /\ Len(t.tstack) <= Len(s.tstack)
      /\ \A i \in 1 .. Len(t.tstack) : t.tstack[i] = s.tstack[i]
  BY RootTakes
<1>3. /\ Len(t.call) = m - 1 /\ Len(t.call) \in Nat
      /\ \A k \in 1 .. Len(t.call) : t.call[k] = s.call[k] /\ k \in 1 .. m
      /\ OnCall(t) = OnCall(s) \ {v}
      /\ t.call # <<>> => /\ Len(t.call) \in 1 .. Len(t.call)
                          /\ Last(t.call) = s.call[Len(t.call)] /\ Last(t.call) \in Paths
      /\ Visited(t) = Visited(s) /\ Unvisited(t) = Unvisited(s)
      /\ \A p : Looked(adj, t, p) = Looked(adj, s, p)
  BY LeaveCall
<1>4. /\ \A x \in Tree(s) : adj[x] \subseteq Done(s) \cup Tree(s)
      /\ \A x \in Tree(s), y \in Paths :
            y \in Tree(s) <=> Reaches(edges, x, y) /\ Reaches(edges, y, x)
  BY RootIsWhole
<1>5. Tree(s) \subseteq OnStack(s) /\ v \in Tree(s)
  <2>1. s.indices[v] <= s.indices[v]
    BY <1>0
  <2>2. QED
    BY <1>0, <2>1
<1> HIDE DEF v, m
<1>6. \A x \in OnStack(s) : x \in OnStack(t) <=> s.indices[x] < s.indices[v]
  <2> TAKE x \in OnStack(s)
  <2>1. s.indices[x] \in Nat /\ s.indices[v] \in Nat
    BY <1>0
  <2>2. x \in OnStack(t) <=> ~ (s.indices[v] <= s.indices[x])
    BY <1>0, <1>2
  <2>3. QED
    BY <2>1, <2>2
<1>7. t.low = s.low
  <2>1. CASE t.call = <<>>
    BY <1>1, <2>1
  <2>2. CASE t.call # <<>>
    <3> DEFINE u == Last(t.call)
    <3>1. u \in Paths /\ Len(t.call) \in 1 .. m - 1 /\ u = s.call[Len(t.call)] /\ Len(t.call) \in 1 .. m
      BY <1>3, <2>2
    <3>2. s.indices[u] < s.indices[v] /\ s.low[u] <= s.indices[u]
      BY <1>0, <3>1 DEF SearchInv, LowInv, m
    <3>3. t.low[u] = s.low[u] \/ t.low[u] = s.low[v]
      BY <1>1, <2>2
    <3>4. t.low[u] <= s.low[u]
      BY <1>1, <2>2
    <3>5. t.low \in [Paths -> Nat]
      BY <1>1 DEF States
    <3> HIDE DEF u
    <3>6. s.low[u] \in Nat /\ s.indices[u] \in Nat /\ s.indices[v] \in Nat /\ s.low[v] = s.indices[v]
      BY <1>0, <3>1
    <3>7. t.low[u] = s.low[u]
      <4>1. t.low[u] # s.low[v]
        BY <3>2, <3>4, <3>6
      <4>2. QED
        BY <3>3, <4>1
    <3>8. \A p \in Paths : t.low[p] = s.low[p]
      BY <1>1, <2>2, <3>7 DEF u
    <3>9. QED
      BY <1>0, <3>5, <3>8
  <2>3. QED
    BY <2>1, <2>2
<1>8. ASSUME NEW k \in 1 .. Len(t.call)
      PROVE  /\ k \in 1 .. m /\ k \in 1 .. m - 1 /\ k # m /\ t.call[k] = s.call[k]
             /\ s.call[k] \in OnStack(t)
             /\ \A x : Under(t, k, x) <=> Under(s, k, x)
  <2>1. k \in 1 .. m /\ k \in 1 .. m - 1 /\ k # m /\ t.call[k] = s.call[k] /\ k \in Nat
    BY <1>0, <1>3
  <2>2. s.call[k] \in OnStack(t)
    BY <1>0, <1>6, <2>1
  <2>3. CASE k = Len(t.call)
    <3>1. s.call[k + 1] = v
      <4>1. k + 1 = m
        BY <1>0, <1>3, <2>3
      <4>2. QED
        BY <1>0, <4>1
    <3>2. \A x : Under(s, k, x) <=> /\ x \in OnStack(s) /\ s.indices[s.call[k]] <= s.indices[x]
                                    /\ s.indices[x] < s.indices[v]
      BY <2>1, <3>1 DEF Under, m
    <3>3. \A x : Under(t, k, x) <=> x \in OnStack(t) /\ s.indices[s.call[k]] <= s.indices[x]
      BY <1>1, <2>1, <2>3 DEF Under
    <3>4. QED
      BY <1>2, <1>6, <2>1, <2>2, <3>2, <3>3
  <2>4. CASE k # Len(t.call)
    <3>1. k + 1 \in 1 .. Len(t.call) /\ k + 1 \in 1 .. m - 1
      BY <1>3, <1>8, <2>4
    <3>2. t.call[k + 1] = s.call[k + 1] /\ s.indices[s.call[k + 1]] < s.indices[v] /\ s.call[k + 1] \in Paths
      BY <1>0, <1>3, <3>1
    <3>3. \A x : Under(s, k, x) <=> /\ x \in OnStack(s) /\ s.indices[s.call[k]] <= s.indices[x]
                                    /\ s.indices[x] < s.indices[s.call[k + 1]]
      BY <2>1 DEF Under, m
    <3>4. \A x : Under(t, k, x) <=> /\ x \in OnStack(t) /\ s.indices[s.call[k]] <= s.indices[x]
                                    /\ s.indices[x] < s.indices[s.call[k + 1]]
      BY <1>1, <2>1, <2>4, <3>2 DEF Under
    <3>5. \A x \in OnStack(s) : s.indices[x] < s.indices[s.call[k + 1]] => s.indices[x] < s.indices[v]
      <4> TAKE x \in OnStack(s)
      <4>1. s.indices[x] \in Nat /\ s.indices[v] \in Nat /\ s.indices[s.call[k + 1]] \in Nat
        BY <1>0, <3>2
      <4>2. QED
        BY <3>2, <4>1
    <3>6. QED
      BY <1>2, <1>6, <2>1, <2>2, <3>3, <3>4, <3>5
  <2>5. QED
    BY <2>3, <2>4
<1>9. NumberInv(t)
  BY <1>1, <1>2, <1>3, <1>5 DEF SearchInv, NumberInv
<1>10. StackInv(t)
  <2>1. ASSUME NEW i \in 1 .. Len(t.tstack), NEW j \in 1 .. Len(t.tstack), i < j
        PROVE  t.indices[t.tstack[i]] < t.indices[t.tstack[j]]
    <3>1. i \in 1 .. Len(s.tstack) /\ j \in 1 .. Len(s.tstack)
      BY SMTT(40), <1>2, SearchTypes
    <3>2. QED
      BY <1>1, <1>2, <2>1, <3>1 DEF SearchInv, StackInv
  <2>2. ASSUME NEW i \in 1 .. Len(t.call), NEW j \in 1 .. Len(t.call), i < j
        PROVE  t.indices[t.call[i]] < t.indices[t.call[j]]
    BY <1>1, <1>3, <2>2 DEF SearchInv, StackInv, m
  <2>3. OnCall(t) \subseteq OnStack(t)
    <3>1. ASSUME NEW p \in OnCall(t) PROVE p \in OnStack(t)
      <4>1. p \in OnCall(s) /\ p # v /\ OnCall(s) = {s.call[i] : i \in 1 .. m}
        BY <1>3, <3>1, SearchTypes DEF m
      <4>2. PICK i \in 1 .. m : p = s.call[i]
        BY <4>1
      <4>3. i # m
        BY <1>0, <4>1, <4>2
      <4>4. i \in 1 .. Len(t.call)
        BY <1>0, <1>3, <4>2, <4>3
      <4>5. QED
        BY <1>8, <4>2, <4>4
    <3>2. QED
      BY <3>1
  <2>4. ASSUME NEW x \in OnStack(t) PROVE \E k \in 1 .. Len(t.call) : Under(t, k, x)
    <3>1. x \in OnStack(s) /\ x \notin Tree(s)
      BY <1>2, <2>4
    <3>2. PICK k \in 1 .. m : Under(s, k, x)
      BY <3>1 DEF SearchInv, StackInv, m
    <3>3. k # m
      BY <1>0, <3>1, <3>2
    <3>4. k \in 1 .. Len(t.call)
      BY <1>0, <1>3, <3>2, <3>3
    <3>5. QED
      BY <1>8, <3>2, <3>4
  <2>5. QED
    BY <2>1, <2>2, <2>3, <2>4 DEF StackInv
<1>11. RestInv(adj, t)
  <2>1. \A p \in Visited(t) : t.rest[p] # {} => p \in OnCall(t)
    BY <1>0, <1>1, <1>3 DEF SearchInv, RestInv
  <2>2. QED
    BY <1>1, <1>3, <2>1 DEF SearchInv, RestInv
<1>12. LowInv(adj, edges, t)
  <2>1. ASSUME NEW k \in 1 .. Len(t.call), NEW x \in OnStack(t), NEW y \in OnStack(t),
               Under(t, k, x), y \in Looked(adj, t, x)
        PROVE  t.low[t.call[k]] <= t.indices[y]
    <3>1. Under(s, k, x) /\ k \in 1 .. m /\ t.call[k] = s.call[k]
      BY <1>8, <2>1
    <3>2. x \in OnStack(s) /\ y \in OnStack(s) /\ y \in Looked(adj, s, x)
      BY <1>2, <1>3, <2>1
    <3>3. QED
      BY <1>1, <1>7, <3>1, <3>2 DEF SearchInv, LowInv, m
  <2>2. ASSUME NEW k \in 1 .. Len(t.call)
        PROVE  /\ t.low[t.call[k]] <= t.indices[t.call[k]]
               /\ \E z \in OnStack(t) : t.indices[z] = t.low[t.call[k]] /\ Reaches(edges, t.call[k], z)
    <3>1. k \in 1 .. m /\ t.call[k] = s.call[k] /\ s.call[k] \in OnStack(t) /\ s.call[k] \in Paths
      BY <1>0, <1>8
    <3>2. s.low[s.call[k]] <= s.indices[s.call[k]]
      BY <3>1 DEF SearchInv, LowInv, m
    <3>3. PICK z \in OnStack(s) : s.indices[z] = s.low[s.call[k]] /\ Reaches(edges, s.call[k], z)
      BY <3>1 DEF SearchInv, LowInv, m
    <3>4. s.indices[s.call[k]] < s.indices[v]
      BY <1>0, <1>2, <1>6, <3>1
    <3>5. s.indices[z] < s.indices[v]
      <4>1. s.indices[z] \in Nat /\ s.indices[v] \in Nat /\ s.indices[s.call[k]] \in Nat
        BY <1>0, <3>1
      <4>2. QED
        BY <3>2, <3>3, <3>4, <4>1
    <3>6. z \in OnStack(t)
      BY <1>6, <3>5
    <3>7. QED
      BY <1>1, <1>7, <3>1, <3>2, <3>3, <3>6
  <2>3. QED
    BY <2>1, <2>2 DEF LowInv
<1>13. ReachInv(edges, t)
  <2>1. ASSUME NEW k \in 1 .. Len(t.call), NEW x \in OnStack(t)
        PROVE  /\ t.indices[t.call[k]] <= t.indices[x] => Reaches(edges, t.call[k], x)
               /\ Under(t, k, x) => Reaches(edges, x, t.call[k])
    <3>1. k \in 1 .. m /\ t.call[k] = s.call[k] /\ x \in OnStack(s) /\ (Under(t, k, x) <=> Under(s, k, x))
      BY <1>2, <1>8
    <3>2. QED
      BY <1>1, <3>1 DEF SearchInv, ReachInv, m
  <2>2. QED
    BY <2>1 DEF ReachInv
<1>14. DoneInv(adj, edges, t)
  <2>1. \A x \in Done(t) : adj[x] \subseteq Done(t)
    BY <1>2, <1>4 DEF SearchInv, DoneInv
  <2>2. \A c \in t.sccs : \A x \in c, y \in Paths :
           y \in c <=> Reaches(edges, x, y) /\ Reaches(edges, y, x)
    BY <1>2, <1>4 DEF SearchInv, DoneInv
  <2>3. QED
    BY <2>1, <2>2 DEF DoneInv
<1>15. QED
  BY <1>1, <1>9, <1>10, <1>11, <1>12, <1>13, <1>14 DEF SearchInv

\* What is under a file that is no root is from then on under the file below it.
LEMMA BelowKeeps ==
    ASSUME NEW edges \in SUBSET (Paths \X Paths), NEW adj, adj = Adjacency(edges),
           NEW s, SearchInv(adj, edges, s), s.call # <<>>, s.rest[Last(s.call)] = {},
           NEW t, Leaves(s, t, Last(s.call)), s.low[Last(s.call)] # s.indices[Last(s.call)]
    PROVE  SearchInv(adj, edges, t)
<1> DEFINE v == Last(s.call)
           m == Len(s.call)
           u == Last(t.call)
<1>0. /\ s.indices \in [Paths -> Nat] /\ s.low \in [Paths -> Nat]
      /\ OnStack(s) \subseteq Paths /\ Done(s) \subseteq Paths
      /\ m \in Nat /\ m \in 1 .. m /\ v = s.call[m] /\ v \in Paths /\ v \in OnStack(s)
      /\ \A k \in 1 .. m : s.call[k] \in OnStack(s) /\ s.call[k] \in Paths
      /\ \A k \in 1 .. m - 1 : s.indices[s.call[k]] < s.indices[v] /\ s.call[k] # v
      /\ \A x : Under(s, m, x) <=> x \in OnStack(s) /\ s.indices[v] <= s.indices[x]
      /\ s.low[v] # s.indices[v] /\ s.rest[v] = {}
  BY SearchTypes, TopIs
<1>1. /\ t \in States /\ t.indices = s.indices /\ t.idx = s.idx /\ t.rest = s.rest
      /\ t.tstack = s.tstack /\ t.sccs = s.sccs
      /\ t.call # <<>> =>
            /\ \A p \in Paths : p # u => t.low[p] = s.low[p]
            /\ t.low[u] <= s.low[u] /\ t.low[u] <= s.low[v]
            /\ t.low[u] = s.low[u] \/ t.low[u] = s.low[v]
  BY DEF Leaves
<1>2. OnStack(t) = OnStack(s) /\ Done(t) = Done(s) /\ t.low \in [Paths -> Nat]
  BY <1>1 DEF OnStack, Done, States
<1>3. /\ Len(t.call) = m - 1 /\ Len(t.call) \in Nat
      /\ \A k \in 1 .. Len(t.call) : t.call[k] = s.call[k] /\ k \in 1 .. m
      /\ OnCall(t) = OnCall(s) \ {v}
      /\ t.call # <<>> => Len(t.call) \in 1 .. Len(t.call) /\ u = s.call[Len(t.call)] /\ u \in Paths
      /\ Visited(t) = Visited(s) /\ Unvisited(t) = Unvisited(s)
      /\ \A p : Looked(adj, t, p) = Looked(adj, s, p)
  BY LeaveCall
<1> HIDE DEF v, m, u
\* What v reaches below it on the stack.
<1>4. PICK z \in OnStack(s) : s.indices[z] = s.low[v] /\ Reaches(edges, v, z)
  BY <1>0 DEF SearchInv, LowInv, m
<1>5. s.indices[z] < s.indices[v] /\ s.low[v] \in Nat /\ s.low[v] <= s.indices[v]
  <2>1. s.low[v] <= s.indices[v]
    BY <1>0 DEF SearchInv, LowInv, m
  <2>2. s.low[v] \in Nat /\ s.indices[v] \in Nat
    BY <1>0
  <2>3. QED
    BY <1>0, <1>4, <2>1, <2>2
<1>6. PICK j \in 1 .. m : Under(s, j, z)
  BY <1>4 DEF SearchInv, StackInv, m
<1>7. j \in 1 .. m - 1
  <2>1. j # m
    <3>1. ASSUME j = m PROVE FALSE
      <4>1. s.indices[v] <= s.indices[z] /\ s.indices[v] \in Nat /\ s.indices[z] \in Nat
        BY <1>0, <1>4, <1>6, <3>1
      <4>2. QED
        BY <1>5, <4>1
    <3>2. QED
      BY <3>1
  <2>2. QED
    BY <1>0, <2>1
<1>8. t.call # <<>> /\ m - 1 \in 1 .. m - 1 /\ m - 1 \in 1 .. m /\ m - 1 # m /\ m - 1 + 1 = m
  <2>1. m - 1 \in 1 .. m - 1 /\ m - 1 \in 1 .. m /\ m - 1 # m /\ m - 1 + 1 = m
    BY <1>0, <1>7
  <2>2. ASSUME t.call = <<>> PROVE FALSE
    <3>1. Len(t.call) = 0
      BY <2>2
    <3>2. QED
      BY <1>3, <2>1, <3>1
  <2>3. QED
    BY <2>1, <2>2
<1>9. /\ u = s.call[m - 1] /\ u \in Paths /\ u \in OnStack(s) /\ u # v
      /\ s.indices[u] < s.indices[v] /\ t.call[m - 1] = u
  BY <1>0, <1>3, <1>8
<1>10. Reaches(edges, z, u)
  <2>1. Reaches(edges, z, s.call[j])
    BY <1>4, <1>6 DEF SearchInv, ReachInv, m
  <2>2. s.indices[s.call[j]] <= s.indices[u]
    <3>1. CASE j = m - 1
      <4>1. s.indices[u] <= s.indices[u]
        BY <1>0, <1>9
      <4>2. QED
        BY <1>9, <3>1, <4>1
    <3>2. CASE j # m - 1
      <4>1. j < m - 1
        BY <1>0, <1>7, <3>2
      <4>2. s.indices[s.call[j]] < s.indices[u]
        BY <1>8, <1>9, <4>1 DEF SearchInv, StackInv, m
      <4>3. s.indices[s.call[j]] \in Nat /\ s.indices[u] \in Nat
        BY <1>0, <1>9
      <4>4. QED
        BY <4>2, <4>3
    <3>3. QED
      BY <3>1, <3>2
  <2>3. Reaches(edges, s.call[j], u)
    BY <1>9, <2>2 DEF SearchInv, ReachInv, m
  <2>4. QED
    BY <2>1, <2>3, ReachesTrans
<1>11. Reaches(edges, u, v)
  <2>1. s.indices[u] <= s.indices[v]
    <3>1. s.indices[u] \in Nat /\ s.indices[v] \in Nat
      BY <1>0, <1>9
    <3>2. QED
      BY <1>9, <3>1
  <2>2. QED
    BY <1>0, <1>8, <1>9, <2>1 DEF SearchInv, ReachInv, m
<1>12. \A k \in 1 .. m - 1 : k # m - 1 =>
          \A x : Under(t, k, x) <=> Under(s, k, x)
  <2> TAKE k \in 1 .. m - 1
  <2>1. ASSUME k # m - 1, NEW x PROVE Under(t, k, x) <=> Under(s, k, x)
    <3>1. k + 1 \in 1 .. m - 1 /\ k # m
      BY <1>0, <2>1
    <3>2. t.call[k] = s.call[k] /\ t.call[k + 1] = s.call[k + 1] /\ k # Len(t.call)
      BY <1>3, <2>1, <3>1
    <3>3. QED
      BY <1>1, <1>2, <3>1, <3>2 DEF Under, m
  <2>2. QED
    BY <2>1
<1>13. \A x : Under(t, m - 1, x) <=> Under(s, m - 1, x) \/ Under(s, m, x)
  <2> TAKE x
  <2>1. Under(t, m - 1, x) <=> x \in OnStack(s) /\ s.indices[u] <= s.indices[x]
    BY <1>1, <1>2, <1>3, <1>9 DEF Under
  <2>2. Under(s, m - 1, x) <=> /\ x \in OnStack(s) /\ s.indices[u] <= s.indices[x]
                               /\ s.indices[x] < s.indices[v]
    <3>1. s.call[m - 1 + 1] = v
      BY <1>0, <1>8
    <3>2. QED
      BY <1>8, <1>9, <3>1 DEF Under, m
  <2>3. ASSUME x \in OnStack(s) PROVE /\ s.indices[x] < s.indices[v] \/ s.indices[v] <= s.indices[x]
                                      /\ s.indices[v] <= s.indices[x] => s.indices[u] <= s.indices[x]
    <3>1. s.indices[x] \in Nat /\ s.indices[v] \in Nat /\ s.indices[u] \in Nat
      BY <1>0, <1>9, <2>3
    <3>2. QED
      BY <1>9, <3>1
  <2>4. QED
    BY <1>0, <2>1, <2>2, <2>3
<1>14. NumberInv(t)
  BY <1>1, <1>2, <1>3 DEF SearchInv, NumberInv
<1>15. StackInv(t)
  <2>1. \A i, k \in 1 .. Len(t.call) : i < k => t.indices[t.call[i]] < t.indices[t.call[k]]
    BY <1>1, <1>3 DEF SearchInv, StackInv, m
  <2>2. OnCall(t) \subseteq OnStack(t)
    BY <1>2, <1>3 DEF SearchInv, StackInv
  <2>3. ASSUME NEW x \in OnStack(t) PROVE \E k \in 1 .. Len(t.call) : Under(t, k, x)
    <3>1. PICK k \in 1 .. m : Under(s, k, x)
      BY <1>2, <2>3 DEF SearchInv, StackInv, m
    <3>2. CASE k = m \/ k = m - 1
      <4>1. Under(t, m - 1, x)
        BY <1>13, <3>1, <3>2
      <4>2. QED
        BY <1>3, <1>8, <4>1
    <3>3. CASE k # m /\ k # m - 1
      <4>1. k \in 1 .. m - 1
        BY <1>0, <3>1, <3>3
      <4>2. Under(t, k, x)
        BY <1>12, <3>1, <3>3, <4>1
      <4>3. QED
        BY <1>3, <4>1, <4>2
    <3>4. QED
      BY <3>2, <3>3
  <2>4. \A i, k \in 1 .. Len(t.tstack) : i < k => t.indices[t.tstack[i]] < t.indices[t.tstack[k]]
    BY <1>1 DEF SearchInv, StackInv
  <2>5. QED
    BY <2>1, <2>2, <2>3, <2>4 DEF StackInv
<1>16. RestInv(adj, t)
  <2>1. \A p \in Visited(t) : t.rest[p] # {} => p \in OnCall(t)
    BY <1>0, <1>1, <1>3 DEF SearchInv, RestInv
  <2>2. QED
    BY <1>1, <1>3, <2>1 DEF SearchInv, RestInv
<1>17. \A k \in 1 .. m - 1 : k # m - 1 => s.call[k] # u
  <2> TAKE k \in 1 .. m - 1
  <2>1. ASSUME k # m - 1, s.call[k] = u PROVE FALSE
    <3>1. k < m - 1 /\ k \in 1 .. m
      BY <1>0, <2>1
    <3>2. s.indices[u] < s.indices[u]
      BY <1>8, <1>9, <2>1, <3>1 DEF SearchInv, StackInv, m
    <3>3. s.indices[u] \in Nat
      BY <1>0, <1>9
    <3>4. QED
      BY <3>2, <3>3
  <2>2. QED
    BY <2>1
<1>18. LowInv(adj, edges, t)
  <2>1. ASSUME NEW k \in 1 .. m - 1, k # m - 1
        PROVE  /\ t.call[k] = s.call[k] /\ s.call[k] \in Paths /\ k \in 1 .. m
               /\ t.low[s.call[k]] = s.low[s.call[k]]
    BY <1>0, <1>1, <1>3, <1>8, <1>17, <2>1
  <2>2. ASSUME NEW k \in 1 .. Len(t.call), NEW x \in OnStack(t), NEW y \in OnStack(t),
               Under(t, k, x), y \in Looked(adj, t, x)
        PROVE  t.low[t.call[k]] <= t.indices[y]
    <3>1. x \in OnStack(s) /\ y \in OnStack(s) /\ y \in Looked(adj, s, x) /\ y \in Paths /\ k \in 1 .. m - 1
      BY <1>0, <1>2, <1>3, <2>2
    <3>2. CASE k # m - 1
      <4>1. Under(s, k, x)
        BY <1>12, <2>2, <3>1, <3>2
      <4>2. s.low[s.call[k]] <= s.indices[y]
        BY <2>1, <3>1, <3>2, <4>1 DEF SearchInv, LowInv, m
      <4>3. QED
        BY <1>1, <2>1, <3>1, <3>2, <4>2
    <3>3. CASE k = m - 1
      <4>1. t.low[u] <= s.low[u] /\ t.low[u] <= s.low[v]
        BY <1>1, <1>8
      <4>2. s.low[u] <= s.indices[y] \/ s.low[v] <= s.indices[y]
        <5>1. CASE Under(s, m - 1, x)
          BY <1>8, <1>9, <3>1, <5>1 DEF SearchInv, LowInv, m
        <5>2. CASE Under(s, m, x)
          BY <1>0, <3>1, <5>2 DEF SearchInv, LowInv, m
        <5>3. QED
          BY <1>13, <2>2, <3>3, <5>1, <5>2
      <4>3. t.low[u] \in Nat /\ s.low[u] \in Nat /\ s.low[v] \in Nat /\ s.indices[y] \in Nat
        BY <1>0, <1>2, <1>9, <3>1
      <4>4. t.low[u] <= s.indices[y]
        BY <4>1, <4>2, <4>3
      <4>5. QED
        BY <1>1, <1>9, <3>3, <4>4
    <3>4. QED
      BY <3>2, <3>3
  <2>3. ASSUME NEW k \in 1 .. Len(t.call)
        PROVE  /\ t.low[t.call[k]] <= t.indices[t.call[k]]
               /\ \E y \in OnStack(t) : t.indices[y] = t.low[t.call[k]] /\ Reaches(edges, t.call[k], y)
    <3>1. k \in 1 .. m - 1
      BY <1>3
    <3>2. CASE k # m - 1
      <4>1. k \in 1 .. Len(s.call)
        BY <2>1, <3>1, <3>2 DEF m
      <4>2. /\ s.low[s.call[k]] <= s.indices[s.call[k]]
            /\ \E y \in OnStack(s) : s.indices[y] = s.low[s.call[k]] /\ Reaches(edges, s.call[k], y)
        BY <4>1 DEF SearchInv, LowInv
      <4>3. QED
        BY SMTT(40), <1>1, <1>2, <2>1, <3>1, <3>2, <4>2
    <3>3. CASE k = m - 1
      <4>1. /\ s.low[u] <= s.indices[u]
            /\ \E y \in OnStack(s) : s.indices[y] = s.low[u] /\ Reaches(edges, u, y)
        BY <1>8, <1>9 DEF SearchInv, LowInv, m
      <4>2. t.low[u] <= s.indices[u]
        <5>1. t.low[u] \in Nat /\ s.low[u] \in Nat /\ s.indices[u] \in Nat /\ t.low[u] <= s.low[u]
          BY <1>0, <1>1, <1>2, <1>8, <1>9
        <5>2. QED
          BY <4>1, <5>1
      <4>3. CASE t.low[u] = s.low[u]
        BY <1>1, <1>2, <1>9, <3>3, <4>1, <4>2, <4>3
      <4>4. CASE t.low[u] = s.low[v]
        <5>1. Reaches(edges, u, z)
          BY <1>4, <1>11, ReachesTrans
        <5>2. QED
          BY <1>1, <1>2, <1>4, <1>9, <3>3, <4>2, <4>4, <5>1
      <4>5. QED
        BY <1>1, <1>8, <4>3, <4>4
    <3>4. QED
      BY <3>2, <3>3
  <2>4. QED
    BY <2>2, <2>3 DEF LowInv
<1>19. ReachInv(edges, t)
  <2>1. ASSUME NEW k \in 1 .. Len(t.call), NEW x \in OnStack(t)
        PROVE  /\ t.indices[t.call[k]] <= t.indices[x] => Reaches(edges, t.call[k], x)
               /\ Under(t, k, x) => Reaches(edges, x, t.call[k])
    <3>1. k \in 1 .. m - 1 /\ k \in 1 .. m /\ t.call[k] = s.call[k] /\ x \in OnStack(s)
      BY <1>2, <1>3
    <3>2. t.indices[t.call[k]] <= t.indices[x] => Reaches(edges, t.call[k], x)
      BY <1>1, <3>1 DEF SearchInv, ReachInv, m
    <3>3. ASSUME Under(t, k, x) PROVE Reaches(edges, x, t.call[k])
      <4>1. CASE k # m - 1
        <5>1. Under(s, k, x)
          BY <1>12, <3>1, <3>3, <4>1
        <5>2. QED
          BY <3>1, <5>1 DEF SearchInv, ReachInv, m
      <4>2. CASE k = m - 1 /\ Under(s, m - 1, x)
        BY <3>1, <4>2 DEF SearchInv, ReachInv, m
      <4>3. CASE k = m - 1 /\ Under(s, m, x)
        <5>1. Reaches(edges, x, v)
          BY <1>0, <3>1, <4>3 DEF SearchInv, ReachInv, m
        <5>2. Reaches(edges, x, z)
          BY <1>4, <5>1, ReachesTrans
        <5>3. Reaches(edges, x, u)
          BY <1>10, <5>2, ReachesTrans
        <5>4. QED
          BY <1>9, <4>3, <5>3
      <4>4. QED
        BY <1>13, <3>3, <4>1, <4>2, <4>3
    <3>4. QED
      BY <3>2, <3>3
  <2>2. QED
    BY <2>1 DEF ReachInv
<1>20. DoneInv(adj, edges, t)
  BY <1>1, <1>2 DEF SearchInv, DoneInv
<1>21. QED
  BY <1>1, <1>14, <1>15, <1>16, <1>18, <1>19, <1>20 DEF SearchInv

\* A step of the search visits a file, looks at a visited child of the top of the
\* work stack, leaves it, or has nothing left to do.
LEMMA AdvanceIs ==
    ASSUME NEW adj, NEW edges, NEW s, SearchInv(adj, edges, s)
    PROVE  \/ \E w \in Unvisited(s) : \E rest : Visits(s, Advance(s), w, rest) /\ Called(s, w, rest)
           \/ /\ s.call # <<>>
              /\ \E w \in s.rest[Last(s.call)] :
                    w \in Visited(s) /\ Looks(s, Advance(s), Last(s.call), w)
           \/ s.call # <<>> /\ s.rest[Last(s.call)] = {} /\ Leaves(s, Advance(s), Last(s.call))
           \/ s.call = <<>> /\ Unvisited(s) = {} /\ Advance(s) = s
<1>1. s \in States /\ s.rest \in [Paths -> SUBSET Paths] /\ s.indices \in [Paths -> Nat]
  BY SearchTypes DEF SearchInv
<1>2. CASE s.call = <<>> /\ Unvisited(s) = {}
  BY <1>2 DEF Advance
<1>3. CASE s.call = <<>> /\ Unvisited(s) # {}
  <2> DEFINE w == CHOOSE w \in Unvisited(s) : TRUE
             u == [s EXCEPT !.rest = s.rest]
  <2>1. Advance(s) = FirstVisit(s, w)
    BY <1>3 DEF Advance
  <2>2. w \in Unvisited(s)
    BY <1>3
  <2> HIDE DEF w
  <2>3. w \in Paths
    BY <2>2 DEF Unvisited
  <2>4. u = s
    BY <1>1 DEF States
  <2>5. Visits(s, FirstVisit(u, w), w, s.rest)
    BY <1>1, <2>3, VisitIs
  <2> HIDE DEF u
  <2>6. Visits(s, Advance(s), w, s.rest)
    BY <2>1, <2>4, <2>5
  <2>7. Called(s, w, s.rest)
    BY <1>3 DEF Called
  <2>8. QED
    BY <2>2, <2>6, <2>7
<1>4. CASE s.call # <<>> /\ s.rest[Last(s.call)] = {}
  <2>1. Last(s.call) \in OnStack(s)
    BY <1>4, TopIs
  <2>2. Advance(s) = Leave(s, Last(s.call))
    BY <1>4 DEF Advance
  <2>3. QED
    BY <1>1, <1>4, <2>1, <2>2, LeaveIs
<1>5. CASE s.call # <<>> /\ s.rest[Last(s.call)] # {}
  <2> DEFINE v == Last(s.call)
             w == CHOOSE w \in s.rest[v] : TRUE
             rest == [s.rest EXCEPT ![v] = @ \ {w}]
             u == [s EXCEPT !.rest = rest]
             x == [s EXCEPT !.rest[v] = @ \ {w}]
  <2>1. Advance(s) = IF w \in Unvisited(s) THEN FirstVisit(x, w)
                     ELSE IF w \in OnStack(s) THEN Lower(x, v, s.indices[w]) ELSE x
    BY <1>5 DEF Advance, NextChild
  <2>2. w \in s.rest[v]
    BY <1>5
  <2> HIDE DEF w
  <2>3. x = u
    BY <1>1 DEF States
  <2> HIDE DEF x
  <2>4. v \in Paths
    BY <1>5, TopIs
  <2> HIDE DEF v
  <2>5. w \in Paths
    BY <1>1, <2>2, <2>4
  <2>6. rest \in [Paths -> SUBSET Paths]
    BY <1>1
  <2>7. u.tstack = s.tstack /\ u.indices = s.indices
    <3> HIDE DEF rest
    <3>1. QED
      BY <1>1, <2>6, RestIs
  <2>8. CASE w \in Unvisited(s)
    <3>1. Advance(s) = FirstVisit(u, w)
      <4> HIDE DEF u
      <4>1. QED
        BY <2>1, <2>3, <2>8
    <3>2. Visits(s, FirstVisit(u, w), w, rest)
      <4> HIDE DEF rest
      <4>1. QED
        BY <1>1, <2>5, <2>6, VisitIs
    <3> HIDE DEF u
    <3>3. Called(s, w, rest)
      BY <1>5, <2>2 DEF Called, v
    <3> HIDE DEF rest
    <3>4. QED
      BY <2>8, <3>1, <3>2, <3>3
  <2>9. CASE w \notin Unvisited(s)
    <3>1. Looks(s, IF w \in OnStack(u) THEN Lower(u, v, u.indices[w]) ELSE u, v, w)
      BY <1>1, <2>4, <2>5, LookIs
    <3> HIDE DEF u
    <3>2. OnStack(u) = OnStack(s)
      BY <2>7 DEF OnStack
    <3>3. Advance(s) = IF w \in OnStack(u) THEN Lower(u, v, u.indices[w]) ELSE u
      BY <2>1, <2>3, <2>7, <2>9, <3>2
    <3>4. w \in Visited(s)
      BY <2>5, <2>9 DEF Unvisited, Visited
    <3>5. QED
      BY <1>5, <2>2, <3>1, <3>3, <3>4 DEF v
  <2>10. QED
    BY <2>8, <2>9
<1>6. QED
  BY <1>2, <1>3, <1>4, <1>5

LEMMA AdvanceKeeps ==
    ASSUME NEW edges \in SUBSET (Paths \X Paths), NEW adj, adj = Adjacency(edges),
           NEW s, SearchInv(adj, edges, s)
    PROVE  SearchInv(adj, edges, Advance(s))
<1>1. ASSUME NEW w \in Unvisited(s), NEW rest, Visits(s, Advance(s), w, rest), Called(s, w, rest)
      PROVE  SearchInv(adj, edges, Advance(s))
  BY <1>1, VisitKeeps
<1>2. ASSUME s.call # <<>>, NEW w \in s.rest[Last(s.call)], w \in Visited(s),
             Looks(s, Advance(s), Last(s.call), w)
      PROVE  SearchInv(adj, edges, Advance(s))
  BY <1>2, LookKeeps
<1>3. ASSUME s.call # <<>>, s.rest[Last(s.call)] = {}, Leaves(s, Advance(s), Last(s.call))
      PROVE  SearchInv(adj, edges, Advance(s))
  <2>1. CASE s.low[Last(s.call)] = s.indices[Last(s.call)]
    BY <1>3, <2>1, RootKeeps
  <2>2. CASE s.low[Last(s.call)] # s.indices[Last(s.call)]
    BY <1>3, <2>2, BelowKeeps
  <2>3. QED
    BY <2>1, <2>2
<1>4. QED
  BY <1>1, <1>2, <1>3, AdvanceIs

LEMMA StartInv ==
    ASSUME NEW edges, NEW adj, adj = Adjacency(edges)
    PROVE  SearchInv(adj, edges, Start(adj))
<1> DEFINE s == Start(adj)
<1>1. adj \in [Paths -> SUBSET Paths]
  BY DEF Adjacency
<1>2. /\ s.indices = [p \in Paths |-> 0] /\ s.low = [p \in Paths |-> 0] /\ s.idx = 1
      /\ s.tstack = <<>> /\ s.call = <<>> /\ s.rest = adj /\ s.sccs = {}
  BY DEF Start, UNSET
<1>3. s \in States
  BY <1>1 DEF Start, States, UNSET
<1> HIDE DEF s
<1>4. Visited(s) = {} /\ Done(s) = {} /\ OnStack(s) = {} /\ OnCall(s) = {} /\ Len(s.call) = 0 /\ Len(s.tstack) = 0
  <2>1. Visited(s) = {} /\ Done(s) = {}
    BY <1>2 DEF Visited, UNSET, Done
  <2>2. Range(<<>>) = {}
    BY DEF Range
  <2>3. QED
    BY <1>2, <2>1, <2>2 DEF OnStack, OnCall
<1>5. NumberInv(s)
  BY <1>2, <1>4 DEF NumberInv
<1>6. StackInv(s)
  BY <1>4 DEF StackInv
<1>7. RestInv(adj, s)
  BY <1>2, <1>4 DEF RestInv, Looked
<1>8. LowInv(adj, edges, s) /\ ReachInv(edges, s)
  BY <1>4 DEF LowInv, ReachInv
<1>9. DoneInv(adj, edges, s)
  BY <1>2, <1>4 DEF DoneInv
<1>10. QED
  BY <1>3, <1>5, <1>6, <1>7, <1>8, <1>9 DEF SearchInv, s

-----------------------------------------------------------------------------
(* The search ends.                                                         *)

Pairs(rest) == {e \in Paths \X Paths : e[2] \in rest[e[1]]}
Left(s) == 2 * Cardinality(Unvisited(s)) + Cardinality(Pairs(s.rest)) + Len(s.call)

LEMMA PairsFinite == \A rest : IsFiniteSet(Pairs(rest)) /\ Cardinality(Pairs(rest)) \in Nat
<1>1. IsFiniteSet(Paths \X Paths)
  BY GraphAssumption, FS_Product
<1>2. \A rest : IsFiniteSet(Pairs(rest))
  BY <1>1, FS_Subset DEF Pairs
<1>3. QED
  BY <1>2, FS_CardinalityType

LEMMA LessRest ==
    ASSUME NEW rest \in [Paths -> SUBSET Paths], NEW v \in Paths, NEW w \in rest[v]
    PROVE  Cardinality(Pairs([rest EXCEPT ![v] = @ \ {w}])) = Cardinality(Pairs(rest)) - 1
<1> DEFINE less == [rest EXCEPT ![v] = @ \ {w}]
<1>1. w \in Paths
  OBVIOUS
<1>2. <<v, w>> \in Pairs(rest)
  BY <1>1 DEF Pairs
<1>3. Pairs(less) = Pairs(rest) \ {<<v, w>>}
  <2>1. ASSUME NEW e \in Paths \X Paths PROVE e[2] \in less[e[1]] <=> e[2] \in rest[e[1]] /\ e # <<v, w>>
    <3>1. e = <<e[1], e[2]>> /\ e[1] \in Paths
      OBVIOUS
    <3>2. e # <<v, w>> <=> e[1] # v \/ e[2] # w
      BY <3>1
    <3>3. CASE e[1] = v
      <4>1. less[e[1]] = rest[v] \ {w}
        BY <3>3
      <4>2. QED
        BY <3>2, <3>3, <4>1
    <3>4. CASE e[1] # v
      <4>1. less[e[1]] = rest[e[1]]
        BY <3>1, <3>4
      <4>2. QED
        BY <3>2, <3>4, <4>1
    <3>5. QED
      BY <3>3, <3>4
  <2> HIDE DEF less
  <2>2. QED
    BY <2>1 DEF Pairs
<1>4. IsFiniteSet(Pairs(rest))
  BY PairsFinite
<1> HIDE DEF less
<1>5. Cardinality(Pairs(rest) \ {<<v, w>>}) = Cardinality(Pairs(rest)) - 1
  BY <1>2, <1>4, FS_RemoveElement
<1>6. QED
  BY <1>3, <1>5 DEF less

LEMMA LessUnvisited ==
    ASSUME NEW adj, NEW edges, NEW s, SearchInv(adj, edges, s),
           NEW w \in Unvisited(s), NEW t, NEW rest, Visits(s, t, w, rest)
    PROVE  /\ Cardinality(Unvisited(t)) = Cardinality(Unvisited(s)) - 1
           /\ Cardinality(Unvisited(s)) \in Nat \ {0}
<1>1. Visited(t) = Visited(s) \cup {w}
  BY VisitFacts
<1>2. \A r : Unvisited(r) = Paths \ Visited(r)
  BY DEF Unvisited, Visited
<1>3. Unvisited(t) = Unvisited(s) \ {w}
  BY <1>1, <1>2
<1>4. IsFiniteSet(Unvisited(s))
  BY GraphAssumption, FS_Subset DEF Unvisited
<1>5. Cardinality(Unvisited(t)) = Cardinality(Unvisited(s)) - 1
  BY <1>3, <1>4, FS_RemoveElement
<1>6. Cardinality(Unvisited(s)) \in Nat /\ Cardinality(Unvisited(s)) # 0
  BY <1>4, FS_CardinalityType, FS_EmptySet
<1>7. QED
  BY <1>5, <1>6

LEMMA LeftIsNumber ==
    ASSUME NEW adj, NEW edges, NEW s, SearchInv(adj, edges, s)
    PROVE  /\ Left(s) \in Nat /\ Cardinality(Unvisited(s)) \in Nat
           /\ Left(s) = 0 => s.call = <<>> /\ Unvisited(s) = {}
<1>1. IsFiniteSet(Unvisited(s))
  BY GraphAssumption, FS_Subset DEF Unvisited
<1>2. /\ Cardinality(Unvisited(s)) \in Nat
      /\ Cardinality(Unvisited(s)) = 0 <=> Unvisited(s) = {}
  BY <1>1, FS_CardinalityType, FS_EmptySet
<1>3. Len(s.call) \in Nat /\ s.call \in Seq(Paths)
  BY SearchTypes
<1>4. Len(s.call) = 0 => s.call = <<>>
  BY <1>3
<1>5. Cardinality(Pairs(s.rest)) \in Nat
  BY PairsFinite
<1>6. Left(s) \in Nat /\ (Left(s) = 0 => Cardinality(Unvisited(s)) = 0 /\ Len(s.call) = 0)
  BY <1>2, <1>3, <1>5 DEF Left
<1>7. QED
  BY <1>2, <1>4, <1>6

LEMMA AdvanceLeft ==
    ASSUME NEW edges \in SUBSET (Paths \X Paths), NEW adj, adj = Adjacency(edges),
           NEW s, SearchInv(adj, edges, s)
    PROVE  \/ Left(Advance(s)) <= Left(s) - 1
           \/ s.call = <<>> /\ Unvisited(s) = {} /\ Advance(s) = s
<1> DEFINE t == Advance(s)
           a == Cardinality(Unvisited(s))
           b == Cardinality(Pairs(s.rest))
           c == Len(s.call)
<1>1. /\ a \in Nat /\ b \in Nat /\ c \in Nat /\ s.rest \in [Paths -> SUBSET Paths] /\ s.call \in Seq(Paths)
      /\ Left(s) = 2 * a + b + c
  BY LeftIsNumber, PairsFinite, SearchTypes DEF Left
<1> HIDE DEF t, a, b, c
<1>2. ASSUME NEW w \in Unvisited(s), NEW rest, Visits(s, t, w, rest), Called(s, w, rest)
      PROVE  Left(t) <= Left(s) - 1
  <2>1. Cardinality(Unvisited(t)) = a - 1 /\ a # 0
    BY <1>2, LessUnvisited DEF a
  <2>2. Len(t.call) = c + 1
    BY <1>2, VisitFacts DEF c
  <2>3. Cardinality(Pairs(t.rest)) = b \/ Cardinality(Pairs(t.rest)) = b - 1
    <3>1. t.rest = rest
      BY <1>2 DEF Visits
    <3>2. CASE rest = s.rest
      BY <3>1, <3>2 DEF b
    <3>3. CASE rest # s.rest
      <4>1. s.call # <<>> /\ w \in s.rest[Last(s.call)] /\ rest = [s.rest EXCEPT ![Last(s.call)] = @ \ {w}]
        BY <1>2, <3>3 DEF Called
      <4>2. Last(s.call) \in Paths
        BY <4>1, TopIs
      <4>3. Cardinality(Pairs(rest)) = Cardinality(Pairs(s.rest)) - 1
        BY <1>1, <4>1, <4>2, LessRest
      <4>4. QED
        BY <3>1, <4>3 DEF b
    <3>4. QED
      BY <3>2, <3>3
  <2>4. Left(t) = 2 * (a - 1) + b + (c + 1) \/ Left(t) = 2 * (a - 1) + (b - 1) + (c + 1)
    BY <2>1, <2>2, <2>3 DEF Left
  <2>5. QED
    BY <1>1, <2>4
<1>3. ASSUME s.call # <<>>, NEW w \in s.rest[Last(s.call)], Looks(s, t, Last(s.call), w)
      PROVE  Left(t) <= Left(s) - 1
  <2>1. Unvisited(t) = Unvisited(s) /\ t.call = s.call
    BY <1>3 DEF Looks, Unvisited
  <2>2. Last(s.call) \in Paths /\ t.rest = [s.rest EXCEPT ![Last(s.call)] = @ \ {w}]
    BY <1>3, TopIs DEF Looks
  <2>3. Cardinality(Pairs(t.rest)) = b - 1
    BY <1>1, <1>3, <2>2, LessRest DEF b
  <2>4. Left(t) = 2 * a + (b - 1) + c
    BY <2>1, <2>3 DEF Left, a, c
  <2>5. QED
    BY <1>1, <2>4
<1>4. ASSUME s.call # <<>>, Leaves(s, t, Last(s.call))
      PROVE  Left(t) <= Left(s) - 1
  <2>1. Unvisited(t) = Unvisited(s) /\ Len(t.call) = c - 1
    BY <1>4, LeaveCall DEF c
  <2>2. t.rest = s.rest
    BY <1>4 DEF Leaves
  <2>3. Left(t) = 2 * a + b + (c - 1)
    BY <2>1, <2>2 DEF Left, a, b
  <2>4. QED
    BY <1>1, <2>3
<1>5. QED
  BY <1>2, <1>3, <1>4, AdvanceIs DEF t

LEMMA LeastOf ==
    ASSUME NEW T \in SUBSET Nat, T # {}
    PROVE  \E n \in T : \A m \in T : n <= m
<1> DEFINE R == OpToRel(<, Nat)
<1>1. \E n \in T : \A m \in T : ~ (<<m, n>> \in R)
  <2>1. IsWellFoundedOn(R, Nat)
    BY NatLessThanWellFounded
  <2> HIDE DEF R
  <2>2. QED
    BY <2>1, WFMin
<1>2. \A m, n \in Nat : m < n => <<m, n>> \in R
  BY DEF OpToRel
<1> HIDE DEF R
<1>3. \A m, n \in T : m \in Nat /\ n \in Nat /\ (~ (m < n) => n <= m)
  OBVIOUS
<1>4. QED
  BY <1>1, <1>2, <1>3

Steps(adj) == 2 * Cardinality(Paths) + Cardinality({e \in Paths \X Paths : e[2] \in adj[e[1]]})

LEMMA SearchSteps ==
    ASSUME NEW adj, Steps(adj) \in Nat
    PROVE  \E g : /\ g[0] = Start(adj) /\ tarjan_scc(adj) = g[Steps(adj)].sccs
                  /\ \A n \in 1 .. Steps(adj) : g[n] = Advance(g[n - 1])
<1> DEFINE last == Steps(adj)
           Solves(g, k) == g[0] = Start(adj) /\ \A n \in 1 .. k : g[n] = Advance(g[n - 1])
           Bad == {k \in Nat : ~ \E g : Solves(g, k)}
<1>0. last \in Nat
  OBVIOUS
<1>1. Bad = {}
  <2> SUFFICES ASSUME Bad # {} PROVE FALSE
    OBVIOUS
  <2>1. PICK k \in Bad : \A j \in Bad : k <= j
    <3>1. Bad \in SUBSET Nat
      OBVIOUS
    <3> HIDE DEF Bad
    <3>2. QED
      BY <3>1, LeastOf
  <2>2. CASE k = 0
    <3>1. Solves([n \in {0} |-> Start(adj)], 0)
      OBVIOUS
    <3>2. QED
      BY <2>1, <2>2, <3>1
  <2>3. CASE k # 0
    <3>1. k - 1 \in Nat /\ ~ (k <= k - 1) /\ k \in Nat
      BY <2>1, <2>3
    <3>2. PICK g : Solves(g, k - 1)
      BY <2>1, <3>1
    <3> DEFINE f == [n \in 0 .. k |-> IF n = k THEN Advance(g[k - 1]) ELSE g[n]]
    <3>3. f[0] = Start(adj)
      BY <2>3, <3>1, <3>2
    <3>4. ASSUME NEW n \in 1 .. k PROVE f[n] = Advance(f[n - 1])
      <4>1. n - 1 \in 0 .. k /\ n - 1 # k /\ n \in 0 .. k
        BY <3>1, <3>4
      <4>2. f[n - 1] = g[n - 1]
        BY <4>1
      <4>3. CASE n = k
        BY <4>1, <4>2, <4>3
      <4>4. CASE n # k
        <5>1. n \in 1 .. (k - 1)
          BY <3>1, <4>4
        <5>2. g[n] = Advance(g[n - 1])
          BY <3>2, <3>4, <5>1
        <5>3. f[n] = g[n]
          BY <4>1, <4>4
        <5>4. QED
          BY <4>2, <5>2, <5>3
      <4>5. QED
        BY <4>3, <4>4
    <3>5. Solves(f, k)
      BY <3>3, <3>4
    <3>6. QED
      BY <2>1, <3>5
  <2>4. QED
    BY <2>2, <2>3
<1>2. PICK g : Solves(g, last)
  BY <1>0, <1>1
<1> DEFINE Body(r) == [n \in 0 .. last |-> IF n = 0 THEN Start(adj) ELSE Advance(r[n - 1])]
           f == [n \in 0 .. last |-> g[n]]
           search == CHOOSE r : r = Body(r)
<1>3. f = Body(f)
  <2>1. ASSUME NEW n \in 0 .. last PROVE f[n] = IF n = 0 THEN Start(adj) ELSE Advance(f[n - 1])
    <3>1. CASE n = 0
      BY <1>2, <3>1
    <3>2. CASE n # 0
      <4>1. n - 1 \in 0 .. last /\ n \in 1 .. last
        BY <1>0, <2>1, <3>2
      <4>2. g[n] = Advance(g[n - 1])
        BY <1>2, <4>1
      <4>3. f[n] = g[n] /\ f[n - 1] = g[n - 1]
        BY <2>1, <4>1
      <4> HIDE DEF f
      <4>4. QED
        BY <3>2, <4>2, <4>3
    <3>3. QED
      BY <3>1, <3>2
  <2> HIDE DEF last
  <2>2. QED
    BY <2>1
<1>4. search = Body(search)
  <2> HIDE DEF Body, f
  <2>1. QED
    BY <1>3
<1>5. tarjan_scc(adj) = search[last].sccs
  BY DEF tarjan_scc, Steps
<1> HIDE DEF search
<1>6. search[0] = Start(adj)
  <2>1. 0 \in 0 .. last
    BY <1>0
  <2> HIDE DEF last
  <2>2. QED
    BY <1>4, <2>1
<1>7. ASSUME NEW n \in 1 .. last PROVE search[n] = Advance(search[n - 1])
  <2>1. n \in 0 .. last /\ n # 0
    BY <1>0, <1>7
  <2> HIDE DEF last
  <2>2. QED
    BY <1>4, <2>1
<1>8. QED
  BY <1>5, <1>6, <1>7

\* After the last step no file is left, and the components are those of files
\* that lead to each other.
LEMMA ComponentsFound ==
    ASSUME NEW edges \in SUBSET (Paths \X Paths)
    PROVE  LET sccs == tarjan_scc(Adjacency(edges)) IN
           /\ sccs \in SUBSET SUBSET Paths /\ UNION sccs = Paths
           /\ \A c \in sccs : \A x \in c, y \in Paths :
                 y \in c <=> Reaches(edges, x, y) /\ Reaches(edges, y, x)
<1> DEFINE adj == Adjacency(edges)
           last == Steps(adj)
<1>1. last \in Nat /\ Left(Start(adj)) = last
  <2>1. Unvisited(Start(adj)) = Paths
    BY DEF Unvisited, Start, UNSET
  <2>2. Start(adj).rest = adj /\ Start(adj).call = <<>> /\ Len(<<>>) = 0
    BY DEF Start
  <2>3. Cardinality(Paths) \in Nat /\ Cardinality(Pairs(adj)) \in Nat
    BY GraphAssumption, FS_CardinalityType, PairsFinite
  <2> HIDE DEF adj
  <2>4. Left(Start(adj)) = 2 * Cardinality(Paths) + Cardinality(Pairs(adj)) + 0
    BY <2>1, <2>2 DEF Left
  <2>5. Steps(adj) = 2 * Cardinality(Paths) + Cardinality(Pairs(adj))
    BY DEF Steps, Pairs
  <2>6. QED
    BY <2>3, <2>4, <2>5
<1>2. PICK g : /\ g[0] = Start(adj) /\ tarjan_scc(adj) = g[last].sccs
               /\ \A n \in 1 .. last : g[n] = Advance(g[n - 1])
  <2>1. Steps(adj) \in Nat
    BY <1>1
  <2> HIDE DEF adj
  <2>2. QED
    BY <2>1, SearchSteps
<1> DEFINE Ends(s) == s.call = <<>> /\ Unvisited(s) = {} /\ Advance(s) = s
           Good(n) == SearchInv(adj, edges, g[n]) /\ (Left(g[n]) <= last - n \/ Ends(g[n]))
           Bad == {n \in 0 .. last : ~Good(n)}
<1>3. Good(0)
  <2>1. SearchInv(adj, edges, g[0])
    BY <1>2, StartInv
  <2> HIDE DEF adj, last
  <2>2. Left(g[0]) <= last - 0
    BY <1>1, <1>2
  <2>3. QED
    BY <2>1, <2>2
<1>4. ASSUME NEW n \in 1 .. last, Good(n - 1) PROVE Good(n)
  <2>1. n - 1 \in Nat /\ n \in Nat
    BY <1>1
  <2>2. g[n] = Advance(g[n - 1]) /\ SearchInv(adj, edges, g[n - 1])
    BY <1>2, <1>4
  <2>3. SearchInv(adj, edges, g[n])
    BY <2>2, AdvanceKeeps
  <2>4. Left(g[n]) \in Nat /\ Left(g[n - 1]) \in Nat
    BY <2>2, <2>3, LeftIsNumber
  <2>5. CASE Ends(g[n - 1])
    BY <2>2, <2>3, <2>5
  <2>6. CASE ~Ends(g[n - 1])
    <3>1. Left(g[n - 1]) <= last - (n - 1)
      BY <1>4, <2>6
    <3>2. Left(g[n]) <= Left(g[n - 1]) - 1
      BY <2>2, <2>6, AdvanceLeft
    <3> HIDE DEF last, adj
    <3>3. Left(g[n]) <= last - n
      BY <1>1, <2>1, <2>4, <3>1, <3>2
    <3>4. QED
      BY <2>3, <3>3
  <2>7. QED
    BY <2>5, <2>6
<1> HIDE DEF Good
<1>5. Bad = {}
  <2> SUFFICES ASSUME Bad # {} PROVE FALSE
    OBVIOUS
  <2>1. PICK k \in Bad : \A j \in Bad : k <= j
    <3>1. Bad \in SUBSET Nat
      OBVIOUS
    <3> HIDE DEF Bad
    <3>2. QED
      BY <3>1, LeastOf
  <2> HIDE DEF last
  <2>2. k # 0
    BY <1>3, <2>1
  <2>3. k \in 1 .. last /\ k - 1 \in 0 .. last /\ ~ (k <= k - 1)
    BY <1>1, <2>1, <2>2
  <2>4. Good(k - 1)
    BY <2>1, <2>3
  <2>5. QED
    BY <1>4, <2>1, <2>3, <2>4
<1>6. Good(last)
  <2> HIDE DEF last
  <2>1. QED
    BY <1>1, <1>5
<1> DEFINE s == g[last]
<1>7. SearchInv(adj, edges, s) /\ s.call = <<>> /\ Unvisited(s) = {}
  <2>1. SearchInv(adj, edges, s) /\ (Left(s) <= last - last \/ Ends(s))
    BY <1>6 DEF Good
  <2>2. CASE Ends(s)
    BY <2>1, <2>2
  <2>3. CASE Left(s) <= last - last
    <3>1. Left(s) \in Nat
      BY <2>1, LeftIsNumber
    <3>2. Left(s) = 0
      <4> HIDE DEF s, last
      <4>1. QED
        BY <1>1, <2>3, <3>1
    <3>3. QED
      BY <2>1, <3>2, LeftIsNumber
  <2>4. QED
    BY <2>1, <2>2, <2>3
<1>8. tarjan_scc(adj) = s.sccs
  BY <1>2
<1> HIDE DEF s
<1>9. OnStack(s) = {}
  <2>1. Len(s.call) = 0
    BY <1>7
  <2>2. \A x \in OnStack(s) : \E k \in 1 .. Len(s.call) : Under(s, k, x)
    BY <1>7 DEF SearchInv, StackInv
  <2>3. QED
    BY <2>1, <2>2
<1>10. Done(s) = Paths
  <2>1. Visited(s) = Paths
    BY <1>7 DEF Visited, Unvisited
  <2>2. QED
    BY <1>7, <1>9, <2>1 DEF SearchInv, NumberInv
<1>11. s.sccs \in SUBSET SUBSET Paths
  BY <1>7, SearchTypes
<1>12. \A c \in s.sccs : \A x \in c, y \in Paths :
          y \in c <=> Reaches(edges, x, y) /\ Reaches(edges, y, x)
  BY <1>7 DEF SearchInv, DoneInv
<1>13. QED
  BY <1>8, <1>10, <1>11, <1>12 DEF Done

\* The files of a cycle, of every import graph (tarjan_scc, cyclic_paths).
THEOREM CyclesFound ==
    ASSUME NEW edges \in SUBSET (Paths \X Paths)
    PROVE  cyclic_paths(edges) =
              {p \in Paths : \E q \in Paths \ {p} : Reaches(edges, p, q) /\ Reaches(edges, q, p)}
<1> DEFINE sccs == tarjan_scc(Adjacency(edges))
<1>1. /\ sccs \in SUBSET SUBSET Paths /\ UNION sccs = Paths
      /\ \A c \in sccs : \A x \in c, y \in Paths :
            y \in c <=> Reaches(edges, x, y) /\ Reaches(edges, y, x)
  BY ComponentsFound
<1>2. cyclic_paths(edges) = UNION {c \in sccs : Cardinality(c) >= 2}
  BY DEF cyclic_paths
<1> HIDE DEF sccs
<1>3. ASSUME NEW c \in sccs, NEW p \in c
      PROVE  Cardinality(c) >= 2 <=> \E q \in c : q # p
  <2>1. IsFiniteSet(c)
    BY <1>1, GraphAssumption, FS_Subset
  <2>2. IsFiniteSet(c \ {p}) /\ Cardinality(c \ {p}) = Cardinality(c) - 1
    BY <2>1, FS_RemoveElement
  <2>3. Cardinality(c) \in Nat
    BY <2>1, FS_CardinalityType
  <2>4. Cardinality(c \ {p}) \in Nat /\ (Cardinality(c \ {p}) = 0 <=> c \ {p} = {})
    BY <2>2, FS_CardinalityType, FS_EmptySet
  <2>5. Cardinality(c) >= 2 <=> Cardinality(c \ {p}) # 0
    BY <2>2, <2>3, <2>4
  <2>6. QED
    BY <2>4, <2>5
<1>4. ASSUME NEW p \in Paths
      PROVE  p \in cyclic_paths(edges) <=>
                \E q \in Paths \ {p} : Reaches(edges, p, q) /\ Reaches(edges, q, p)
  <2>1. PICK c \in sccs : p \in c
    BY <1>1
  <2>2. \A d \in sccs : p \in d => d = c
    <3>1. ASSUME NEW d \in sccs, p \in d PROVE d = c
      <4>1. \A y \in Paths : y \in d <=> y \in c
        BY <1>1, <2>1, <3>1
      <4>2. QED
        BY <1>1, <4>1
    <3>2. QED
      BY <3>1
  <2>3. p \in cyclic_paths(edges) <=> Cardinality(c) >= 2
    BY <1>2, <2>1, <2>2
  <2>4. (\E q \in c : q # p) <=> \E q \in Paths \ {p} : Reaches(edges, p, q) /\ Reaches(edges, q, p)
    BY <1>1, <2>1
  <2>5. QED
    BY <1>3, <2>1, <2>3, <2>4
<1>5. cyclic_paths(edges) \subseteq Paths
  BY <1>1, <1>2
<1>6. QED
  BY <1>4, <1>5

-----------------------------------------------------------------------------
(* What a change set says of the two trees it is of.                        *)

\* the paths of the change set of HEAD h, index i and disk d
Differ(h, i, d) == Candidates(h, i, d) \cap (Files(h) \cup Files(d))

LEMMA PairedSources ==
    ASSUME NEW h, NEW i, NEW d, NEW m \in Pairings(h, i), NEW p \in DOMAIN m
    PROVE  m[p] \in Differ(h, i, d)
<1> DEFINE added == Files(i) \ Files(h)
           deleted == Files(h) \ Files(i)
<1>1. PICK s \in SUBSET added : m \in Injection(s, deleted)
  BY DEF Pairings
<1>2. m \in [s -> deleted]
  BY <1>1 DEF Injection
<1>3. m[p] \in Files(h) /\ m[p] \notin Files(i)
  BY <1>2
<1>4. m[p] \in Paths /\ i[m[p]] # h[m[p]]
  BY <1>3 DEF Files
<1>5. QED
  BY <1>3, <1>4 DEF Differ, Candidates, Staged

LEMMA ChangesAre ==
    ASSUME NEW h, NEW i, NEW d, NEW m \in Pairings(h, i), NEW cs,
           cs = worktree_changes(h, i, d, m)
    PROVE  /\ {c.path : c \in cs} = Differ(h, i, d)
           /\ \A b, c \in cs : b.path = c.path => b = c
           /\ Present(cs) = Differ(h, i, d) \cap Files(d)
           /\ changed_set_paths(cs) = Differ(h, i, d)
           /\ Sources(cs) \cap Files(d) = {} =>
                 deleted_set_paths(cs) = Differ(h, i, d) \ Files(d)
           /\ {c.path : c \in {c \in cs : c.kind = "added"}} = Differ(h, i, d) \ Files(h)
<1> DEFINE P == Differ(h, i, d)
           F(p) == Change(h, d, m, p)
<1>1. cs = {F(p) : p \in P}
  BY DEF worktree_changes, Differ
<1>2. \A p : /\ F(p).path = p /\ F(p).kind = Kind(h, d, p)
             /\ F(p).rename_from = IF p \in DOMAIN m THEN m[p] ELSE NoPath
  BY DEF Change
<1>3. \A p \in P : /\ Kind(h, d, p) # "deleted" <=> p \in Files(d)
                   /\ Kind(h, d, p) = "added" <=> p \notin Files(h)
  BY DEF Kind, Differ
<1>4. \A p \in P : F(p).rename_from \in P \cup {NoPath}
  BY <1>2, PairedSources
<1>5. P \subseteq Paths
  BY DEF Differ, Files
<1> HIDE DEF P, F
<1>6. {c.path : c \in cs} = P
  BY <1>1, <1>2
<1>7. \A b, c \in cs : b.path = c.path => b = c
  BY <1>1, <1>2
<1>8. Present(cs) = P \cap Files(d)
  BY <1>1, <1>2, <1>3 DEF Present
<1>9. Sources(cs) \subseteq P
  BY <1>1, <1>4 DEF Sources
<1>10. changed_set_paths(cs) = P
  BY <1>6, <1>9 DEF changed_set_paths
<1>11. Sources(cs) \cap Files(d) = {} => deleted_set_paths(cs) = P \ Files(d)
  BY <1>6, <1>8, <1>9 DEF deleted_set_paths
<1>12. {c.path : c \in {c \in cs : c.kind = "added"}} = P \ Files(h)
  BY <1>1, <1>2, <1>3
<1>13. QED
  BY <1>6, <1>7, <1>8, <1>10, <1>11, <1>12 DEF P

\* Where nothing differs the disk is HEAD, as far as it is tracked.
LEMMA TrackedIs ==
    ASSUME NEW h \in Trees, NEW i \in Trees, NEW d \in Trees
    PROVE  Tracked(h, i, d) = [p \in Paths |-> IF p \in Differ(h, i, d) THEN d[p] ELSE h[p]]
<1>1. ASSUME NEW p \in Paths, p \in Differ(h, i, d)
      PROVE  p \in Files(h) \cup Files(i)
  BY <1>1 DEF Differ, Candidates, Staged, Unstaged, Files
<1>2. ASSUME NEW p \in Paths, p \notin Differ(h, i, d)
      PROVE  (IF p \in Files(h) \cup Files(i) THEN d[p] ELSE NoFile) = h[p]
  <2>1. CASE p \notin Files(h) \cup Files(d)
    BY <2>1 DEF Files
  <2>2. CASE p \in Files(h) \cup Files(d)
    <3>1. p \notin Staged(h, i) /\ p \notin Unstaged(i, d)
      BY <1>2, <2>2 DEF Differ, Candidates
    <3>2. i[p] = h[p] /\ (p \in Files(i) => d[p] = i[p])
      BY <3>1 DEF Staged, Unstaged
    <3>3. QED
      BY <3>2 DEF Files
  <2>3. QED
    BY <2>1, <2>2
<1>3. \A p \in Paths : (IF p \in Files(h) \cup Files(i) THEN d[p] ELSE NoFile)
                          = IF p \in Differ(h, i, d) THEN d[p] ELSE h[p]
  BY <1>1, <1>2
<1>4. QED
  BY <1>3 DEF Tracked

LEMMA DiskIs ==
    ASSUME NEW h, NEW i, NEW d \in Trees
    PROVE  d = [p \in Paths |-> IF Tracked(h, i, d)[p] # NoFile THEN Tracked(h, i, d)[p]
                                ELSE Untracked(h, i, d)[p]]
<1>1. \A p \in Paths :
        d[p] = IF Tracked(h, i, d)[p] # NoFile THEN Tracked(h, i, d)[p] ELSE Untracked(h, i, d)[p]
  BY DEF Tracked, Untracked
<1>2. d = [p \in Paths |-> d[p]]
  BY DEF Trees
<1>3. QED
  BY <1>1, <1>2

LEMMA TrackedFiles ==
    ASSUME NEW h \in Trees, NEW i \in Trees, NEW d \in Trees
    PROVE  /\ Tracked(h, i, d) \in Trees
           /\ Files(Tracked(h, i, d)) =
                 (Differ(h, i, d) \cap Files(d)) \cup (Files(h) \ Differ(h, i, d))
<1> DEFINE now == Tracked(h, i, d)
<1>1. now = [p \in Paths |-> IF p \in Differ(h, i, d) THEN d[p] ELSE h[p]]
  BY TrackedIs
<1>2. now \in Trees
  BY <1>1 DEF Trees
<1> HIDE DEF now
<1>3. Files(now) = (Differ(h, i, d) \cap Files(d)) \cup (Files(h) \ Differ(h, i, d))
  BY <1>1 DEF Files, Differ
<1>4. QED
  BY <1>2, <1>3 DEF now

-----------------------------------------------------------------------------
(* Imports.                                                                 *)

LEMMA ResolveIs ==
    ASSUME NEW t \in Targets, NEW live
    PROVE  /\ resolve(t, live) \in (live \cap Paths) \cup {NoPath}
           /\ (\E i \in DOMAIN Order[t] : Order[t][i] \in live) => resolve(t, live) # NoPath
           /\ resolve(t, live) # NoPath =>
                 \E i \in DOMAIN Order[t] : Order[t][i] = resolve(t, live)
<1> DEFINE found == {i \in DOMAIN Order[t] : Order[t][i] \in live}
<1>1. Order[t] \in Seq(Paths)
  BY GraphAssumption
<1>2. \A i \in DOMAIN Order[t] : i \in Nat /\ Order[t][i] \in Paths
  BY <1>1
<1>3. CASE found = {}
  BY <1>3 DEF resolve
<1>4. CASE found # {}
  <2>1. found \in SUBSET Nat
    BY <1>2
  <2> HIDE DEF found
  <2>2. \E n \in found : \A k \in found : n <= k
    BY <1>4, <2>1, LeastOf
  <2>3. Min(found) \in found
    BY <2>2 DEF Min
  <2>4. resolve(t, live) = Order[t][Min(found)]
    BY <1>4 DEF resolve, found
  <2>5. QED
    BY <1>2, <2>3, <2>4, GraphAssumption DEF found
<1>5. QED
  BY <1>3, <1>4

LEMMA ImportsAre ==
    ASSUME NEW tree \in Trees
    PROVE  /\ \A row \in Imports(tree) :
                 /\ row.src \in Files(tree) /\ row.target \in Targets
                 /\ row.target \in tree[row.src].imports
                 /\ row.path = resolve(row.target, Files(tree))
                 /\ row = [src |-> row.src, target |-> row.target, path |-> row.path]
           /\ \A p \in Files(tree), t \in Targets : t \in tree[p].imports =>
                 [src |-> p, target |-> t, path |-> resolve(t, Files(tree))] \in Imports(tree)
<1> DEFINE pairs == {e \in Files(tree) \X Targets : e[2] \in tree[e[1]].imports}
           Row(e) == [src |-> e[1], target |-> e[2], path |-> resolve(e[2], Files(tree))]
<1>1. Imports(tree) = {Row(e) : e \in pairs}
  BY DEF Imports
<1>2. \A e : /\ Row(e).src = e[1] /\ Row(e).target = e[2] /\ Row(e).path = resolve(e[2], Files(tree))
            /\ Row(e) = [src |-> Row(e).src, target |-> Row(e).target, path |-> Row(e).path]
  OBVIOUS
<1>3. \A e \in pairs : e[1] \in Files(tree) /\ e[2] \in Targets /\ e[2] \in tree[e[1]].imports
  OBVIOUS
<1>4. \A p \in Files(tree), t \in Targets : t \in tree[p].imports => <<p, t>> \in pairs
  OBVIOUS
<1>5. \A p, t : Row(<<p, t>>) = [src |-> p, target |-> t, path |-> resolve(t, Files(tree))]
  OBVIOUS
<1> HIDE DEF pairs, Row
<1>6. QED
  BY <1>1, <1>2, <1>3, <1>4, <1>5

LEMMA ImportEdges ==
    ASSUME NEW tree \in Trees
    PROVE  Edges(Imports(tree)) \in SUBSET (Paths \X Paths)
<1>1. ASSUME NEW row \in Imports(tree), row.path # NoPath
      PROVE  <<row.src, row.path>> \in Paths \X Paths
  <2>1. row.src \in Paths /\ row.target \in Targets /\ row.path = resolve(row.target, Files(tree))
    BY ImportsAre DEF Files
  <2>2. row.path \in Paths
    BY <1>1, <2>1, ResolveIs
  <2>3. QED
    BY <2>1, <2>2
<1>2. QED
  BY <1>1 DEF Edges

LEMMA CyclesOfTree == ASSUME NEW tree \in Trees PROVE cyclic_paths(Edges(Imports(tree))) = OnCycle(tree)
  BY ImportEdges, CyclesFound DEF OnCycle

\* Two tables of the same imports have the same edges.
LEMMA SameEdges ==
    ASSUME NEW rows, NEW others,
           \A row \in rows : row.path # NoPath =>
              \E other \in others : other.src = row.src /\ other.path = row.path,
           \A other \in others : other.path # NoPath =>
              \E row \in rows : row.src = other.src /\ row.path = other.path
    PROVE  Edges(rows) = Edges(others)
<1>1. \A row \in rows : row.path # NoPath => <<row.src, row.path>> \in Edges(others)
  BY DEF Edges
<1>2. \A row \in others : row.path # NoPath => <<row.src, row.path>> \in Edges(rows)
  BY DEF Edges
<1>3. Edges(rows) \subseteq Edges(others)
  BY <1>1 DEF Edges
<1>4. Edges(others) \subseteq Edges(rows)
  BY <1>2 DEF Edges
<1>5. QED
  BY <1>3, <1>4

-----------------------------------------------------------------------------
(* What a gate measures of HEAD h and disk d; LivePaths and its kin are of   *)
(* the model's own HEAD and disk.                                            *)

Live(h, cs) ==
    (Files(h) \ deleted_set_paths(cs)) \cup {c.path : c \in {c \in cs : c.kind = "added"}}

ExtractedAt(h, d, cs) ==
    {[src |-> e[1], target |-> e[2], path |-> resolve(e[2], Live(h, cs))] :
        e \in {e \in Present(cs) \X Targets : e[2] \in d[e[1]].imports}}

SweptAt(h, cs) ==
    {[row EXCEPT !.path = resolve(row.target, Live(h, cs))] :
        row \in {row \in Imports(h) : row.path = NoPath /\ row.src \notin changed_set_paths(cs)}}

RebuiltAt(h, d, cs) == Surviving(Imports(h), cs) \cup ExtractedAt(h, d, cs) \cup SweptAt(h, cs)

NewlyAt(h, d, cs) ==
    cyclic_paths(Edges(RebuiltAt(h, d, cs))) \ cyclic_paths(Edges(Imports(h)))

ProjectedAt(h, d, cs) ==
    [p \in Paths |-> IF p \in Present(cs) THEN d[p]
                     ELSE IF p \in changed_set_paths(cs) THEN NoFile ELSE h[p]]

ClonesAt(h, d, cs) == Present(cs) \cap (Cloned(d) \ Cloned(h))

KeyOf(rev, d, cs) ==
    [head |-> rev, lines |-> [p \in {c.path : c \in cs} |->
                                 IF p \in Present(cs) THEN d[p] ELSE NoFile]]

LEMMA MeasuredNow ==
    ASSUME NEW cs
    PROVE  /\ newly_cyclic(head.tree, cs) = NewlyAt(head.tree, disk, cs)
           /\ complexity_projected(head.tree, cs) = ProjectedAt(head.tree, disk, cs)
           /\ clone_introductions(head.tree, cs) = ClonesAt(head.tree, disk, cs)
           /\ \A rev : report_key(rev, cs) = KeyOf(rev, disk, cs)
<1>1. LivePaths(cs) = Live(head.tree, cs)
  BY DEF LivePaths, Live
<1>2. Extracted(cs) = ExtractedAt(head.tree, disk, cs)
  BY <1>1 DEF Extracted, ExtractedAt
<1>3. Swept(Imports(head.tree), cs) = SweptAt(head.tree, cs)
  BY <1>1 DEF Swept, SweptAt
<1>4. newly_cyclic(head.tree, cs) = NewlyAt(head.tree, disk, cs)
  BY <1>2, <1>3 DEF newly_cyclic, NewlyAt, RebuiltAt
<1>5. QED
  BY <1>4 DEF complexity_projected, ProjectedAt, clone_introductions, ClonesAt, report_key, KeyOf

LEMMA LiveIsNow ==
    ASSUME NEW h \in Trees, NEW i \in Trees, NEW d \in Trees, NEW m \in Pairings(h, i), NEW cs,
           cs = worktree_changes(h, i, d, m), Sources(cs) \cap Files(d) = {}
    PROVE  /\ Live(h, cs) = Files(Tracked(h, i, d))
           /\ deleted_set_paths(cs) \cap Live(h, cs) = {}
<1>1. /\ deleted_set_paths(cs) = Differ(h, i, d) \ Files(d)
      /\ {c.path : c \in {c \in cs : c.kind = "added"}} = Differ(h, i, d) \ Files(h)
  BY ChangesAre
<1>2. Files(Tracked(h, i, d)) = (Differ(h, i, d) \cap Files(d)) \cup (Files(h) \ Differ(h, i, d))
  BY TrackedFiles
<1>3. Differ(h, i, d) \subseteq Files(h) \cup Files(d)
  BY DEF Differ
<1>4. QED
  BY <1>1, <1>2, <1>3 DEF Live

\* The graph that is put together is that of the working tree.
LEMMA Rebuilt ==
    ASSUME NEW h \in Trees, NEW i \in Trees, NEW d \in Trees, NEW m \in Pairings(h, i), NEW cs,
           cs = worktree_changes(h, i, d, m), Sources(cs) \cap Files(d) = {},
           NEW now, now = Tracked(h, i, d),
           \A row \in Imports(h) :
              row.src \notin changed_set_paths(cs) /\ row.path # NoPath
              => resolve(row.target, Files(now)) \in {row.path, NoPath}
    PROVE  Edges(RebuiltAt(h, d, cs)) = Edges(Imports(now))
<1> DEFINE P == Differ(h, i, d)
           live == Files(now)
<1>1. /\ changed_set_paths(cs) = P /\ deleted_set_paths(cs) = P \ Files(d)
      /\ Present(cs) = P \cap Files(d)
  BY ChangesAre
<1>2. Live(h, cs) = live /\ deleted_set_paths(cs) \cap live = {}
  BY LiveIsNow
<1>3. now \in Trees /\ live = (P \cap Files(d)) \cup (Files(h) \ P)
  BY TrackedFiles
<1>4. \A p \in Paths : now[p] = IF p \in P THEN d[p] ELSE h[p]
  BY TrackedIs
<1>5. live \subseteq Paths
  BY DEF Files
<1>6. P \subseteq Paths
  BY DEF Differ, Files
<1> HIDE DEF P, live
<1>7. ASSUME NEW row \in Imports(now), row.path # NoPath
      PROVE  \E r \in RebuiltAt(h, d, cs) : r.src = row.src /\ r.path = row.path
  <2> DEFINE p == row.src
             t == row.target
  <2>1. p \in live /\ t \in Targets /\ t \in now[p].imports /\ row.path = resolve(t, live)
    BY <1>3, <1>7, ImportsAre DEF live
  <2>2. p \in Paths
    BY <2>1, <1>5
  <2>3. CASE p \in P
    <3> DEFINE r == [src |-> p, target |-> t, path |-> resolve(t, Live(h, cs))]
               e == <<p, t>>
    <3>1. p \in Present(cs) /\ t \in d[p].imports
      BY <1>1, <1>3, <1>4, <2>1, <2>2, <2>3
    <3>2. e \in Present(cs) \X Targets /\ e[1] = p /\ e[2] = t
      BY <2>1, <3>1
    <3>3. r = [src |-> e[1], target |-> e[2], path |-> resolve(e[2], Live(h, cs))]
      BY <3>2
    <3> HIDE DEF e
    <3>4. r \in ExtractedAt(h, d, cs)
      BY <3>1, <3>2, <3>3 DEF ExtractedAt
    <3>5. r.src = p /\ r.path = row.path
      BY <1>2, <2>1
    <3> HIDE DEF r, p
    <3>6. r \in RebuiltAt(h, d, cs)
      BY <3>4 DEF RebuiltAt
    <3>7. QED
      BY <3>5, <3>6 DEF p
  <2>4. CASE p \notin P
    <3> DEFINE old == [src |-> p, target |-> t, path |-> resolve(t, Files(h))]
    <3>1. p \in Files(h) /\ t \in h[p].imports
      BY <1>3, <1>4, <2>1, <2>2, <2>4
    <3>2. old \in Imports(h)
      BY <3>1, <2>1, ImportsAre
    <3>3. old.src = p /\ old.target = t /\ old.path = resolve(t, Files(h))
      OBVIOUS
    <3>4. old.src \notin changed_set_paths(cs)
      BY <1>1, <2>4, <3>3
    <3>5. CASE old.path = NoPath
      <4> DEFINE r == [old EXCEPT !.path = resolve(old.target, Live(h, cs))]
      <4>1. r \in SweptAt(h, cs)
        BY <3>2, <3>4, <3>5 DEF SweptAt
      <4>2. r.src = p /\ r.path = row.path
        BY <1>2, <2>1
      <4> HIDE DEF r, p, old
      <4>3. r \in RebuiltAt(h, d, cs)
        BY <4>1 DEF RebuiltAt
      <4>4. QED
        BY <4>2, <4>3 DEF p
    <3>6. CASE old.path # NoPath
      <4> HIDE DEF old, p, t
      <4>1. resolve(t, live) \in {old.path, NoPath}
        BY <3>2, <3>3, <3>4, <3>6 DEF live
      <4>2. old.path = row.path
        BY <1>7, <2>1, <4>1
      <4>3. row.path \in live
        BY <1>7, <2>1, ResolveIs
      <4>4. old.path \notin deleted_set_paths(cs)
        BY <1>2, <4>2, <4>3
      <4>5. old \in Surviving(Imports(h), cs)
        BY <3>2, <3>4, <4>4 DEF Surviving
      <4>6. old \in RebuiltAt(h, d, cs)
        BY <4>5 DEF RebuiltAt
      <4>7. QED
        BY <3>3, <4>2, <4>6 DEF p
    <3>7. QED
      BY <3>5, <3>6
  <2>5. QED
    BY <2>3, <2>4
<1>8. ASSUME NEW r \in RebuiltAt(h, d, cs), r.path # NoPath
      PROVE  \E row \in Imports(now) : row.src = r.src /\ row.path = r.path
  <2>1. ASSUME NEW p \in live, NEW t \in Targets, t \in now[p].imports, r.src = p, r.path = resolve(t, live)
        PROVE  \E row \in Imports(now) : row.src = r.src /\ row.path = r.path
    <3> DEFINE row == [src |-> p, target |-> t, path |-> resolve(t, live)]
    <3>1. row \in Imports(now)
      BY <1>3, <2>1, ImportsAre DEF live
    <3>2. row.src = r.src /\ row.path = r.path
      BY <2>1
    <3> HIDE DEF row
    <3>3. QED
      BY <3>1, <3>2
  <2>2. CASE r \in Surviving(Imports(h), cs)
    <3>1. r \in Imports(h) /\ r.src \notin P /\ r.path \notin deleted_set_paths(cs)
      BY <1>1, <2>2 DEF Surviving
    <3>2. /\ r.src \in Files(h) /\ r.target \in Targets /\ r.target \in h[r.src].imports
          /\ r.path = resolve(r.target, Files(h))
      BY <3>1, ImportsAre
    <3>3. r.src \in live /\ r.src \in Paths
      BY <1>3, <1>5, <3>1, <3>2
    <3>4. r.target \in now[r.src].imports
      BY <1>4, <3>1, <3>2, <3>3
    <3>5. r.path \in Files(h)
      BY <1>8, <3>2, ResolveIs
    <3>6. r.path \in live
      BY <1>1, <1>3, <3>1, <3>5
    <3>7. resolve(r.target, live) # NoPath
      <4>1. \E k \in DOMAIN Order[r.target] : Order[r.target][k] = r.path
        BY <1>8, <3>2, ResolveIs
      <4>2. QED
        BY <3>2, <3>6, <4>1, ResolveIs
    <3>8. resolve(r.target, live) = r.path
      BY <1>1, <1>8, <3>1, <3>7 DEF live
    <3>9. QED
      BY <2>1, <3>2, <3>3, <3>4, <3>8
  <2>3. CASE r \in ExtractedAt(h, d, cs)
    <3>1. PICK e \in Present(cs) \X Targets :
             /\ e[2] \in d[e[1]].imports
             /\ r = [src |-> e[1], target |-> e[2], path |-> resolve(e[2], Live(h, cs))]
      BY <2>3 DEF ExtractedAt
    <3>2. e[1] \in Present(cs) /\ e[2] \in Targets
      OBVIOUS
    <3>3. e[1] \in P /\ e[1] \in live /\ e[1] \in Paths
      BY <1>1, <1>3, <1>5, <3>2
    <3>4. r.src = e[1] /\ r.path = resolve(e[2], live)
      BY <1>2, <3>1
    <3>5. e[2] \in now[e[1]].imports
      BY <1>4, <3>1, <3>3
    <3>6. QED
      BY <2>1, <3>2, <3>3, <3>4, <3>5
  <2>4. CASE r \in SweptAt(h, cs)
    <3>1. PICK old \in Imports(h) :
             /\ old.src \notin changed_set_paths(cs)
             /\ r = [old EXCEPT !.path = resolve(old.target, Live(h, cs))]
      BY <2>4 DEF SweptAt
    <3>2. /\ old.src \in Files(h) /\ old.target \in Targets /\ old.target \in h[old.src].imports
          /\ old = [src |-> old.src, target |-> old.target, path |-> old.path]
      BY ImportsAre
    <3>3. r.src = old.src /\ r.path = resolve(old.target, live)
      BY <1>2, <3>1, <3>2
    <3>4. old.src \notin P /\ old.src \in live /\ old.src \in Paths
      BY <1>1, <1>3, <1>5, <3>1, <3>2
    <3>5. old.target \in now[old.src].imports
      BY <1>4, <3>2, <3>4
    <3>6. QED
      BY <2>1, <3>2, <3>3, <3>4, <3>5
  <2>5. QED
    BY <2>2, <2>3, <2>4 DEF RebuiltAt
<1>9. QED
  BY <1>7, <1>8, SameEdges

LEMMA NewlyIs ==
    ASSUME NEW h \in Trees, NEW i \in Trees, NEW d \in Trees, NEW m \in Pairings(h, i), NEW cs,
           cs = worktree_changes(h, i, d, m), Sources(cs) \cap Files(d) = {},
           NEW now, now = Tracked(h, i, d),
           \A row \in Imports(h) :
              row.src \notin changed_set_paths(cs) /\ row.path # NoPath
              => resolve(row.target, Files(now)) \in {row.path, NoPath}
    PROVE  NewlyAt(h, d, cs) = OnCycle(now) \ OnCycle(h)
<1>1. Edges(RebuiltAt(h, d, cs)) = Edges(Imports(now))
  BY Rebuilt
<1>2. now \in Trees
  BY TrackedFiles
<1>3. cyclic_paths(Edges(Imports(now))) = OnCycle(now)
  BY <1>2, CyclesOfTree
<1>4. cyclic_paths(Edges(Imports(h))) = OnCycle(h)
  BY CyclesOfTree
<1>5. QED
  BY <1>1, <1>3, <1>4 DEF NewlyAt

LEMMA ProjectedIs ==
    ASSUME NEW h \in Trees, NEW i \in Trees, NEW d \in Trees, NEW m \in Pairings(h, i), NEW cs,
           cs = worktree_changes(h, i, d, m)
    PROVE  ProjectedAt(h, d, cs) = Tracked(h, i, d)
<1>1. changed_set_paths(cs) = Differ(h, i, d) /\ Present(cs) = Differ(h, i, d) \cap Files(d)
  BY ChangesAre
<1>2. \A p \in Paths : (IF p \in Present(cs) THEN d[p]
                        ELSE IF p \in changed_set_paths(cs) THEN NoFile ELSE h[p])
                       = IF p \in Differ(h, i, d) THEN d[p] ELSE h[p]
  BY <1>1 DEF Files
<1>3. QED
  BY <1>2, TrackedIs DEF ProjectedAt

\* A key says what the tracked files are.
LEMMA KeyTells ==
    ASSUME NEW h \in Trees, NEW i \in Trees, NEW d \in Trees, NEW m \in Pairings(h, i), NEW cs,
           cs = worktree_changes(h, i, d, m), NEW rev, NEW k, k = KeyOf(rev, d, cs)
    PROVE  /\ DOMAIN k.lines = Differ(h, i, d)
           /\ Tracked(h, i, d) =
                 [p \in Paths |-> IF p \in DOMAIN k.lines THEN k.lines[p] ELSE h[p]]
<1>1. {c.path : c \in cs} = Differ(h, i, d) /\ Present(cs) = Differ(h, i, d) \cap Files(d)
  BY ChangesAre
<1>2. k.lines = [p \in Differ(h, i, d) |-> IF p \in Present(cs) THEN d[p] ELSE NoFile]
  BY <1>1 DEF KeyOf
<1>3. \A p \in Differ(h, i, d) : k.lines[p] = d[p]
  BY <1>1, <1>2 DEF Files, Differ
<1>4. DOMAIN k.lines = Differ(h, i, d)
  BY <1>2
<1>5. Tracked(h, i, d) = [p \in Paths |-> IF p \in Differ(h, i, d) THEN d[p] ELSE h[p]]
  BY TrackedIs
<1>6. \A p \in Paths : (IF p \in Differ(h, i, d) THEN d[p] ELSE h[p])
                          = IF p \in DOMAIN k.lines THEN k.lines[p] ELSE h[p]
  BY <1>3, <1>4
<1>7. QED
  BY <1>4, <1>5, <1>6

\* Two working trees over one HEAD with one key, and the same beside what is
\* tracked, are one disk: all that was measured of the one is so of the other,
\* the pairing of renamed files apart.
LEMMA SameKey ==
    ASSUME NEW h \in Trees,
           NEW i \in Trees, NEW d \in Trees, NEW m \in Pairings(h, i), NEW cs,
           cs = worktree_changes(h, i, d, m),
           NEW j \in Trees, NEW e \in Trees, NEW n \in Pairings(h, j), NEW bs,
           bs = worktree_changes(h, j, e, n),
           NEW rev, KeyOf(rev, d, cs) = KeyOf(rev, e, bs), Untracked(h, i, d) = Untracked(h, j, e)
    PROVE  /\ d = e /\ Present(cs) = Present(bs)
           /\ ProjectedAt(h, d, cs) = ProjectedAt(h, e, bs)
           /\ Sources(cs) \cap Files(d) = {} /\ Sources(bs) \cap Files(d) = {} =>
                 NewlyAt(h, d, cs) = NewlyAt(h, e, bs)
<1> DEFINE k == KeyOf(rev, d, cs)
<1>1. /\ DOMAIN k.lines = Differ(h, i, d)
      /\ Tracked(h, i, d) = [p \in Paths |-> IF p \in DOMAIN k.lines THEN k.lines[p] ELSE h[p]]
  BY KeyTells
<1>2. /\ DOMAIN k.lines = Differ(h, j, e)
      /\ Tracked(h, j, e) = [p \in Paths |-> IF p \in DOMAIN k.lines THEN k.lines[p] ELSE h[p]]
  BY KeyTells
<1>3. Differ(h, i, d) = Differ(h, j, e) /\ Tracked(h, i, d) = Tracked(h, j, e)
  BY <1>1, <1>2
<1>4. d = e
  BY <1>3, DiskIs
<1>5. /\ Present(cs) = Differ(h, i, d) \cap Files(d) /\ changed_set_paths(cs) = Differ(h, i, d)
      /\ Sources(cs) \cap Files(d) = {} => deleted_set_paths(cs) = Differ(h, i, d) \ Files(d)
      /\ {c.path : c \in {c \in cs : c.kind = "added"}} = Differ(h, i, d) \ Files(h)
  BY ChangesAre
<1>6. /\ Present(bs) = Differ(h, j, e) \cap Files(e) /\ changed_set_paths(bs) = Differ(h, j, e)
      /\ Sources(bs) \cap Files(e) = {} => deleted_set_paths(bs) = Differ(h, j, e) \ Files(e)
      /\ {c.path : c \in {c \in bs : c.kind = "added"}} = Differ(h, j, e) \ Files(h)
  BY ChangesAre
<1>7. Present(cs) = Present(bs)
  BY <1>3, <1>4, <1>5, <1>6
<1>8. ProjectedAt(h, d, cs) = ProjectedAt(h, e, bs)
  BY <1>3, ProjectedIs
<1>9. ASSUME Sources(cs) \cap Files(d) = {}, Sources(bs) \cap Files(d) = {}
      PROVE  NewlyAt(h, d, cs) = NewlyAt(h, e, bs)
  <2>1. changed_set_paths(cs) = changed_set_paths(bs) /\ deleted_set_paths(cs) = deleted_set_paths(bs)
    BY <1>3, <1>4, <1>5, <1>6, <1>9
  <2>2. Live(h, cs) = Live(h, bs)
    BY <1>3, <1>5, <1>6, <2>1 DEF Live
  <2>3. Surviving(Imports(h), cs) = Surviving(Imports(h), bs)
    BY <2>1 DEF Surviving
  <2>4. ExtractedAt(h, d, cs) = ExtractedAt(h, e, bs)
    BY <1>4, <1>7, <2>2 DEF ExtractedAt
  <2>5. SweptAt(h, cs) = SweptAt(h, bs)
    BY <2>1, <2>2 DEF SweptAt
  <2>6. QED
    BY <2>3, <2>4, <2>5 DEF NewlyAt, RebuiltAt
<1>10. QED
  BY <1>4, <1>7, <1>8, <1>9

-----------------------------------------------------------------------------
(* The invariant.                                                           *)

TypeInv ==
    /\ head.rev \in Nat /\ head.tree \in Trees /\ index \in Trees /\ disk \in Trees
    /\ edits \in Nat /\ calls \subseteq Gates
    /\ pc \in [Gates -> Places] /\ db \in [Gates -> Trees] /\ moved \in [Gates -> BOOLEAN]
    /\ DOMAIN sha = Gates /\ DOMAIN changes = Gates /\ DOMAIN key = Gates /\ DOMAIN report = Gates
    /\ \A g \in Gates : /\ \A b, c \in changes[g] : b.path = c.path => b = c
                        /\ sha[g] \in 0 .. head.rev /\ key[g].head \in 0 .. head.rev

Keyed == {"lookup", "cycles", "write", "fill"}
Listed == {"key"} \cup Keyed
Resolved == {"enumerate"} \cup Listed
Opened == {"opened", "resolve"} \cup Resolved

\* the report of the change set cs, before and after the cycles are looked for
Half(h, d, cs) ==
    [changes |-> cs, newly |-> {}, projected |-> ProjectedAt(h, d, cs),
     clones |-> ClonesAt(h, d, cs)]
Whole(h, d, cs) == [Half(h, d, cs) EXCEPT !.newly = NewlyAt(h, d, cs)]

\* What a gate holds is of HEAD, the index and the disk as they are, until
\* something moves under it.
Gated(g) ==
    ~moved[g] =>
        /\ pc[g] \in Opened => db[g] = head.tree
        /\ pc[g] \in Resolved => sha[g] = head.rev
        /\ pc[g] \in Listed => \E m \in Pairings(head.tree, index) :
                                  changes[g] = worktree_changes(head.tree, index, disk, m)
        /\ pc[g] \in Keyed => key[g] = KeyOf(head.rev, disk, changes[g])
        /\ pc[g] = "cycles" => report[g] = Half(head.tree, disk, changes[g])
        /\ pc[g] \in {"write", "fill"} => report[g] = Whole(head.tree, disk, changes[g])

\* A stored report nothing moved under, of the HEAD of now, is of some working
\* tree that its key is the key of.
Told(h, k, e) ==
    \E i \in Trees, d \in Trees : \E m \in Pairings(h, i) :
        /\ k = KeyOf(k.head, d, worktree_changes(h, i, d, m))
        /\ e.beside = Untracked(h, i, d)
        /\ e.report = Whole(h, d, worktree_changes(h, i, d, m))

Kept ==
    \A k \in DOMAIN sidecar :
        /\ k.head \in 0 .. head.rev
        /\ \A e \in sidecar[k] : e.still /\ k.head = head.rev => Told(head.tree, k, e)

GateInv == TypeInv /\ (\A g \in Gates : Gated(g)) /\ Kept

LEMMA InvType == GateInv => TypeOK
<1>1. SUFFICES ASSUME GateInv PROVE TypeOK
  OBVIOUS
<1>2. ASSUME NEW g \in Gates, ~moved[g], pc[g] \in {"key", "lookup", "cycles", "write", "fill"}
      PROVE  {c.path : c \in changes[g]} \subseteq Files(head.tree) \cup Files(disk)
  <2>1. pc[g] \in Listed
    BY <1>2 DEF Listed, Keyed
  <2>2. PICK m \in Pairings(head.tree, index) :
           changes[g] = worktree_changes(head.tree, index, disk, m)
    BY <1>1, <1>2, <2>1 DEF GateInv, Gated
  <2>3. {c.path : c \in changes[g]} = Differ(head.tree, index, disk)
    BY <2>2, ChangesAre
  <2>4. QED
    BY <2>3 DEF Differ
<1>3. QED
  BY <1>1, <1>2 DEF GateInv, TypeInv, TypeOK

LEMMA InitInv == Init => GateInv
<1>1. SUFFICES ASSUME Init PROVE GateInv
  OBVIOUS
<1>2. PICK s \in Starts : /\ head = [rev |-> 0, tree |-> s.head] /\ index = s.index
                          /\ disk = s.disk /\ edits = s.edits /\ calls = s.calls
  BY <1>1 DEF Init
<1>3. s \in [head : Trees, index : Trees, disk : Trees, edits : Nat, calls : SUBSET Gates]
  BY StartsAssumption
<1>4. /\ head.rev = 0 /\ head.tree \in Trees /\ index \in Trees /\ disk \in Trees
      /\ edits \in Nat /\ calls \subseteq Gates
  BY <1>2, <1>3
<1>5. /\ pc = [g \in Gates |-> "start"] /\ db = [g \in Gates |-> [p \in Paths |-> NoFile]]
      /\ sha = [g \in Gates |-> 0] /\ changes = [g \in Gates |-> NoChanges]
      /\ key = [g \in Gates |-> NoKey] /\ report = [g \in Gates |-> NoReport]
      /\ moved = [g \in Gates |-> FALSE] /\ sidecar = <<>>
  BY <1>1 DEF Init
<1>6. [p \in Paths |-> NoFile] \in Trees
  BY DEF Trees
<1>7. \A g \in Gates : sha[g] = 0 /\ key[g].head = 0 /\ changes[g] = {} /\ pc[g] = "start"
  BY <1>5 DEF NoKey, NoChanges
<1>8. TypeInv
  BY <1>4, <1>5, <1>6, <1>7 DEF TypeInv, Places
<1>9. \A g \in Gates : Gated(g)
  BY <1>7 DEF Gated, Opened, Resolved, Listed, Keyed
<1>10. DOMAIN sidecar = {}
  BY <1>5
<1>11. QED
  BY <1>8, <1>9, <1>10 DEF GateInv, Kept

-----------------------------------------------------------------------------
(* The user.                                                                *)

LEMMA EditKeeps ==
    ASSUME GateInv, Edit, index' \in Trees, disk' \in Trees,
           \/ head' = head
           \/ head' = [rev |-> head.rev + 1, tree |-> index]
    PROVE  GateInv'
<1>1. /\ edits' \in Nat /\ moved' = [g \in Gates |-> moved[g] \/ pc[g] \notin Ended]
      /\ calls' = calls /\ sidecar' = sidecar /\ pc' = pc /\ db' = db /\ sha' = sha
      /\ changes' = changes /\ key' = key /\ report' = report
  BY DEF Edit, GateInv, TypeInv
<1>2. TypeInv
  BY DEF GateInv
<1>3. /\ head'.rev \in Nat /\ head'.tree \in Trees
      /\ \A n \in 0 .. head.rev : n \in 0 .. head'.rev
  BY <1>2 DEF TypeInv
<1>4. moved' \in [Gates -> BOOLEAN]
  BY <1>1, <1>2 DEF TypeInv
<1>5. TypeInv'
  BY <1>1, <1>2, <1>3, <1>4 DEF TypeInv
<1>6. ASSUME NEW g \in Gates PROVE Gated(g)'
  <2>1. moved'[g] \/ pc'[g] \in Ended
    BY <1>1
  <2>2. QED
    BY <2>1 DEF Gated, Opened, Resolved, Listed, Keyed, Ended
<1>7. Kept'
  <2>1. \A k \in DOMAIN sidecar : /\ k.head \in 0 .. head.rev
           /\ \A e \in sidecar[k] : e.still /\ k.head = head.rev => Told(head.tree, k, e)
    BY DEF GateInv, Kept
  <2>2. CASE head' = head
    BY <1>1, <2>1, <2>2 DEF Kept
  <2>3. CASE head' = [rev |-> head.rev + 1, tree |-> index]
    <3>1. head'.rev = head.rev + 1 /\ head.rev \in Nat
      BY <1>2, <2>3 DEF TypeInv
    <3>2. \A n \in 0 .. head.rev : n # head'.rev
      BY <3>1
    <3>3. QED
      BY <1>1, <1>3, <2>1, <3>2 DEF Kept
  <2>4. QED
    BY <2>2, <2>3
<1>8. QED
  BY <1>5, <1>6, <1>7 DEF GateInv

LEMMA UserKeeps == ASSUME GateInv, User PROVE GateInv'
<1>1. head.tree \in Trees /\ index \in Trees /\ disk \in Trees
  BY DEF GateInv, TypeInv
<1>2. ASSUME NEW p \in Paths, NEW c, c \in Contents \cup {NoFile}, Write(p, c)
      PROVE  GateInv'
  <2>1. Edit /\ disk' = [disk EXCEPT ![p] = c] /\ index' = index /\ head' = head
    BY <1>2 DEF Write
  <2>2. disk' \in Trees
    BY <1>1, <1>2, <2>1 DEF Trees
  <2>3. QED
    BY <1>1, <2>1, <2>2, EditKeeps
<1>3. ASSUME NEW p \in Paths, Add(p)
      PROVE  GateInv'
  <2>1. Edit /\ index' = [index EXCEPT ![p] = disk[p]] /\ disk' = disk /\ head' = head
    BY <1>3 DEF Add
  <2>2. index' \in Trees
    BY <1>1, <2>1 DEF Trees
  <2>3. QED
    BY <1>1, <2>1, <2>2, EditKeeps
<1>4. CASE Commit
  BY <1>1, <1>4, EditKeeps DEF Commit
<1>5. CASE \E p \in Paths, c \in Drafts : c # disk[p] /\ Write(p, c)
  BY <1>2, <1>5, StartsAssumption
<1>6. CASE \E p \in Paths : Delete(p) \/ Add(p)
  BY <1>2, <1>3, <1>6 DEF Delete
<1>7. QED
  BY <1>4, <1>5, <1>6 DEF User

-----------------------------------------------------------------------------
(* A gate.                                                                  *)

\* What a gate's step leaves of another gate, and of what is stored.
LEMMA OthersKeep ==
    ASSUME NEW f \in Gates, Gated(f), UNCHANGED repo, moved' = moved, pc'[f] = pc[f],
           db'[f] = db[f], sha'[f] = sha[f], changes'[f] = changes[f], key'[f] = key[f],
           report'[f] = report[f]
    PROVE  Gated(f)'
  BY DEF repo, Gated

LEMMA KeptKeeps == ASSUME Kept, UNCHANGED repo, sidecar' = sidecar PROVE Kept'
  BY DEF repo, Kept

LEMMA PlaceKeeps ==
    ASSUME TypeInv, NEW g \in Gates, NEW place \in Places, Goto(g, place)
    PROVE  /\ pc' \in [Gates -> Places] /\ pc'[g] = place
           /\ \A f \in Gates \ {g} : pc'[f] = pc[f]
  BY DEF TypeInv, Goto

\* A step that measures nothing keeps the invariant wherever it goes, if what the
\* new place claims is so.
LEMMA MoveKeeps ==
    ASSUME GateInv, NEW g \in Gates, NEW place \in Places, Goto(g, place),
           UNCHANGED <<repo, sidecar, sha, changes, key, report, moved>>,
           db' \in [Gates -> Trees], \A f \in Gates \ {g} : db'[f] = db[f], Gated(g)'
    PROVE  GateInv'
<1>1. TypeInv /\ Kept
  BY DEF GateInv
<1>2. /\ pc' \in [Gates -> Places] /\ pc'[g] = place
      /\ \A f \in Gates \ {g} : pc'[f] = pc[f]
  BY <1>1, PlaceKeeps
<1>3. TypeInv'
  BY <1>1, <1>2 DEF TypeInv, repo
<1>4. \A f \in Gates \ {g} : Gated(f)'
  BY <1>2, OthersKeep DEF GateInv
<1>5. Kept'
  BY <1>1, KeptKeeps
<1>6. QED
  BY <1>3, <1>4, <1>5 DEF GateInv

\* To a place that claims nothing.
LEMMA EndKeeps ==
    ASSUME GateInv, NEW g \in Gates, NEW place \in {"done", "failed", "clean", "looked"},
           Goto(g, place), UNCHANGED <<repo, sidecar, db, sha, changes, key, report, moved>>
    PROVE  GateInv'
<1>1. place \in Places
  BY DEF Places
<1>2. pc'[g] = place
  BY <1>1, PlaceKeeps DEF GateInv
<1>3. Gated(g)'
  BY <1>2 DEF Gated, Opened, Resolved, Listed, Keyed
<1>4. db' \in [Gates -> Trees]
  BY DEF GateInv, TypeInv
<1>5. QED
  BY <1>1, <1>3, <1>4, MoveKeeps

LEMMA OpenFactsKeeps == ASSUME GateInv, NEW g \in Gates, OpenFacts(g) PROVE GateInv'
<1>1. /\ db' = [db EXCEPT ![g] = head.tree]
      /\ UNCHANGED <<repo, sidecar, sha, changes, key, report, moved>>
      /\ Goto(g, IF pc[g] = "start" THEN "opened" ELSE "resolve")
  BY DEF OpenFacts
<1>2. PICK place \in {"opened", "resolve"} : Goto(g, place)
  BY <1>1
<1>3. place \in Places
  BY <1>2 DEF Places
<1>4. TypeInv
  BY DEF GateInv
<1>5. pc'[g] = place
  BY <1>2, <1>3, <1>4, PlaceKeeps
<1>6. db' \in [Gates -> Trees] /\ db'[g] = head.tree /\ \A f \in Gates \ {g} : db'[f] = db[f]
  BY <1>1, <1>4 DEF TypeInv
<1>7. Gated(g)'
  BY <1>1, <1>2, <1>5, <1>6 DEF Gated, Opened, Resolved, Listed, Keyed, repo
<1>8. QED
  BY <1>1, <1>2, <1>3, <1>6, <1>7, MoveKeeps

LEMMA LookKeepsInv == ASSUME GateInv, NEW g \in Gates, Look(g) PROVE GateInv'
<1>1. /\ pc[g] \in {"start", "opened"}
      /\ UNCHANGED <<repo, sidecar, db, sha, changes, key, report, moved>>
      /\ \/ Goto(g, "clean") \/ Goto(g, "looked")
         \/ pc[g] = "opened" /\ Goto(g, "resolve")
  BY DEF Look
<1>2. CASE Goto(g, "clean") \/ Goto(g, "looked")
  BY <1>1, <1>2, EndKeeps
<1>3. CASE pc[g] = "opened" /\ Goto(g, "resolve")
  <2>1. "resolve" \in Places
    BY DEF Places
  <2>2. pc'[g] = "resolve"
    BY <1>3, <2>1, PlaceKeeps DEF GateInv
  <2>3. ~moved[g] => db[g] = head.tree
    BY <1>3 DEF GateInv, Gated, Opened
  <2>4. Gated(g)'
    BY <1>1, <2>2, <2>3 DEF Gated, Resolved, Listed, Keyed, repo
  <2>5. db' \in [Gates -> Trees]
    BY <1>1 DEF GateInv, TypeInv
  <2>6. QED
    BY <1>1, <1>3, <2>1, <2>4, <2>5, MoveKeeps
<1>4. QED
  BY <1>1, <1>2, <1>3

LEMMA ResolveHeadKeeps == ASSUME GateInv, NEW g \in Gates, ResolveHead(g) PROVE GateInv'
<1>1. /\ pc[g] = "resolve" /\ sha' = [sha EXCEPT ![g] = head.rev] /\ Goto(g, "enumerate")
      /\ UNCHANGED <<repo, sidecar, db, changes, key, report, moved>>
  BY DEF ResolveHead
<1>2. TypeInv /\ Kept
  BY DEF GateInv
<1>3. "enumerate" \in Places
  BY DEF Places
<1>4. /\ pc' \in [Gates -> Places] /\ pc'[g] = "enumerate"
      /\ \A f \in Gates \ {g} : pc'[f] = pc[f]
  BY <1>1, <1>2, <1>3, PlaceKeeps
<1>5. DOMAIN sha' = Gates /\ sha'[g] = head.rev /\ \A f \in Gates \ {g} : sha'[f] = sha[f]
  BY <1>1, <1>2 DEF TypeInv
<1>6. head.rev \in 0 .. head.rev
  BY <1>2 DEF TypeInv
<1>7. TypeInv'
  BY <1>1, <1>2, <1>4, <1>5, <1>6 DEF TypeInv, repo
<1>8. ~moved[g] => db[g] = head.tree
  BY <1>1 DEF GateInv, Gated, Opened
<1>9. Gated(g)'
  BY <1>1, <1>4, <1>5, <1>8 DEF Gated, Listed, Keyed, repo
<1>10. \A f \in Gates \ {g} : Gated(f)'
  BY <1>1, <1>4, <1>5, OthersKeep DEF GateInv
<1>11. Kept'
  BY <1>1, <1>2, KeptKeeps
<1>12. QED
  BY <1>7, <1>9, <1>10, <1>11 DEF GateInv

LEMMA EnumerateKeeps == ASSUME GateInv, NEW g \in Gates, Enumerate(g) PROVE GateInv'
<1>1. /\ pc[g] = "enumerate" /\ Goto(g, "key")
      /\ UNCHANGED <<repo, sidecar, db, sha, key, report, moved>>
  BY DEF Enumerate
<1>2. PICK m \in Pairings(head.tree, index) :
         changes' = [changes EXCEPT ![g] = worktree_changes(head.tree, index, disk, m)]
  BY DEF Enumerate
<1>3. TypeInv /\ Kept
  BY DEF GateInv
<1>4. "key" \in Places
  BY DEF Places
<1>5. /\ pc' \in [Gates -> Places] /\ pc'[g] = "key"
      /\ \A f \in Gates \ {g} : pc'[f] = pc[f]
  BY <1>1, <1>3, <1>4, PlaceKeeps
<1>6. /\ DOMAIN changes' = Gates
      /\ changes'[g] = worktree_changes(head.tree, index, disk, m)
      /\ \A f \in Gates \ {g} : changes'[f] = changes[f]
  BY <1>2, <1>3 DEF TypeInv
<1>7. \A b, c \in changes'[g] : b.path = c.path => b = c
  BY <1>6, ChangesAre
<1>8. TypeInv'
  BY <1>1, <1>3, <1>5, <1>6, <1>7 DEF TypeInv, repo
<1>9. ~moved[g] => db[g] = head.tree /\ sha[g] = head.rev
  BY <1>1 DEF GateInv, Gated, Opened, Resolved
<1>10. Gated(g)'
  BY <1>1, <1>5, <1>6, <1>9 DEF Gated, Keyed, repo
<1>11. \A f \in Gates \ {g} : Gated(f)'
  BY <1>1, <1>5, <1>6, OthersKeep DEF GateInv
<1>12. Kept'
  BY <1>1, <1>3, KeptKeeps
<1>13. QED
  BY <1>8, <1>10, <1>11, <1>12 DEF GateInv

LEMMA KeyKeeps == ASSUME GateInv, NEW g \in Gates, Key(g) PROVE GateInv'
<1>1. /\ pc[g] = "key" /\ key' = [key EXCEPT ![g] = report_key(sha[g], changes[g])]
      /\ Goto(g, "lookup") /\ UNCHANGED <<repo, sidecar, db, sha, changes, report, moved>>
  BY DEF Key
<1>2. TypeInv /\ Kept
  BY DEF GateInv
<1>3. "lookup" \in Places
  BY DEF Places
<1>4. /\ pc' \in [Gates -> Places] /\ pc'[g] = "lookup"
      /\ \A f \in Gates \ {g} : pc'[f] = pc[f]
  BY <1>1, <1>2, <1>3, PlaceKeeps
<1>5. DOMAIN key' = Gates /\ \A f \in Gates \ {g} : key'[f] = key[f]
  BY <1>1, <1>2 DEF TypeInv
<1>6. key'[g] = KeyOf(sha[g], disk, changes[g])
  BY <1>1, <1>2, MeasuredNow DEF TypeInv
<1>7. key'[g].head = sha[g]
  BY <1>6 DEF KeyOf
<1>8. TypeInv'
  BY <1>1, <1>2, <1>4, <1>5, <1>7 DEF TypeInv, repo
<1>9. ~moved[g] => /\ db[g] = head.tree /\ sha[g] = head.rev
                   /\ \E m \in Pairings(head.tree, index) :
                         changes[g] = worktree_changes(head.tree, index, disk, m)
  BY <1>1 DEF GateInv, Gated, Opened, Resolved, Listed
<1>10. Gated(g)'
  BY <1>1, <1>4, <1>6, <1>9 DEF Gated, repo
<1>11. \A f \in Gates \ {g} : Gated(f)'
  BY <1>1, <1>4, <1>5, OthersKeep DEF GateInv
<1>12. Kept'
  BY <1>1, <1>2, KeptKeeps
<1>13. QED
  BY <1>8, <1>10, <1>11, <1>12 DEF GateInv

\* A step that writes the report and nothing else of its gate.
LEMMA ReportKeeps ==
    ASSUME GateInv, NEW g \in Gates, NEW place \in Places, Goto(g, place),
           UNCHANGED <<repo, sidecar, db, sha, changes, key, moved>>,
           DOMAIN report' = Gates, \A f \in Gates \ {g} : report'[f] = report[f], Gated(g)'
    PROVE  GateInv'
<1>1. TypeInv /\ Kept
  BY DEF GateInv
<1>2. /\ pc' \in [Gates -> Places] /\ pc'[g] = place
      /\ \A f \in Gates \ {g} : pc'[f] = pc[f]
  BY <1>1, PlaceKeeps
<1>3. TypeInv'
  BY <1>1, <1>2 DEF TypeInv, repo
<1>4. \A f \in Gates \ {g} : Gated(f)'
  BY <1>2, OthersKeep DEF GateInv
<1>5. Kept'
  BY <1>1, KeptKeeps
<1>6. QED
  BY <1>3, <1>4, <1>5 DEF GateInv

LEMMA HitKeeps == ASSUME GateInv, NEW g \in Gates, Hit(g) PROVE GateInv'
<1>1. /\ Goto(g, "done") /\ UNCHANGED <<repo, sidecar, db, sha, changes, key, moved>>
  BY DEF Hit
<1>2. PICK e \in Stored(key[g]) : report' = [report EXCEPT ![g] = e.report]
  BY DEF Hit
<1>3. "done" \in Places
  BY DEF Places
<1>4. DOMAIN report' = Gates /\ \A f \in Gates \ {g} : report'[f] = report[f]
  BY <1>2 DEF GateInv, TypeInv
<1>5. pc'[g] = "done"
  BY <1>1, <1>3, PlaceKeeps DEF GateInv
<1>6. Gated(g)'
  BY <1>5 DEF Gated, Opened, Resolved, Listed, Keyed
<1>7. QED
  BY <1>1, <1>3, <1>4, <1>6, ReportKeeps

\* What a gate nothing has moved under holds from its lookup on.
LEMMA Holds ==
    ASSUME GateInv, NEW g \in Gates, pc[g] \in Keyed, ~moved[g]
    PROVE  /\ db[g] = head.tree /\ sha[g] = head.rev
           /\ \E m \in Pairings(head.tree, index) :
                 changes[g] = worktree_changes(head.tree, index, disk, m)
           /\ key[g] = KeyOf(head.rev, disk, changes[g])
           /\ pc[g] = "cycles" => report[g] = Half(head.tree, disk, changes[g])
           /\ pc[g] \in {"write", "fill"} => report[g] = Whole(head.tree, disk, changes[g])
<1>1. pc[g] \in Opened /\ pc[g] \in Resolved /\ pc[g] \in Listed
  BY DEF Opened, Resolved, Listed
<1>2. Gated(g)
  BY DEF GateInv
<1>3. QED
  BY <1>1, <1>2 DEF Gated

LEMMA HealthKeeps == ASSUME GateInv, NEW g \in Gates, project_health(g) PROVE GateInv'
<1>1. /\ pc[g] = "lookup" /\ Goto(g, "cycles")
      /\ UNCHANGED <<repo, sidecar, db, sha, changes, key, moved>>
      /\ report' = [report EXCEPT ![g] =
            [changes |-> changes[g], newly |-> {},
             projected |-> complexity_projected(db[g], changes[g]),
             clones |-> clone_introductions(db[g], changes[g])]]
  BY DEF project_health
<1>2. "cycles" \in Places
  BY DEF Places
<1>3. DOMAIN report' = Gates /\ \A f \in Gates \ {g} : report'[f] = report[f]
  BY <1>1 DEF GateInv, TypeInv
<1>4. pc'[g] = "cycles"
  BY <1>1, <1>2, PlaceKeeps DEF GateInv
<1>5. Gated(g)'
  <2>1. SUFFICES ASSUME ~moved[g] PROVE Gated(g)'
    BY <1>1 DEF Gated
  <2>2. /\ db[g] = head.tree /\ sha[g] = head.rev
        /\ \E m \in Pairings(head.tree, index) :
              changes[g] = worktree_changes(head.tree, index, disk, m)
        /\ key[g] = KeyOf(head.rev, disk, changes[g])
    BY <1>1, <2>1, Holds DEF Keyed
  <2>3. report'[g] = [changes |-> changes[g], newly |-> {},
                      projected |-> complexity_projected(db[g], changes[g]),
                      clones |-> clone_introductions(db[g], changes[g])]
    BY <1>1 DEF GateInv, TypeInv
  <2>4. report'[g] = Half(head.tree, disk, changes[g])
    BY <2>2, <2>3, MeasuredNow DEF Half
  <2>5. QED
    BY <1>1, <1>4, <2>2, <2>4 DEF Gated, repo
<1>6. QED
  BY <1>1, <1>2, <1>3, <1>5, ReportKeeps

LEMMA CyclesKeeps == ASSUME GateInv, NEW g \in Gates, project_cycles(g) PROVE GateInv'
<1>1. /\ pc[g] = "cycles" /\ Goto(g, "write")
      /\ UNCHANGED <<repo, sidecar, db, sha, changes, key, moved>>
      /\ report' = [report EXCEPT ![g].newly = newly_cyclic(db[g], changes[g])]
  BY DEF project_cycles
<1>2. "write" \in Places
  BY DEF Places
<1>3. DOMAIN report' = Gates /\ \A f \in Gates \ {g} : report'[f] = report[f]
  BY <1>1 DEF GateInv, TypeInv
<1>4. pc'[g] = "write"
  BY <1>1, <1>2, PlaceKeeps DEF GateInv
<1>5. Gated(g)'
  <2>1. SUFFICES ASSUME ~moved[g] PROVE Gated(g)'
    BY <1>1 DEF Gated
  <2>2. /\ db[g] = head.tree /\ sha[g] = head.rev
        /\ \E m \in Pairings(head.tree, index) :
              changes[g] = worktree_changes(head.tree, index, disk, m)
        /\ key[g] = KeyOf(head.rev, disk, changes[g])
        /\ report[g] = Half(head.tree, disk, changes[g])
    BY <1>1, <2>1, Holds DEF Keyed
  <2>3. report'[g] = [report[g] EXCEPT !.newly = newly_cyclic(db[g], changes[g])]
    BY <1>1 DEF GateInv, TypeInv
  <2>4. report'[g] = Whole(head.tree, disk, changes[g])
    BY <2>2, <2>3, MeasuredNow DEF Whole
  <2>5. QED
    BY <1>1, <1>4, <2>2, <2>4 DEF Gated, repo
<1>6. QED
  BY <1>1, <1>2, <1>3, <1>5, ReportKeeps
\* A step that writes the sidecar and nothing else of its gate.
LEMMA SidecarKeeps ==
    ASSUME GateInv, NEW g \in Gates, NEW place \in {"fill", "done"}, Goto(g, place),
           UNCHANGED <<repo, db, sha, changes, key, report, moved>>,
           pc[g] = "write" \/ place = "done", Kept'
    PROVE  GateInv'
<1>1. TypeInv
  BY DEF GateInv
<1>2. place \in Places
  BY DEF Places
<1>3. /\ pc' \in [Gates -> Places] /\ pc'[g] = place
      /\ \A f \in Gates \ {g} : pc'[f] = pc[f]
  BY <1>1, <1>2, PlaceKeeps
<1>4. TypeInv'
  BY <1>1, <1>3 DEF TypeInv, repo
<1>5. Gated(g)'
  <2>1. CASE place = "done"
    BY <1>3, <2>1 DEF Gated, Opened, Resolved, Listed, Keyed
  <2>2. CASE pc[g] = "write" /\ place = "fill"
    <3>1. SUFFICES ASSUME ~moved[g] PROVE Gated(g)'
      BY DEF Gated
    <3>2. pc[g] \in Keyed
      BY <2>2 DEF Keyed
    <3>3. QED
      BY <1>3, <2>2, <3>1, <3>2, Holds DEF Gated, repo
  <2>3. QED
    BY <2>1, <2>2
<1>6. \A f \in Gates \ {g} : Gated(f)'
  BY <1>3, OthersKeep DEF GateInv
<1>7. QED
  BY <1>4, <1>5, <1>6 DEF GateInv

LEMMA TruncateKeeps == ASSUME GateInv, NEW g \in Gates, Truncate(g) PROVE GateInv'
<1>1. /\ pc[g] = "write" /\ Goto(g, "fill")
      /\ sidecar' = [k \in DOMAIN sidecar \cup {key[g]} |-> IF k = key[g] THEN {} ELSE sidecar[k]]
      /\ UNCHANGED <<repo, db, sha, changes, key, report, moved>>
  BY DEF Truncate
<1>2. /\ DOMAIN sidecar' = {key[g]} \cup DOMAIN sidecar /\ sidecar'[key[g]] = {}
      /\ \A k \in DOMAIN sidecar : k # key[g] => sidecar'[k] = sidecar[k]
  BY <1>1
<1>3. key[g].head \in 0 .. head.rev
  BY DEF GateInv, TypeInv
<1>4. head' = head
  BY <1>1 DEF repo
<1>5. Kept
  BY DEF GateInv
<1>6. Kept'
  <2>1. ASSUME NEW k \in DOMAIN sidecar'
        PROVE  /\ k.head \in 0 .. head.rev
               /\ \A e \in sidecar'[k] : e.still /\ k.head = head.rev => Told(head.tree, k, e)
    <3>1. CASE k = key[g]
      BY <1>2, <1>3, <3>1
    <3>2. CASE k # key[g]
      BY <1>2, <1>5, <2>1, <3>2 DEF Kept
    <3>3. QED
      BY <3>1, <3>2
  <2>2. QED
    BY <1>4, <2>1 DEF Kept
<1>7. QED
  BY <1>1, <1>6, SidecarKeeps

LEMMA FillKeeps == ASSUME GateInv, NEW g \in Gates, Fill(g) PROVE GateInv'
<1>1. /\ pc[g] = "fill" /\ Goto(g, "done")
      /\ UNCHANGED <<repo, db, sha, changes, key, report, moved>>
  BY DEF Fill
<1>2. PICK stored \in {{Entry(g)}} \cup {{}} : sidecar' = [sidecar EXCEPT ![key[g]] = stored]
  BY DEF Fill
<1>3. head' = head
  BY <1>1 DEF repo
<1>4. Kept
  BY DEF GateInv
<1>5. ASSUME NEW e \in stored, e.still, key[g].head = head.rev
      PROVE  Told(head.tree, key[g], e)
  <2>1. e = Entry(g)
    BY <1>2, <1>5
  <2>2. /\ e.report = report[g] /\ e.still = ~moved[g]
        /\ e.beside = Untracked(head.tree, index, disk)
    BY <2>1 DEF Entry
  <2>3. pc[g] \in Keyed
    BY <1>1 DEF Keyed
  <2>4. /\ \E m \in Pairings(head.tree, index) :
              changes[g] = worktree_changes(head.tree, index, disk, m)
        /\ key[g] = KeyOf(head.rev, disk, changes[g])
        /\ report[g] = Whole(head.tree, disk, changes[g])
    BY <1>1, <1>5, <2>2, <2>3, Holds
  <2>5. PICK m \in Pairings(head.tree, index) :
           changes[g] = worktree_changes(head.tree, index, disk, m)
    BY <2>4
  <2>6. index \in Trees /\ disk \in Trees
    BY DEF GateInv, TypeInv
  <2>7. /\ key[g] = KeyOf(key[g].head, disk, worktree_changes(head.tree, index, disk, m))
        /\ e.report = Whole(head.tree, disk, worktree_changes(head.tree, index, disk, m))
    BY <1>5, <2>2, <2>4, <2>5
  <2>8. QED
    BY <2>2, <2>6, <2>7 DEF Told
<1>6. Kept'
  <2>1. DOMAIN sidecar' = DOMAIN sidecar
    BY <1>2
  <2>2. ASSUME NEW k \in DOMAIN sidecar
        PROVE  /\ k.head \in 0 .. head.rev
               /\ \A e \in sidecar'[k] : e.still /\ k.head = head.rev => Told(head.tree, k, e)
    <3>1. k.head \in 0 .. head.rev
      BY <1>4 DEF Kept
    <3>2. CASE k = key[g]
      <4>1. sidecar'[k] = stored
        BY <1>2, <2>2, <3>2
      <4>2. QED
        BY <1>5, <3>1, <3>2, <4>1
    <3>3. CASE k # key[g]
      <4>1. sidecar'[k] = sidecar[k]
        BY <1>2, <2>2, <3>3
      <4>2. QED
        BY <1>4, <2>2, <4>1 DEF Kept
    <3>4. QED
      BY <3>2, <3>3
  <2>3. QED
    BY <1>3, <2>1, <2>2 DEF Kept
<1>7. QED
  BY <1>1, <1>6, SidecarKeeps

LEMMA GateKeeps == ASSUME GateInv, NEW g \in Gates, Gate(g) PROVE GateInv'
<1>1. CASE OpenFacts(g)
  BY <1>1, OpenFactsKeeps
<1>2. CASE Look(g)
  BY <1>2, LookKeepsInv
<1>3. CASE ResolveHead(g)
  BY <1>3, ResolveHeadKeeps
<1>4. CASE Enumerate(g)
  BY <1>4, EnumerateKeeps
<1>5. CASE Key(g)
  BY <1>5, KeyKeeps
<1>6. CASE Hit(g)
  BY <1>6, HitKeeps
<1>7. CASE project_health(g)
  BY <1>7, HealthKeeps
<1>8. CASE project_cycles(g)
  BY <1>8, CyclesKeeps
<1>9. CASE ReadFails(g)
  BY <1>9, EndKeeps DEF ReadFails
<1>10. CASE Truncate(g)
  BY <1>10, TruncateKeeps
<1>11. CASE Fill(g)
  BY <1>11, FillKeeps
<1>12. CASE WriteFails(g)
  BY <1>12, EndKeeps DEF WriteFails
<1>13. CASE Kill(g)
  BY <1>13, EndKeeps DEF Kill
<1>14. QED
  BY <1>1, <1>2, <1>3, <1>4, <1>5, <1>6, <1>7, <1>8, <1>9, <1>10, <1>11, <1>12, <1>13 DEF Gate

LEMMA StillKeeps == ASSUME GateInv, UNCHANGED vars PROVE GateInv'
<1>1. /\ UNCHANGED <<head, index, disk, edits, calls, sidecar>>
      /\ UNCHANGED <<pc, db, sha, changes, key, report, moved>>
  BY DEF vars, repo, gates
<1>2. TypeInv'
  BY <1>1 DEF GateInv, TypeInv
<1>3. \A g \in Gates : Gated(g)'
  BY <1>1 DEF GateInv, Gated
<1>4. Kept'
  BY <1>1 DEF GateInv, Kept
<1>5. QED
  BY <1>2, <1>3, <1>4 DEF GateInv

LEMMA InvHolds == Spec => []GateInv
<1>1. GateInv /\ [Next]_vars => GateInv'
  BY UserKeeps, GateKeeps, StillKeeps DEF Next
<1>2. QED
  BY <1>1, InitInv, PTL DEF Spec

\* A change set names a path once, and none that neither HEAD nor the disk had,
\* on any tree and however the index and the disk differ (net_classify_candidates).
THEOREM TypeCorrect == Spec => []TypeOK
  BY InvHolds, InvType, PTL

-----------------------------------------------------------------------------
(* What is reported.                                                        *)

LEMMA OneGateSteps ==
    ASSUME GateInv, [Next]_vars, NEW g \in Gates, pc'[g] # pc[g]
    PROVE  Gate(g)
<1>1. PICK f \in Gates : Gate(f)
  BY DEF Next, vars, gates, User, Write, Delete, Add, Commit, Edit
<1>2. \E place : Goto(f, place)
  BY <1>1 DEF Gate, OpenFacts, Look, ResolveHead, Enumerate, Key, Hit, project_health,
              project_cycles, ReadFails, Truncate, Fill, WriteFails, Kill
<1>3. f = g
  BY <1>2 DEF Goto, GateInv, TypeInv
<1>4. QED
  BY <1>1, <1>3

LEMMA PlaceIs == ASSUME GateInv, NEW g \in Gates, NEW place, Goto(g, place) PROVE pc'[g] = place
  BY DEF Goto, GateInv, TypeInv

\* The files newly on a cycle are those an ingest of the working tree would find
\* (project_cycles, in three parts), for every tree and every order of names.
THEOREM NewlyCyclicFound == Spec => NewlyCyclicAreFound
<1>1. ASSUME GateInv, [Next]_vars, NEW g \in Gates,
             pc[g] = "cycles", pc'[g] = "write", ~moved[g],
             ImportsSettled(changes[g]), SourcesGone(changes[g])
      PROVE  report'[g].newly = OnCycle(Now) \ OnCycle(head.tree)
  <2>1. project_cycles(g)
    <3>1. Gate(g)
      BY <1>1, OneGateSteps
    <3>2. QED
      BY <1>1, <3>1 DEF Gate, OpenFacts, Look, ResolveHead, Enumerate, Key, Hit, project_health,
                        ReadFails, Truncate, Fill, WriteFails, Kill, Goto, GateInv, TypeInv
  <2>2. db[g] = head.tree
    BY <1>1, Holds DEF Keyed
  <2>3. PICK m \in Pairings(head.tree, index) :
           changes[g] = worktree_changes(head.tree, index, disk, m)
    BY <1>1, Holds DEF Keyed
  <2>4. report[g] = Half(head.tree, disk, changes[g])
    BY <1>1, Holds DEF Keyed
  <2>5. report'[g] = [report[g] EXCEPT !.newly = newly_cyclic(db[g], changes[g])]
    BY <1>1, <2>1 DEF project_cycles, GateInv, TypeInv
  <2>6. report'[g].newly = NewlyAt(head.tree, disk, changes[g])
    BY <2>2, <2>4, <2>5, MeasuredNow DEF Half
  <2>7. head.tree \in Trees /\ index \in Trees /\ disk \in Trees
    BY <1>1 DEF GateInv, TypeInv
  <2>8. Sources(changes[g]) \cap Files(disk) = {}
    BY <1>1 DEF SourcesGone
  <2>9. \A row \in Imports(head.tree) :
           row.src \notin changed_set_paths(changes[g]) /\ row.path # NoPath
           => resolve(row.target, Files(Now)) \in {row.path, NoPath}
    BY <1>1 DEF ImportsSettled
  <2>10. NewlyAt(head.tree, disk, changes[g]) = OnCycle(Now) \ OnCycle(head.tree)
    BY <2>3, <2>7, <2>8, <2>9, NewlyIs DEF Now
  <2>11. QED
    BY <2>6, <2>10
<1>2. GateInv /\ [Next]_vars =>
        [\A g \in Gates :
           /\ pc[g] = "cycles" /\ pc'[g] = "write" /\ ~moved[g]
           /\ ImportsSettled(changes[g]) /\ SourcesGone(changes[g])
           => report'[g].newly = OnCycle(Now) \ OnCycle(head.tree)]_vars
  BY <1>1
<1>3. QED
  BY <1>2, InvHolds, PTL DEF Spec, NewlyCyclicAreFound

\* How a gate comes to its end with a report.
LEMMA DoneBy ==
    ASSUME GateInv, NEW g \in Gates, Gate(g), pc[g] # "done", pc'[g] = "done"
    PROVE  Hit(g) \/ (pc[g] \in {"write", "fill"} /\ report'[g] = report[g])
<1>1. CASE OpenFacts(g)
  <2>1. pc'[g] \in {"opened", "resolve"}
    BY <1>1, PlaceIs DEF OpenFacts
  <2>2. QED
    BY <2>1
<1>2. CASE Look(g)
  <2>1. pc'[g] \in {"clean", "looked", "resolve"}
    BY <1>2, PlaceIs DEF Look
  <2>2. QED
    BY <2>1
<1>3. CASE ResolveHead(g)
  BY <1>3, PlaceIs DEF ResolveHead
<1>4. CASE Enumerate(g)
  BY <1>4, PlaceIs DEF Enumerate
<1>5. CASE Key(g)
  BY <1>5, PlaceIs DEF Key
<1>6. CASE project_health(g)
  BY <1>6, PlaceIs DEF project_health
<1>7. CASE project_cycles(g)
  BY <1>7, PlaceIs DEF project_cycles
<1>8. CASE ReadFails(g)
  BY <1>8, PlaceIs DEF ReadFails
<1>9. CASE Truncate(g)
  BY <1>9, PlaceIs DEF Truncate
<1>10. CASE Fill(g) \/ WriteFails(g)
  BY <1>10 DEF Fill, WriteFails
<1>11. CASE Kill(g)
  BY <1>11, PlaceIs DEF Kill
<1>12. QED
  BY <1>1, <1>2, <1>3, <1>4, <1>5, <1>6, <1>7, <1>8, <1>9, <1>10, <1>11 DEF Gate

LEMMA HitDescribes ==
    ASSUME GateInv, NEW g \in Gates, pc[g] = "lookup", Hit(g), ~moved[g],
           \A e \in Stored(key[g]) : e.still /\ e.beside = Untracked(head.tree, index, disk)
    PROVE  /\ report'[g].projected = Now
           /\ report'[g].clones = Present(changes[g]) \cap (Cloned(disk) \ Cloned(head.tree))
           /\ SourcesGone(report'[g].changes) /\ SourcesGone(changes[g])
                => report'[g].newly = newly_cyclic(head.tree, changes[g])
<1>1. PICK e \in Stored(key[g]) : report' = [report EXCEPT ![g] = e.report]
  BY DEF Hit
<1>2. report'[g] = e.report
  BY <1>1 DEF GateInv, TypeInv
<1>3. key[g] \in DOMAIN sidecar /\ e \in sidecar[key[g]]
  BY <1>1 DEF Stored
<1>4. /\ \E m \in Pairings(head.tree, index) :
            changes[g] = worktree_changes(head.tree, index, disk, m)
      /\ key[g] = KeyOf(head.rev, disk, changes[g])
  BY Holds DEF Keyed
<1>5. key[g].head = head.rev
  BY <1>4 DEF KeyOf
<1>6. Told(head.tree, key[g], e)
  BY <1>1, <1>3, <1>5 DEF GateInv, Kept
<1>7. PICK j \in Trees, d \in Trees : \E n \in Pairings(head.tree, j) :
         /\ key[g] = KeyOf(key[g].head, d, worktree_changes(head.tree, j, d, n))
         /\ e.beside = Untracked(head.tree, j, d)
         /\ e.report = Whole(head.tree, d, worktree_changes(head.tree, j, d, n))
  BY <1>6 DEF Told
<1>8. PICK n \in Pairings(head.tree, j) :
         /\ key[g] = KeyOf(key[g].head, d, worktree_changes(head.tree, j, d, n))
         /\ e.beside = Untracked(head.tree, j, d)
         /\ e.report = Whole(head.tree, d, worktree_changes(head.tree, j, d, n))
  BY <1>7
<1>9. PICK m \in Pairings(head.tree, index) :
         changes[g] = worktree_changes(head.tree, index, disk, m)
  BY <1>4
<1> DEFINE cs == changes[g]
           bs == worktree_changes(head.tree, j, d, n)
           h == head.tree
<1>10. h \in Trees /\ index \in Trees /\ disk \in Trees
  BY DEF GateInv, TypeInv
<1>11. KeyOf(head.rev, disk, cs) = KeyOf(head.rev, d, bs)
  BY <1>4, <1>5, <1>8
<1>12. Untracked(h, index, disk) = Untracked(h, j, d)
  BY <1>1, <1>8
<1>13. bs = worktree_changes(h, j, d, n) /\ cs = worktree_changes(h, index, disk, m)
  BY <1>9
<1>14. e.report = Whole(h, d, bs)
  BY <1>8
<1> HIDE DEF cs, bs, h
<1>15. /\ disk = d /\ Present(cs) = Present(bs)
       /\ ProjectedAt(h, disk, cs) = ProjectedAt(h, d, bs)
       /\ Sources(cs) \cap Files(disk) = {} /\ Sources(bs) \cap Files(disk) = {} =>
             NewlyAt(h, disk, cs) = NewlyAt(h, d, bs)
  BY <1>8, <1>9, <1>7, <1>10, <1>11, <1>12, <1>13, SameKey DEF h
<1>16. /\ e.report.projected = ProjectedAt(h, d, bs) /\ e.report.clones = ClonesAt(h, d, bs)
       /\ e.report.newly = NewlyAt(h, d, bs) /\ e.report.changes = bs
  BY <1>14 DEF Whole, Half
<1>17. ProjectedAt(h, disk, cs) = Now
  BY <1>9, <1>10, <1>13, ProjectedIs DEF Now, h
<1>18. ClonesAt(h, d, bs) = Present(cs) \cap (Cloned(disk) \ Cloned(h))
  BY <1>15 DEF ClonesAt
<1>19. newly_cyclic(h, cs) = NewlyAt(h, disk, cs)
  BY MeasuredNow DEF h
<1>20. SourcesGone(e.report.changes) /\ SourcesGone(cs) => e.report.newly = newly_cyclic(h, cs)
  BY <1>15, <1>16, <1>19 DEF SourcesGone
<1>21. QED
  BY <1>2, <1>15, <1>16, <1>17, <1>18, <1>20 DEF cs, h

\* A report, measured or served from a sidecar of any run before, describes the
\* working tree of its call: its head and the changed files' contents, which are
\* its key, with what is untracked, leave no other (cache::report_key).
THEOREM ReportDescribes == Spec => ReportDescribesTheTree
<1>1. ASSUME GateInv, [Next]_vars, NEW g \in Gates,
             pc[g] # "done", pc'[g] = "done", ~moved[g],
             pc[g] = "lookup" => \A e \in Stored(key[g]) :
                                    e.still /\ e.beside = Untracked(head.tree, index, disk)
      PROVE  /\ report'[g].projected = Now
             /\ report'[g].clones = Present(changes[g]) \cap (Cloned(disk) \ Cloned(head.tree))
             /\ SourcesGone(report'[g].changes) /\ SourcesGone(changes[g])
                  => report'[g].newly = newly_cyclic(head.tree, changes[g])
  <2>1. Gate(g)
    BY <1>1, OneGateSteps
  <2>2. CASE Hit(g)
    <3>1. pc[g] = "lookup"
      BY <2>2 DEF Hit
    <3>2. QED
      BY <1>1, <2>2, <3>1, HitDescribes
  <2>3. CASE pc[g] \in {"write", "fill"} /\ report'[g] = report[g]
    <3>1. report'[g] = Whole(head.tree, disk, changes[g])
      BY <1>1, <2>3, Holds DEF Keyed
    <3>2. PICK m \in Pairings(head.tree, index) :
             changes[g] = worktree_changes(head.tree, index, disk, m)
      BY <1>1, <2>3, Holds DEF Keyed
    <3>3. head.tree \in Trees /\ index \in Trees /\ disk \in Trees
      BY <1>1 DEF GateInv, TypeInv
    <3>4. report'[g].projected = Now
      BY <3>1, <3>2, <3>3, ProjectedIs DEF Now, Whole, Half
    <3>5. report'[g].clones = ClonesAt(head.tree, disk, changes[g])
      BY <3>1 DEF Whole, Half
    <3>6. report'[g].newly = newly_cyclic(head.tree, changes[g])
      BY <3>1, MeasuredNow DEF Whole, Half
    <3>7. QED
      BY <3>4, <3>5, <3>6 DEF ClonesAt
  <2>4. QED
    BY <1>1, <2>1, <2>2, <2>3, DoneBy
<1>2. GateInv /\ [Next]_vars =>
        [\A g \in Gates :
           /\ pc[g] # "done" /\ pc'[g] = "done" /\ ~moved[g]
           /\ pc[g] = "lookup" => \A e \in Stored(key[g]) :
                                      e.still /\ e.beside = Untracked(head.tree, index, disk)
           => /\ report'[g].projected = Now
              /\ report'[g].clones = Present(changes[g]) \cap (Cloned(disk) \ Cloned(head.tree))
              /\ SourcesGone(report'[g].changes) /\ SourcesGone(changes[g])
                   => report'[g].newly = newly_cyclic(head.tree, changes[g])]_vars
  BY <1>1
<1>3. QED
  BY <1>2, InvHolds, PTL DEF Spec, ReportDescribesTheTree

=================================================================================
