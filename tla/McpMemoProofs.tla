---------------------------- MODULE McpMemoProofs ----------------------------
(***************************************************************************)
(* What the memo and its permits keep for every number of calls, questions, *)
(* permits and changes of the repository, and every capacity.               *)
(***************************************************************************)
EXTENDS McpMemo, FiniteSetTheorems, TLAPS

-----------------------------------------------------------------------------
(* Permits.  A permit is out exactly for each busy call.  A call waits in   *)
(* one place of the queue, so it is admitted once.                          *)

QueueInv ==
    /\ \A i \in 1 .. Len(waiting) : pc[waiting[i]] = "waiting"
    /\ \A i, j \in 1 .. Len(waiting) : waiting[i] = waiting[j] => i = j

TypeInv == Types /\ QueueInv /\ IsFiniteSet(Busy)

\* What is about to be stored is a result.
PutInv == \A c \in Calls : pc[c] = "put" => answer[c] \in Results

LEMMA KeyType == ASSUME Types, NEW c \in Calls PROVE KeyOf(c) \in Keys
  BY McpAssumption DEF Types, KeyOf, Keys

LEMMA ArtifactType == ASSUME Types PROVE artifact \in Artifacts
  BY McpAssumption DEF Types, Artifacts

LEMMA ResultType == ASSUME Types, NEW c \in Calls PROVE Result(c) \in Results
  BY ArtifactType DEF Types, Result, Results

\* A call that goes from one busy place to another leaves the permits alone.
LEMMA StaysBusy ==
    ASSUME TypeInv, NEW c \in Calls, pc[c] \in Running,
           NEW l \in Running, Goto(c, l), UNCHANGED <<waiting, permits>>
    PROVE  /\ pc' \in [Calls -> Running \cup {"idle", "waiting", "answered"}]
           /\ Busy' = Busy /\ QueueInv'
<1>1. pc' = [pc EXCEPT ![c] = l] /\ pc \in [Calls -> Running \cup {"idle", "waiting", "answered"}]
  BY DEF Goto, TypeInv, Types
<1>2. Busy' = Busy
  BY <1>1 DEF Busy
<1>3. \A i \in 1 .. Len(waiting) : waiting[i] # c
  BY DEF TypeInv, QueueInv, Running
<1>4. QueueInv'
  BY <1>1, <1>3 DEF TypeInv, Types, QueueInv
<1>5. QED
  BY <1>1, <1>2, <1>4

\* A call that ends gives its permit back.
LEMMA EndsType ==
    ASSUME TypeInv, NEW c \in Calls, pc[c] \in Running,
           NEW r \in Results \cup {Error}, Ends(c, r), UNCHANGED waiting
    PROVE  /\ pc' \in [Calls -> Running \cup {"idle", "waiting", "answered"}]
           /\ answer' \in [Calls -> Results \cup {Error}]
           /\ permits' \in Nat /\ permits' + Cardinality(Busy') = MAX_CONCURRENT_CALLS
           /\ QueueInv' /\ IsFiniteSet(Busy')
<1>1. /\ pc' = [pc EXCEPT ![c] = "answered"]
      /\ pc \in [Calls -> Running \cup {"idle", "waiting", "answered"}]
      /\ answer' = [answer EXCEPT ![c] = r] /\ permits' = permits + 1
  BY DEF Ends, Goto, TypeInv, Types
<1>2. Busy' = Busy \ {c} /\ c \in Busy
  BY <1>1 DEF Busy, Running
<1>3. Cardinality(Busy') = Cardinality(Busy) - 1 /\ IsFiniteSet(Busy')
  BY <1>2, FS_RemoveElement DEF TypeInv
<1>4. Cardinality(Busy) \in Nat
  BY FS_CardinalityType DEF TypeInv
<1>5. \A i \in 1 .. Len(waiting) : waiting[i] # c
  BY DEF TypeInv, QueueInv, Running
<1>6. QueueInv'
  BY <1>1, <1>5 DEF TypeInv, Types, QueueInv
<1>7. QED
  BY <1>1, <1>3, <1>4, <1>6 DEF TypeInv, Types

\* A table of results with one more entry is one.
LEMMA WithType ==
    ASSUME NEW f, DOMAIN f \subseteq Keys, Range(f) \subseteq Results,
           NEW k \in Keys, NEW r \in Results
    PROVE  /\ DOMAIN With(f, k, r) = DOMAIN f \cup {k}
           /\ Range(With(f, k, r)) \subseteq Results
  BY DEF With, Range

LEMMA EmptyTable == DOMAIN <<>> = {} /\ Range(<<>>) = {}
  BY DEF Range

LEMMA TypeStep == ASSUME TypeInv, PutInv, [Next]_vars PROVE TypeInv'
<1> USE McpAssumption
<1> USE DEF TypeInv
<1>1. ASSUME NEW c \in Calls, Request(c) PROVE TypeInv'
  <2>1. /\ pc[c] = "idle" /\ pc' = [pc EXCEPT ![c] = "waiting"]
        /\ waiting' = Append(waiting, c) /\ permits' = permits
    BY <1>1 DEF Request, Goto
  <2>2. Busy' = Busy
    BY <2>1 DEF Busy, Types, Running
  <2>3. \A i \in 1 .. Len(waiting) : waiting[i] # c
    BY <2>1 DEF QueueInv
  <2>4. QueueInv'
    BY <2>1, <2>3 DEF QueueInv, Types
  <2>5. Types'
    BY <1>1, <2>1, <2>2 DEF Request, Types, repo, memo
  <2>6. QED
    BY <2>2, <2>4, <2>5
<1>2. ASSUME NEW c \in Calls, Admit(c) PROVE TypeInv'
  <2>1. /\ waiting # <<>> /\ c = waiting[1] /\ permits > 0
        /\ permits' = permits - 1 /\ waiting' = Tail(waiting)
        /\ pc' = [pc EXCEPT ![c] = "probe"]
    BY <1>2 DEF Admit, Goto, Types
  <2>2. pc[c] = "waiting"
    BY <2>1 DEF QueueInv, Types
  <2>3. Busy' = Busy \cup {c} /\ c \notin Busy
    BY <2>1, <2>2 DEF Busy, Types, Running
  <2>4. /\ Cardinality(Busy') = Cardinality(Busy) + 1 /\ IsFiniteSet(Busy')
        /\ Cardinality(Busy) \in Nat
    BY <2>3, FS_AddElement, FS_CardinalityType
  <2>5. QueueInv'
    <3>1. /\ Len(waiting') = Len(waiting) - 1 /\ Len(waiting) \in Nat
          /\ \A i \in 1 .. Len(waiting') : waiting'[i] = waiting[i + 1] /\ i + 1 \in 1 .. Len(waiting)
      BY <2>1 DEF Types
    <3>2. \A i \in 1 .. Len(waiting') : waiting'[i] # c
      BY <2>1, <3>1 DEF QueueInv
    <3>3. \A i \in 1 .. Len(waiting') : pc'[waiting'[i]] = "waiting"
      BY <2>1, <3>1, <3>2 DEF QueueInv, Types
    <3>4. \A i, j \in 1 .. Len(waiting') : waiting'[i] = waiting'[j] => i = j
      BY <3>1 DEF QueueInv
    <3>5. QED
      BY <3>3, <3>4 DEF QueueInv
  <2>6. Types'
    BY <1>2, <2>1, <2>4 DEF Admit, Types, repo, memo, Running
  <2>7. QED
    BY <2>4, <2>5, <2>6
<1>3. ASSUME NEW c \in Calls, Probe(c) PROVE TypeInv'
  <2>1. pc[c] \in Running /\ "resolve" \in Running /\ Goto(c, "resolve")
        /\ UNCHANGED <<waiting, permits>>
    BY <1>3 DEF Probe, Running
  <2>2. QED
    BY <1>3, <2>1, StaysBusy, ArtifactType DEF Probe, Types, repo, memo
<1>4. ASSUME NEW c \in Calls, Resolve(c) PROVE TypeInv'
  <2>1. \E l \in Running : pc[c] \in Running /\ Goto(c, l) /\ UNCHANGED <<waiting, permits>>
    BY <1>4 DEF Resolve, Running
  <2>2. QED
    BY <1>4, <2>1, StaysBusy DEF Resolve, Types, repo, memo
<1>5. ASSUME NEW c \in Calls, Get(c) PROVE TypeInv'
  <2>1. /\ memoHead' \in Shas \cup {NoSha}
        /\ DOMAIN entries' \subseteq Keys /\ Range(entries') \subseteq Results
    BY <1>5, EmptyTable DEF Get, Types
  <2>2. pc[c] \in Running /\ waiting' = waiting
    BY <1>5 DEF Get, Running
  <2>3. CASE memoHead = sha[c] /\ KeyOf(c) \in DOMAIN entries
    <3>1. entries[KeyOf(c)] \in Results
      BY <2>3 DEF Types, Range
    <3>2. Ends(c, entries[KeyOf(c)])
      BY <1>5, <2>3 DEF Get
    <3>3. QED
      BY <1>5, <2>1, <2>2, <3>1, <3>2, EndsType DEF Get, Types, repo
  <2>4. CASE ~(memoHead = sha[c] /\ KeyOf(c) \in DOMAIN entries)
    <3>1. Goto(c, "open") /\ UNCHANGED <<permits, answer>> /\ "open" \in Running
      BY <1>5, <2>4 DEF Get, Running
    <3>2. QED
      BY <1>5, <2>1, <2>2, <3>1, StaysBusy DEF Get, Types, repo
  <2>5. QED
    BY <2>3, <2>4
<1>6. ASSUME NEW c \in Calls, OpenFacts(c) PROVE TypeInv'
  <2>1. pc[c] \in Running /\ "analyse" \in Running /\ Goto(c, "analyse")
        /\ UNCHANGED <<waiting, permits>>
    BY <1>6 DEF OpenFacts, Running
  <2>2. QED
    BY <1>6, <2>1, StaysBusy DEF OpenFacts, Types, repo, memo
<1>7. ASSUME NEW c \in Calls, Analyse(c) PROVE TypeInv'
  <2>1. pc[c] \in Running /\ waiting' = waiting /\ Result(c) \in Results
    BY <1>7, ResultType DEF Analyse, Running
  <2>2. CASE Ends(c, Result(c))
    BY <1>7, <2>1, <2>2, EndsType DEF Analyse, Types, repo, memo
  <2>3. CASE Goto(c, "put") /\ answer' = [answer EXCEPT ![c] = Result(c)] /\ UNCHANGED permits
    <3>1. "put" \in Running
      BY DEF Running
    <3>2. QED
      BY <1>7, <2>1, <2>3, <3>1, StaysBusy DEF Analyse, Types, repo, memo
  <2>4. QED
    BY <1>7, <2>2, <2>3 DEF Analyse
<1>8. ASSUME NEW c \in Calls, Fails(c) PROVE TypeInv'
  <2>1. pc[c] \in Running /\ waiting' = waiting /\ Ends(c, Error)
    BY <1>8 DEF Fails, Running
  <2>2. QED
    BY <1>8, <2>1, EndsType DEF Fails, Types, repo, memo
<1>9. ASSUME NEW c \in Calls, Put(c) PROVE TypeInv'
  <2>0. answer[c] \in Results
    BY <1>9 DEF Put, PutInv
  <2>1. pc[c] \in Running /\ waiting' = waiting /\ Ends(c, answer[c])
    BY <1>9 DEF Put, Running
  <2>2. DOMAIN entries' \subseteq Keys /\ Range(entries') \subseteq Results
    <3>1. CASE memoHead # sha[c]
      BY <1>9, <3>1 DEF Put, Types
    <3>2. CASE memoHead = sha[c]
      <4> DEFINE f == IF Full(KeyOf(c)) THEN <<>> ELSE entries
      <4>1. DOMAIN f \subseteq Keys /\ Range(f) \subseteq Results
        BY EmptyTable DEF Types
      <4>2. entries' = With(f, KeyOf(c), answer[c])
        BY <1>9, <3>2 DEF Put
      <4>3. KeyOf(c) \in Keys
        BY KeyType
      <4> HIDE DEF f
      <4>4. /\ DOMAIN With(f, KeyOf(c), answer[c]) = DOMAIN f \cup {KeyOf(c)}
            /\ Range(With(f, KeyOf(c), answer[c])) \subseteq Results
        BY <2>0, <4>1, <4>3, WithType
      <4>5. QED
        BY <4>1, <4>2, <4>3, <4>4
    <3>3. QED
      BY <3>1, <3>2
  <2>3. QED
    BY <1>9, <2>0, <2>1, <2>2, EndsType DEF Put, Types, repo
<1>10. CASE MoveHead \/ Regenerate
  <2>1. UNCHANGED <<waiting, permits, pc>>
    BY <1>10 DEF MoveHead, Regenerate, Moves
  <2>2. Busy' = Busy /\ QueueInv'
    BY <2>1 DEF Busy, QueueInv
  <2>3. moved' \in [Calls -> BOOLEAN]
    BY <1>10, Zenon DEF MoveHead, Regenerate, Moves
  <2>4. /\ moves' \in 0 .. MaxMoves /\ artifact' \in 0 .. moves' /\ head' \in Shas
        /\ UNCHANGED <<probe, sha, facts, answer, memoHead, entries>>
    BY <1>10 DEF MoveHead, Regenerate, Moves, Types, memo
  <2>5. Types'
    BY <2>1, <2>2, <2>3, <2>4 DEF Types
  <2>6. QED
    BY <2>2, <2>5
<1>11. CASE UNCHANGED vars
  <2>1. UNCHANGED <<repo, waiting, permits, pc, probe, sha, facts, moved, answer, memo>>
    BY <1>11 DEF vars
  <2>2. Busy' = Busy /\ QueueInv'
    BY <2>1 DEF Busy, QueueInv
  <2>3. QED
    BY <2>1, <2>2 DEF Types, repo, memo
<1>12. QED
  BY <1>1, <1>2, <1>3, <1>4, <1>5, <1>6, <1>7, <1>8, <1>9, <1>10, <1>11 DEF Next, Serve

LEMMA PutStep == ASSUME TypeInv, PutInv, [Next]_vars PROVE PutInv'
<1> USE DEF TypeInv, PutInv
<1>1. ASSUME NEW c \in Calls, Request(c) \/ Serve(c) PROVE PutInv'
  <2>1. \A d \in Calls : d # c => pc'[d] = pc[d] /\ answer'[d] = answer[d]
    BY <1>1 DEF Request, Serve, Admit, Probe, Resolve, Get, OpenFacts, Analyse, Fails, Put,
                Ends, Goto, Types
  <2>2. pc'[c] = "put" => answer'[c] \in Results
    <3>1. CASE Analyse(c)
      BY <3>1, ResultType DEF Analyse, Ends, Goto, Types
    <3>2. CASE ~Analyse(c)
      BY <1>1, <3>2 DEF Request, Serve, Admit, Probe, Resolve, Get, OpenFacts, Fails, Put,
                        Ends, Goto, Types
    <3>3. QED
      BY <3>1, <3>2
  <2>3. QED
    BY <2>1, <2>2
<1>2. CASE MoveHead \/ Regenerate \/ UNCHANGED vars
  BY <1>2 DEF MoveHead, Regenerate, Moves, vars
<1>3. QED
  BY <1>1, <1>2 DEF Next

LEMMA TypeInvHolds == Spec => [](TypeInv /\ PutInv)
<1>1. Init => TypeInv /\ PutInv
  <2> SUFFICES ASSUME Init PROVE TypeInv /\ PutInv
    OBVIOUS
  <2>1. Busy = {} /\ IsFiniteSet(Busy) /\ Cardinality(Busy) = 0
    BY FS_EmptySet DEF Init, Busy, Running
  <2>2. QED
    BY <2>1, EmptyTable, McpAssumption DEF Init, TypeInv, Types, QueueInv, PutInv, Artifacts
<1>2. TypeInv /\ PutInv /\ [Next]_vars => TypeInv' /\ PutInv'
  BY TypeStep, PutStep
<1>3. QED
  BY <1>1, <1>2, PTL DEF Spec

-----------------------------------------------------------------------------
(* The bound.  An entry is added to a full table only after it is emptied.  *)

BoundInv == IsFiniteSet(DOMAIN entries) /\ Cardinality(DOMAIN entries) <= MEMO_CAPACITY

LEMMA BoundStep == ASSUME BoundInv, [Next]_vars PROVE BoundInv'
<1> USE McpAssumption DEF BoundInv
<1>1. CASE entries' = entries
  BY <1>1
<1>2. CASE entries' = <<>>
  BY <1>2, FS_EmptySet, EmptyTable
<1>3. ASSUME NEW c \in Calls, Put(c), entries' # entries PROVE BoundInv'
  <2> DEFINE f == IF Full(KeyOf(c)) THEN <<>> ELSE entries
  <2>1. entries' = With(f, KeyOf(c), answer[c])
    BY <1>3 DEF Put
  <2>2. IsFiniteSet(DOMAIN f) /\ Cardinality(DOMAIN f) \in Nat
    BY FS_EmptySet, EmptyTable, FS_CardinalityType
  <2>3. \/ KeyOf(c) \in DOMAIN f /\ Cardinality(DOMAIN f) <= MEMO_CAPACITY
        \/ Cardinality(DOMAIN f) < MEMO_CAPACITY
    BY <2>2, FS_EmptySet, EmptyTable DEF Full
  <2> HIDE DEF f
  <2>4. DOMAIN entries' = DOMAIN f \cup {KeyOf(c)}
    BY <2>1 DEF With
  <2>5. /\ IsFiniteSet(DOMAIN entries')
        /\ \/ Cardinality(DOMAIN entries') = Cardinality(DOMAIN f) /\ KeyOf(c) \in DOMAIN f
           \/ Cardinality(DOMAIN entries') = Cardinality(DOMAIN f) + 1 /\ KeyOf(c) \notin DOMAIN f
    BY <2>2, <2>4, FS_AddElement
  <2>6. Cardinality(DOMAIN entries') <= MEMO_CAPACITY
    BY <2>2, <2>3, <2>5
  <2>7. QED
    BY <2>5, <2>6
<1>4. QED
  BY <1>1, <1>2, <1>3
     DEF Next, Serve, Request, Admit, Probe, Resolve, Get, OpenFacts, Analyse, Fails, MoveHead,
         Regenerate, Moves, memo, vars

THEOREM BoundHolds == Spec => []BoundInv
<1>1. Init => BoundInv
  BY McpAssumption, FS_EmptySet, EmptyTable DEF Init, BoundInv
<1>2. QED
  BY <1>1, BoundStep, PTL DEF Spec

\* Types, the permits (exactly the calls at work hold one, whatever ends them)
\* and the bound of the memo: no two calls get past it together.
THEOREM TypeCorrect == Spec => []TypeOK
<1>1. TypeInv /\ BoundInv => TypeOK
  BY DEF TypeInv, BoundInv, TypeOK
<1>2. QED
  BY <1>1, TypeInvHolds, BoundHolds, PTL

-----------------------------------------------------------------------------
(* What a call read still holds while nothing has moved under it, so what   *)
(* it computes is about what it asked; and an entry is about the scope and  *)
(* the key it is stored under, because put drops what another call's scope  *)
(* change has overtaken.                                                    *)

ReadsHold(c) ==
    pc[c] \in Running /\ ~moved[c]
        => /\ pc[c] # "probe" => probe[c] = artifact
           /\ pc[c] \in {"get", "open", "analyse", "put"} => sha[c] = head
           /\ pc[c] \in {"analyse", "put"} => facts[c] = head

AnswerHolds(c) ==
    pc[c] \in {"put", "answered"} /\ answer[c] # Error /\ ~answer[c].moved
        => answer[c].sha = sha[c] /\ answer[c].art = probe[c]

EntryHolds(k) ==
    ~entries[k].moved => entries[k].sha = memoHead /\ entries[k].art = k.art

CallInv == \A c \in Calls : ReadsHold(c) /\ AnswerHolds(c)
EntryInv == \A k \in DOMAIN entries : EntryHolds(k)

LEMMA ReadsStep ==
    ASSUME Types, \A c \in Calls : ReadsHold(c), [Next]_vars
    PROVE  \A c \in Calls : ReadsHold(c)'
<1>1. ASSUME NEW d \in Calls, Request(d) \/ Serve(d), NEW c \in Calls PROVE ReadsHold(c)'
  <2>1. UNCHANGED <<head, artifact, moved>>
    BY <1>1 DEF Request, Serve, Admit, Probe, Resolve, Get, OpenFacts, Analyse, Fails, Put, repo
  <2>2. CASE c # d
    <3>1. UNCHANGED <<pc[c], probe[c], sha[c], facts[c]>>
      BY <1>1, <2>2 DEF Request, Serve, Admit, Probe, Resolve, Get, OpenFacts, Analyse, Fails,
                        Put, Ends, Goto, Types
    <3>2. QED
      BY <2>1, <3>1 DEF ReadsHold
  <2>3. CASE c = d
    BY <1>1, <2>1, <2>3
       DEF Request, Serve, Admit, Probe, Resolve, Get, OpenFacts, Analyse, Fails, Put, Ends,
           Goto, Types, ReadsHold, Running
  <2>4. QED
    BY <2>2, <2>3
<1>2. ASSUME MoveHead \/ Regenerate, NEW c \in Calls PROVE ReadsHold(c)'
  <2>1. UNCHANGED pc /\ (pc[c] \in Running => moved'[c])
    BY <1>2 DEF MoveHead, Regenerate, Moves
  <2>2. QED
    BY <2>1 DEF ReadsHold
<1>3. CASE UNCHANGED vars
  BY <1>3 DEF vars, repo, ReadsHold
<1>4. QED
  BY <1>1, <1>2, <1>3 DEF Next

LEMMA AnswerStep ==
    ASSUME Types, CallInv, EntryInv, [Next]_vars
    PROVE  \A c \in Calls : AnswerHolds(c)'
<1>1. ASSUME NEW d \in Calls, Request(d) \/ Serve(d), NEW c \in Calls PROVE AnswerHolds(c)'
  <2>1. CASE c # d
    <3>1. UNCHANGED <<pc[c], probe[c], sha[c], answer[c]>>
      BY <1>1, <2>1 DEF Request, Serve, Admit, Probe, Resolve, Get, OpenFacts, Analyse, Fails,
                        Put, Ends, Goto, Types
    <3>2. QED
      BY <3>1 DEF AnswerHolds, CallInv
  <2>2. CASE c = d /\ Get(d)
    <3>1. CASE memoHead = sha[c] /\ KeyOf(c) \in DOMAIN entries
      <4>1. answer'[c] = entries[KeyOf(c)] /\ UNCHANGED <<sha, probe>>
        BY <2>2, <3>1 DEF Get, Ends, Types
      <4>2. EntryHolds(KeyOf(c)) /\ KeyOf(c).art = probe[c]
        BY <3>1 DEF EntryInv, KeyOf
      <4>3. QED
        BY <3>1, <4>1, <4>2 DEF AnswerHolds, EntryHolds
    <3>2. CASE ~(memoHead = sha[c] /\ KeyOf(c) \in DOMAIN entries)
      <4>1. pc'[c] = "open"
        BY <2>2, <3>2 DEF Get, Goto, Types
      <4>2. QED
        BY <4>1 DEF AnswerHolds
    <3>3. QED
      BY <3>1, <3>2
  <2>3. CASE c = d /\ Analyse(d)
    <3>1. answer'[c] = Result(c) /\ UNCHANGED <<sha, probe>> /\ pc[c] = "analyse"
      BY <2>3 DEF Analyse, Ends, Types
    <3>2. ~moved[c] => facts[c] = sha[c] /\ artifact = probe[c]
      BY <3>1 DEF CallInv, ReadsHold, Running
    <3>3. QED
      BY <3>1, <3>2 DEF AnswerHolds, Result
  <2>4. CASE c = d /\ Put(d)
    <3>1. answer'[c] = answer[c] /\ UNCHANGED <<sha, probe>> /\ pc[c] = "put"
      BY <2>4 DEF Put, Ends, Types
    <3>2. QED
      BY <3>1 DEF AnswerHolds, CallInv
  <2>5. CASE c = d /\ Fails(d)
    BY <2>5 DEF Fails, Ends, AnswerHolds, Types
  <2>6. CASE c = d /\ (Request(d) \/ Admit(d) \/ Probe(d) \/ Resolve(d) \/ OpenFacts(d))
    <3>1. pc'[c] \notin {"put", "answered"}
      BY <2>6 DEF Request, Admit, Probe, Resolve, OpenFacts, Goto, Types
    <3>2. QED
      BY <3>1 DEF AnswerHolds
  <2>7. QED
    BY <1>1, <2>1, <2>2, <2>3, <2>4, <2>5, <2>6 DEF Serve
<1>2. ASSUME MoveHead \/ Regenerate \/ UNCHANGED vars, NEW c \in Calls PROVE AnswerHolds(c)'
  <2>1. UNCHANGED <<pc, probe, sha, answer>>
    BY <1>2 DEF MoveHead, Regenerate, Moves, vars
  <2>2. QED
    BY <2>1 DEF AnswerHolds, CallInv
<1>3. QED
  BY <1>1, <1>2 DEF Next

LEMMA EntryStep ==
    ASSUME Types, PutInv, CallInv, EntryInv, [Next]_vars PROVE EntryInv'
<1>1. CASE UNCHANGED <<memoHead, entries>>
  BY <1>1 DEF EntryInv, EntryHolds
<1>2. ASSUME NEW c \in Calls, Get(c) PROVE EntryInv'
  <2>1. CASE memoHead = sha[c]
    <3>1. UNCHANGED <<memoHead, entries>>
      BY <1>2, <2>1 DEF Get
    <3>2. QED
      BY <1>1, <3>1
  <2>2. CASE memoHead # sha[c]
    BY <1>2, <2>2, EmptyTable DEF Get, EntryInv
  <2>3. QED
    BY <2>1, <2>2
<1>3. ASSUME NEW c \in Calls, Put(c), memoHead = sha[c] PROVE EntryInv'
  <2> DEFINE f == IF Full(KeyOf(c)) THEN <<>> ELSE entries
  <2>1. entries' = With(f, KeyOf(c), answer[c]) /\ memoHead' = memoHead
    BY <1>3 DEF Put
  <2>2. answer[c] # Error /\ AnswerHolds(c) /\ pc[c] = "put"
    BY <1>3 DEF Put, PutInv, Results, Error, CallInv
  <2>3. \A k \in DOMAIN f : f[k] = entries[k] /\ k \in DOMAIN entries
    BY EmptyTable
  <2> HIDE DEF f
  <2>4. ASSUME NEW k \in DOMAIN entries' PROVE EntryHolds(k)'
    <3>1. CASE k = KeyOf(c)
      <4>1. entries'[k] = answer[c] /\ k.art = probe[c]
        BY <2>1, <2>4, <3>1 DEF With, KeyOf
      <4>2. QED
        BY <1>3, <2>1, <2>2, <4>1 DEF EntryHolds, AnswerHolds
    <3>2. CASE k # KeyOf(c)
      <4>1. k \in DOMAIN entries /\ entries'[k] = entries[k]
        BY <2>1, <2>3, <2>4, <3>2 DEF With
      <4>2. QED
        BY <2>1, <4>1 DEF EntryHolds, EntryInv
    <3>3. QED
      BY <3>1, <3>2
  <2>5. QED
    BY <2>4 DEF EntryInv
<1>4. QED
  BY <1>1, <1>2, <1>3
     DEF Next, Serve, Request, Admit, Probe, Resolve, OpenFacts, Analyse, Fails, Put, MoveHead,
         Regenerate, Moves, memo, vars

\* An answer, replayed or computed, is about the HEAD its call resolved and
\* the artifact it probed, unless the repository moved under its computation.
THEOREM AnswersDescribe == Spec => []AnswerDescribesItsCall
<1>1. Init => CallInv /\ EntryInv
  BY EmptyTable DEF Init, CallInv, EntryInv, ReadsHold, AnswerHolds, Running
<1>2. TypeInv /\ PutInv /\ CallInv /\ EntryInv /\ [Next]_vars => CallInv' /\ EntryInv'
  BY ReadsStep, AnswerStep, EntryStep DEF TypeInv, CallInv
<1>3. CallInv => AnswerDescribesItsCall
  BY DEF CallInv, AnswerHolds, AnswerDescribesItsCall
<1>4. QED
  BY <1>1, <1>2, <1>3, TypeInvHolds, PTL DEF Spec
=============================================================================
