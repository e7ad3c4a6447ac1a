---------------------------- MODULE IngestProofs ----------------------------
(***************************************************************************)
(* The ingest pipeline is correct for every history, chunk size and channel *)
(* capacity: the rows are always a prefix of the walk, a partial walk never *)
(* succeeds, and the pipeline implements CommitLog.  And what the consumer  *)
(* appends reaches its tables, parents first, for every cadence of the flush *)
(* guard, every multiple of it as the appender's threshold, and every stream *)
(* of commits, changes and hunks.                                           *)
(***************************************************************************)
EXTENDS IngestPipeline, AppenderFlush, SequenceTheorems, TLAPS

-----------------------------------------------------------------------------
(* The inductive invariant.  What the pipeline holds between the table and  *)
(* the walker's position is a chain: each event is the next surviving       *)
(* commit after the one before it, across both channels and the producer's  *)
(* hand.                                                                    *)

NoneKept(lo, hi) == \A i \in Oids : lo < i /\ i < hi => commit[i] # "keep"

Follows(a, b) == b \in Oids /\ a < b /\ commit[b] = "keep" /\ NoneKept(a, b)

Prev(s, start, k) == IF k = 1 THEN start ELSE s[k - 1]
EndOf(s, start)   == IF s = <<>> THEN start ELSE s[Len(s)]

ChanMark  == EndOf(chan, RowMark)
HeldMark  == IF held = NoItem THEN ChanMark ELSE held
WChanMark == EndOf(wchan, HeldMark)

Failing == \E i \in Oids : commit[i] \notin {"keep", "skip"}
ErrSent == wchan # <<>> /\ wchan[Len(wchan)] = ErrItem

\* The producer holds an event exactly between its next() and its send(), and
\* has not started while the team map is read.
TypeInv ==
    /\ TypeOK
    /\ held # NoItem <=> producerPc = "send"
    /\ consumerPc = "load" => producerPc = "unborn"

\* Control: which threads can be where together, and what a channel holds then.
ControlInv ==
    /\ producerPc \in {"unborn", "walk"} =>
          /\ walkerPc = "unborn" /\ pos = 1 /\ rows = <<>> /\ chan = <<>>
    /\ ~StreamAlive => wchan = <<>>
    /\ StreamAlive => walkerPc # "unborn"
    /\ consumerPc \in {"join", "heads"} => producerPc \in ProducerDone
    /\ consumerPc = "heads" => producerPc = "ok"
    /\ outcome = "none" <=> consumerPc # "done"
    /\ outcome = "ok" => pass = NumPasses

\* The walker has met only readable commits before pos, and up to lim while it
\* sends; once it is done it has walked everything or left an error behind.
WalkerInv ==
    /\ \A i \in Oids : i < pos => commit[i] \in {"keep", "skip"}
    /\ walkerPc = "send" => \A i \in Oids : i <= lim => commit[i] \in {"keep", "skip"}
    /\ walkerPc = "sendErr" => Failing
    /\ \A k \in 1 .. Len(wchan) : wchan[k] = ErrItem =>
          k = Len(wchan) /\ walkerPc = "done" /\ Failing
    /\ StreamAlive /\ walkerPc = "done" => pos > NumOids \/ ErrSent

\* Each item of s is the next surviving commit after its predecessor.
Chain(s, start) ==
    \A k \in 1 .. Len(s) : s[k] # ErrItem => Follows(Prev(s, start, k), s[k])

ChainInv ==
    ReceiverAlive =>
        /\ Chain(chan, RowMark)
        /\ held # NoItem => Follows(ChanMark, held)
        /\ StreamAlive => /\ Chain(wchan, HeldMark)
                          /\ ~ErrSent => WChanMark < pos /\ NoneKept(WChanMark, pos)

\* A producer that ended well has forwarded the whole walk.
EndInv ==
    /\ producerPc = "ok" => /\ \A i \in Oids : commit[i] \in {"keep", "skip"}
                            /\ ReceiverAlive => NoneKept(ChanMark, NumOids + 1)
    /\ consumerPc \in {"join", "heads"} /\ producerPc = "ok" => WholeWalk
    /\ outcome = "ok" => WholeWalk

PipeInv == ControlInv /\ WalkerInv /\ ChainInv /\ EndInv /\ RowsAreWalkPrefix

-----------------------------------------------------------------------------
(* Type correctness.                                                        *)

\* The types are inductive together with the producer's hand.
LEMMA TypeInvHolds == Spec => []TypeInv
<1> USE SizesAssumption
<1>1. Init => TypeInv
  BY DEF Init, TypeInv, TypeOK, Kinds, ErrItem, NoItem, ProducerDone
<1>2. TypeInv /\ [Next]_vars => TypeInv'
  <2> SUFFICES ASSUME TypeInv, [Next]_vars PROVE TypeInv'
    OBVIOUS
  <2> USE DEF TypeInv, TypeOK
  <2>1. CASE MapChunkOk
    BY <2>1 DEF MapChunkOk, ChunkEnd
  <2>2. CASE MapChunkErr
    BY <2>2 DEF MapChunkErr
  <2>3. CASE MapChunkPanic
    BY <2>3 DEF MapChunkPanic
  <2>4. CASE WalkerFinish
    BY <2>4 DEF WalkerFinish
  <2>5. CASE WalkerSkip
    BY <2>5 DEF WalkerSkip
  <2>6. CASE WalkerSend
    BY <2>6 DEF WalkerSend, Oids
  <2>7. CASE WalkerAbandon
    BY <2>7 DEF WalkerAbandon
  <2>8. CASE WalkerNextChunk
    BY <2>8 DEF WalkerNextChunk
  <2>9. CASE WalkerSendErr
    BY <2>9 DEF WalkerSendErr
  <2>10. CASE WalkCommits
    BY <2>10 DEF WalkCommits, walkerVars
  <2>11. ASSUME NEW pc \in ProducerDone, ProducerEnds(pc), producerPc # "unborn",
                UNCHANGED <<commit, walkerVars, chan, consumerPc, pass, rows, outcome>>
         PROVE  TypeInv'
    BY <2>11 DEF ProducerEnds, walkerVars, NoItem, ProducerDone
  <2>12. CASE WalkCommitsFails
    BY <2>11, <2>12 DEF WalkCommitsFails, ProducerDone
  <2>13. CASE NextEvent
    BY <2>13 DEF NextEvent, walkerVars, ErrItem, NoItem
  <2>14. CASE NextErr
    BY <2>11, <2>14 DEF NextErr, ProducerDone
  <2>15. CASE NextEnd
    BY <2>11, <2>15 DEF NextEnd, ProducerDone
  <2>16. CASE Forward
    BY <2>16 DEF Forward, walkerVars, NoItem, Oids
  <2>17. CASE ForwardFails
    BY <2>11, <2>17 DEF ForwardFails, ProducerDone
  <2>18. CASE Consumer
    <3>1. CASE ConsumerFails
      BY <3>1 DEF ConsumerFails, walkerVars
    <3>2. CASE AppendCommit
      BY <3>2 DEF AppendCommit, walkerVars
    <3>3. CASE HeadPass \/ HeadPassFails
      BY <3>3, SMTT(20) DEF HeadPass, HeadPassFails, Return, walkerVars
    <3>4. CASE LoadTeamMap \/ LoadTeamMapFails \/ BuildFilter
      BY <3>4 DEF LoadTeamMap, LoadTeamMapFails, BuildFilter, Return, walkerVars, ProducerDone
    <3>5. CASE FlushAll \/ JoinProducer \/ LeaveScope
      BY <3>5 DEF FlushAll, JoinProducer, LeaveScope, Return, walkerVars
    <3> QED
      BY <2>18, <3>1, <3>2, <3>3, <3>4, <3>5 DEF Consumer
  <2>19. CASE UNCHANGED vars
    BY <2>19 DEF vars, walkerVars
  <2> QED
    BY <2>1, <2>2, <2>3, <2>4, <2>5, <2>6, <2>7, <2>8, <2>9, <2>10, <2>12, <2>13,
       <2>14, <2>15, <2>16, <2>17, <2>18, <2>19 DEF Next, Walker, Producer
<1>3. QED
  BY <1>1, <1>2, PTL DEF Spec

\* Every variable of the pipeline keeps its type, and no channel ever holds
\* more than its capacity.
THEOREM TypeCorrect == Spec => []TypeOK
<1>1. TypeInv => TypeOK
  BY DEF TypeInv
<1>2. QED
  BY TypeInvHolds, <1>1, PTL

-----------------------------------------------------------------------------
(* The invariant, part by part.                                             *)

LEMMA ControlStep == TypeInv /\ ControlInv /\ [Next]_vars => ControlInv'
<1> SUFFICES ASSUME TypeInv, ControlInv, [Next]_vars PROVE ControlInv'
  OBVIOUS
<1> USE DEF TypeInv, ControlInv, StreamAlive, ProducerDone
<1>1. CASE Walker
  BY <1>1 DEF Walker, MapChunkOk, MapChunkErr, MapChunkPanic, WalkerFinish, WalkerSkip,
     WalkerSend, WalkerAbandon, WalkerNextChunk, WalkerSendErr
<1>2. CASE Producer
  BY <1>2 DEF Producer, WalkCommits, WalkCommitsFails, NextEvent, NextErr, NextEnd,
     Forward, ForwardFails, ProducerEnds, walkerVars
<1>3. CASE LoadTeamMap \/ LoadTeamMapFails \/ BuildFilter \/ ConsumerFails \/ AppendCommit
  BY <1>3 DEF LoadTeamMap, LoadTeamMapFails, BuildFilter, ConsumerFails, AppendCommit,
     Return, walkerVars
<1>4. CASE FlushAll \/ JoinProducer \/ LeaveScope
  BY <1>4 DEF FlushAll, JoinProducer, LeaveScope, Return, walkerVars
<1>5. CASE HeadPass \/ HeadPassFails
  BY <1>5 DEF HeadPass, HeadPassFails, Return, walkerVars
<1>6. CASE UNCHANGED vars
  BY <1>6 DEF vars, walkerVars
<1> QED
  BY <1>1, <1>2, <1>3, <1>4, <1>5, <1>6 DEF Next, Consumer

\* A channel after its first item has been received.
LEMMA Received ==
    ASSUME NEW S, NEW s \in Seq(S), s # <<>>
    PROVE  /\ Len(s) \in Nat \ {0} /\ Head(s) = s[1] /\ Tail(s) \in Seq(S)
           /\ Len(Tail(s)) = Len(s) - 1
           /\ \A k \in 1 .. Len(Tail(s)) : Tail(s)[k] = s[k + 1] /\ k + 1 \in 1 .. Len(s)
           /\ Len(s) # 1 => Tail(s) # <<>> /\ Tail(s)[Len(Tail(s))] = s[Len(s)]
           /\ Len(s) = 1 => Tail(s) = <<>>
<1> DEFINE t == Tail(s)
<1>1. /\ Len(s) \in Nat \ {0} /\ Head(s) = s[1]
      /\ \A q \in Seq(S) : q # <<>> => Len(q) \in Nat \ {0}
  BY EmptySeq
<1>2. /\ t \in Seq(S) /\ Len(t) = Len(s) - 1
      /\ \A k \in 1 .. Len(t) : t[k] = s[k + 1]
  BY HeadTailProperties
<1>3. Len(<<>>) = 0
  OBVIOUS
<1> HIDE DEF t
<1>4. \A k \in 1 .. Len(t) : k + 1 \in 1 .. Len(s)
  BY <1>1, <1>2
<1>5. ASSUME Len(s) # 1 PROVE t # <<>> /\ t[Len(t)] = s[Len(s)]
  <2>1. Len(t) \in 1 .. Len(t) /\ Len(t) + 1 = Len(s)
    BY <1>1, <1>2, <1>5
  <2>2. QED
    BY <1>2, <1>3, <2>1
<1>6. Len(s) = 1 => t = <<>>
  BY <1>1, <1>2
<1>7. QED
  BY <1>1, <1>2, <1>4, <1>5, <1>6 DEF t

LEMMA LastSent ==
    ASSUME NEW S, NEW s \in Seq(S), NEW e \in S
    PROVE  Append(s, e) # <<>> /\ Append(s, e)[Len(Append(s, e))] = e
  OBVIOUS

\* What the walker has established changes only when the walker moves, when the
\* producer takes an event, or when the stream dies.
LEMMA WalkerStep == TypeInv /\ ControlInv /\ WalkerInv /\ [Next]_vars => WalkerInv'
<1> USE SizesAssumption
<1> SUFFICES ASSUME TypeInv, ControlInv, WalkerInv, [Next]_vars PROVE WalkerInv'
  OBVIOUS
<1> USE DEF TypeInv, TypeOK, WalkerInv, Failing, StreamAlive, ErrSent
<1>1. CASE MapChunkOk
  BY <1>1 DEF MapChunkOk, Chunk, ChunkEnd, Oids
<1>2. CASE MapChunkErr \/ MapChunkPanic \/ WalkerFinish \/ WalkerNextChunk \/ WalkerAbandon
  <2>1. CASE MapChunkErr
    <3>1. Failing
      BY <2>1 DEF MapChunkErr, Chunk
    <3>2. walkerPc' = "sendErr" /\ UNCHANGED <<commit, pos, lim, wchan, producerPc>> /\ walkerPc # "done"
      BY <2>1 DEF MapChunkErr
    <3>3. QED
      BY <3>1, <3>2
  <2>2. CASE MapChunkPanic
    BY <2>2 DEF MapChunkPanic
  <2>3. CASE WalkerFinish
    BY <2>3 DEF WalkerFinish
  <2>4. CASE WalkerNextChunk
    BY <2>4 DEF WalkerNextChunk
  <2>5. CASE WalkerAbandon
    BY <2>5 DEF WalkerAbandon
  <2>6. QED
    BY <1>2, <2>1, <2>2, <2>3, <2>4, <2>5
<1>3. CASE WalkerSkip
  BY <1>3 DEF WalkerSkip, Oids
<1>4. CASE WalkerSend
  <2>1. wchan' = Append(wchan, pos) /\ pos \in Oids /\ pos # ErrItem
    BY <1>4 DEF WalkerSend, Oids, ErrItem
  <2>2. \A k \in 1 .. Len(wchan') : wchan'[k] # ErrItem
    BY <1>4, <2>1 DEF WalkerSend
  <2>3. QED
    BY <1>4, <2>1, <2>2 DEF WalkerSend, Oids
<1>5. CASE WalkerSendErr
  <2>1. wchan' = Append(wchan, ErrItem) /\ \A k \in 1 .. Len(wchan) : wchan[k] # ErrItem
    BY <1>5 DEF WalkerSendErr
  <2>2. QED
    BY <1>5, <2>1 DEF WalkerSendErr
<1>6. CASE WalkCommits
  BY <1>6 DEF WalkCommits, ControlInv
<1>7. ASSUME producerPc' \notin {"next", "send"}, wchan' = <<>>, UNCHANGED <<commit, walkerVars>>
      PROVE  WalkerInv'
  BY <1>7 DEF walkerVars
<1>8. CASE WalkCommitsFails \/ NextErr \/ NextEnd \/ ForwardFails
  BY <1>7, <1>8 DEF WalkCommitsFails, NextErr, NextEnd, ForwardFails, ProducerEnds, WalkerDone
<1>9. CASE NextEvent
  <2>1. /\ wchan # <<>> /\ wchan' = Tail(wchan) /\ wchan[1] # ErrItem
        /\ UNCHANGED <<commit, walkerPc, pos, lim>> /\ producerPc = "next" /\ producerPc' = "send"
    BY <1>9 DEF NextEvent, walkerVars
  <2>2. wchan \in Seq(Oids \cup {ErrItem})
    OBVIOUS
  <2>3. /\ Len(wchan) \in Nat \ {0} /\ Len(wchan') = Len(wchan) - 1
        /\ \A k \in 1 .. Len(wchan') : wchan'[k] = wchan[k + 1] /\ k + 1 \in 1 .. Len(wchan)
        /\ Len(wchan) # 1 => wchan' # <<>> /\ wchan'[Len(wchan')] = wchan[Len(wchan)]
    BY <2>1, <2>2, Received
  <2>4. ErrSent => ErrSent'
    BY <2>1, <2>3
  <2>5. \A k \in 1 .. Len(wchan) : wchan[k] = ErrItem =>
          k = Len(wchan) /\ walkerPc = "done" /\ Failing
    OBVIOUS
  <2>6. Failing => Failing'
    BY <2>1
  <2> HIDE DEF TypeInv, TypeOK, WalkerInv, Failing
  <2>7. ASSUME NEW k \in 1 .. Len(wchan'), wchan'[k] = ErrItem
        PROVE  k = Len(wchan') /\ walkerPc' = "done" /\ Failing'
    <3>1. k + 1 \in 1 .. Len(wchan) /\ wchan[k + 1] = ErrItem
      BY <2>3, <2>7
    <3>2. k + 1 = Len(wchan) /\ walkerPc = "done" /\ Failing
      BY <2>5, <3>1
    <3>3. k = Len(wchan')
      BY <2>3, <3>2
    <3>4. QED
      BY <2>1, <2>6, <3>2, <3>3
  <2>8. /\ \A i \in Oids : i < pos' => commit'[i] \in {"keep", "skip"}
        /\ walkerPc' = "send" => \A i \in Oids : i <= lim' => commit'[i] \in {"keep", "skip"}
    BY <2>1 DEF WalkerInv
  <2>9. /\ walkerPc' = "sendErr" => Failing'
        /\ StreamAlive' /\ walkerPc' = "done" => pos' > NumOids \/ ErrSent'
    <3> HIDE DEF ErrSent
    <3> QED
      BY <2>1, <2>4, <2>6 DEF WalkerInv
  <2>10. QED
    BY <2>7, <2>8, <2>9, Zenon DEF WalkerInv
<1>10. ASSUME UNCHANGED <<commit, walkerVars, wchan>>, StreamAlive' => StreamAlive
       PROVE  WalkerInv'
  BY <1>10 DEF walkerVars
<1>11. CASE Forward \/ Consumer
  BY <1>10, <1>11 DEF Forward, Consumer, LoadTeamMap, LoadTeamMapFails, BuildFilter, ConsumerFails,
     AppendCommit, FlushAll, JoinProducer, LeaveScope, HeadPass, HeadPassFails, walkerVars
<1>12. CASE UNCHANGED vars
  BY <1>10, <1>12 DEF vars
<1> QED
  BY <1>1, <1>2, <1>3, <1>4, <1>5, <1>6, <1>8, <1>9, <1>11, <1>12 DEF Next, Walker, Producer

LEMMA ChainReceived ==
    ASSUME NEW s \in Seq(Oids \cup {ErrItem}), s # <<>>, NEW start, Chain(s, start)
    PROVE  Chain(Tail(s), s[1]) /\ EndOf(Tail(s), s[1]) = EndOf(s, start)
<1> DEFINE t == Tail(s)
<1>1. /\ Len(s) \in Nat \ {0} /\ Len(t) = Len(s) - 1
      /\ \A k \in 1 .. Len(t) : t[k] = s[k + 1] /\ k + 1 \in 1 .. Len(s)
      /\ Len(s) # 1 => t # <<>> /\ t[Len(t)] = s[Len(s)]
      /\ Len(s) = 1 => t = <<>>
  BY Received
<1> HIDE DEF t
<1>2. ASSUME NEW k \in 1 .. Len(t), t[k] # ErrItem PROVE Follows(Prev(t, s[1], k), t[k])
  <2>1. Follows(Prev(s, start, k + 1), s[k + 1])
    BY <1>1, <1>2 DEF Chain
  <2>2. Prev(t, s[1], k) = Prev(s, start, k + 1)
    <3>1. CASE k = 1
      BY <3>1 DEF Prev
    <3>2. CASE k # 1
      <4>1. k - 1 \in 1 .. Len(t) /\ (k - 1) + 1 = k /\ k + 1 # 1 /\ (k + 1) - 1 = k
        BY <1>1, <3>2
      <4>2. QED
        BY <1>1, <3>2, <4>1 DEF Prev
    <3> QED
      BY <3>1, <3>2
  <2>3. QED
    BY <1>1, <2>1, <2>2
<1>3. EndOf(t, s[1]) = EndOf(s, start)
  BY <1>1 DEF EndOf
<1>4. QED
  BY <1>2, <1>3 DEF Chain, t

LEMMA ChainSent ==
    ASSUME NEW s \in Seq(Oids \cup {ErrItem}), NEW e \in Oids \cup {ErrItem}, NEW start,
           Chain(s, start), e # ErrItem => Follows(EndOf(s, start), e)
    PROVE  Chain(Append(s, e), start) /\ EndOf(Append(s, e), start) = e
<1> DEFINE t == Append(s, e)
<1>1. /\ t # <<>> /\ Len(s) \in Nat /\ Len(t) = Len(s) + 1 /\ t[Len(s) + 1] = e
      /\ \A k \in 1 .. Len(s) : t[k] = s[k]
  OBVIOUS
<1>2. Len(s) = 0 => s = <<>>
  BY EmptySeq
<1>3. Len(<<>>) = 0
  OBVIOUS
<1> HIDE DEF t
<1>4. ASSUME NEW k \in 1 .. Len(t), t[k] # ErrItem PROVE Follows(Prev(t, start, k), t[k])
  <2>1. CASE k \in 1 .. Len(s)
    <3>1. Follows(Prev(s, start, k), s[k])
      BY <1>1, <1>4, <2>1 DEF Chain
    <3>2. k = 1 \/ k - 1 \in 1 .. Len(s)
      BY <1>1, <2>1
    <3>3. QED
      BY <1>1, <2>1, <3>1, <3>2 DEF Prev
  <2>2. CASE k = Len(s) + 1
    <3>1. Prev(t, start, k) = EndOf(s, start)
      <4>1. CASE Len(s) = 0
        BY <1>1, <1>2, <2>2, <4>1 DEF Prev, EndOf
      <4>2. CASE Len(s) # 0
        BY <1>1, <1>3, <2>2, <4>2 DEF Prev, EndOf
      <4> QED
        BY <4>1, <4>2
    <3>2. QED
      BY <1>1, <1>4, <2>2, <3>1
  <2>3. QED
    BY <1>1, <2>1, <2>2
<1>5. EndOf(t, start) = e
  BY <1>1 DEF EndOf
<1>6. QED
  BY <1>4, <1>5 DEF Chain, t

LEMMA ChainStep ==
    TypeInv /\ ControlInv /\ WalkerInv /\ ChainInv /\ [Next]_vars => ChainInv'
<1> USE SizesAssumption
<1> SUFFICES ASSUME TypeInv, ControlInv, WalkerInv, ChainInv, [Next]_vars PROVE ChainInv'
  OBVIOUS
<1>0. /\ chan \in Seq(Oids) /\ rows \in Seq(Oids) /\ wchan \in Seq(Oids \cup {ErrItem})
      /\ held \in Oids \cup {NoItem} /\ pos \in Nat \ {0}
      /\ held # NoItem <=> producerPc = "send"
      /\ NoItem = 0 /\ ErrItem = 0 /\ Oids = 1 .. NumOids
  BY DEF TypeInv, TypeOK, NoItem, ErrItem, Oids
<1>0a. chan \in Seq(Oids \cup {ErrItem})
  <2>1. Oids \subseteq Oids \cup {ErrItem} /\ chan \in Seq(Oids)
    BY <1>0
  <2>2. QED
    BY <2>1, SeqMonotonic
<1>1. ASSUME UNCHANGED <<commit, rows, chan, held, wchan, pos>>,
             ReceiverAlive' => ReceiverAlive, StreamAlive' => StreamAlive
      PROVE  ChainInv'
  BY <1>1 DEF ChainInv, Chain, Follows, NoneKept, Prev, EndOf, ChanMark, HeldMark, WChanMark,
     RowMark, ErrSent
<1>2. ASSUME ~ReceiverAlive' PROVE ChainInv'
  BY <1>2 DEF ChainInv
<1>3. ASSUME UNCHANGED <<commit, rows, chan>>, ReceiverAlive' => ReceiverAlive,
             held' = NoItem, ~StreamAlive'
      PROVE  ChainInv'
  BY <1>3 DEF ChainInv, Chain, Follows, NoneKept, Prev, EndOf, RowMark
<1>4. CASE MapChunkOk \/ MapChunkErr \/ MapChunkPanic \/ WalkerFinish \/ WalkerAbandon
           \/ WalkerNextChunk \/ BuildFilter \/ UNCHANGED vars
  BY <1>1, <1>4 DEF MapChunkOk, MapChunkErr, MapChunkPanic, WalkerFinish, WalkerAbandon,
     WalkerNextChunk, BuildFilter, vars, walkerVars, ReceiverAlive, StreamAlive
<1>5. CASE ConsumerFails \/ FlushAll \/ JoinProducer \/ LeaveScope \/ HeadPass
           \/ HeadPassFails \/ LoadTeamMapFails
  BY <1>2, <1>5 DEF ConsumerFails, FlushAll, JoinProducer, LeaveScope, HeadPass,
     HeadPassFails, LoadTeamMapFails, Return, ReceiverAlive
<1>6. CASE WalkCommitsFails \/ NextErr \/ NextEnd \/ ForwardFails
  BY <1>3, <1>6 DEF WalkCommitsFails, NextErr, NextEnd, ForwardFails, ProducerEnds,
     ReceiverAlive, StreamAlive, WalkerDone
<1>7. CASE WalkerSkip
  BY SMTT(30), <1>0, <1>7 DEF WalkerSkip, ChainInv, Chain, Follows, NoneKept, Prev, EndOf, ChanMark,
     HeldMark, WChanMark, RowMark, ErrSent, ReceiverAlive, StreamAlive
<1>8. CASE WalkerSend
  <2> SUFFICES ASSUME ReceiverAlive PROVE ChainInv'
    BY <1>2, <1>8 DEF WalkerSend, ReceiverAlive
  <2>1. /\ wchan' = Append(wchan, pos) /\ pos' = pos + 1 /\ pos \in Oids /\ commit[pos] = "keep"
        /\ UNCHANGED <<commit, rows, chan, held, producerPc, consumerPc>> /\ StreamAlive
    BY <1>8 DEF WalkerSend, TypeInv, TypeOK, Oids
  <2>2. ~ErrSent
    BY <1>0, <1>8 DEF WalkerSend, WalkerInv, ErrSent
  <2>3. Follows(WChanMark, pos)
    BY <2>1, <2>2 DEF ChainInv, Follows
  <2>4. Chain(Append(wchan, pos), HeldMark) /\ EndOf(Append(wchan, pos), HeldMark) = pos
    BY <1>0, <2>1, <2>3, ChainSent DEF ChainInv, WChanMark
  <2>5. RowMark' = RowMark /\ ChanMark' = ChanMark /\ HeldMark' = HeldMark
    BY <2>1 DEF RowMark, ChanMark, HeldMark, EndOf
  <2>6. Chain(wchan, HeldMark)' /\ WChanMark' = pos
    BY <2>1, <2>4, <2>5 DEF Chain, Follows, NoneKept, Prev, EndOf, WChanMark
  <2>7. NoneKept(WChanMark, pos)' /\ WChanMark' < pos'
    BY <1>0, <2>1, <2>6 DEF NoneKept
  <2>8. Chain(chan, RowMark)' /\ (held' # NoItem => Follows(ChanMark, held)')
    BY <2>1, <2>5 DEF ChainInv, Chain, Follows, NoneKept, Prev
  <2>9. QED
    BY <2>6, <2>7, <2>8 DEF ChainInv
<1>9. CASE WalkerSendErr
  <2> SUFFICES ASSUME ReceiverAlive PROVE ChainInv'
    BY <1>2, <1>9 DEF WalkerSendErr, ReceiverAlive
  <2>1. /\ wchan' = Append(wchan, ErrItem)
        /\ UNCHANGED <<commit, rows, chan, held, pos, producerPc, consumerPc>> /\ StreamAlive
    BY <1>9 DEF WalkerSendErr
  <2>2. Chain(Append(wchan, ErrItem), HeldMark) /\ EndOf(Append(wchan, ErrItem), HeldMark) = ErrItem
    BY <1>0, <2>1, ChainSent DEF ChainInv
  <2>3. RowMark' = RowMark /\ ChanMark' = ChanMark /\ HeldMark' = HeldMark
    BY <2>1 DEF RowMark, ChanMark, HeldMark, EndOf
  <2>4. Chain(wchan, HeldMark)'
    BY <2>1, <2>2, <2>3 DEF Chain, Follows, NoneKept, Prev
  <2>5. ErrSent'
    <3>1. wchan \in Seq(Oids \cup {ErrItem}) /\ ErrItem \in Oids \cup {ErrItem}
      BY <1>0
    <3>2. QED
      BY <2>1, <3>1, LastSent DEF ErrSent
  <2>6. Chain(chan, RowMark)' /\ (held' # NoItem => Follows(ChanMark, held)')
    BY <2>1, <2>3 DEF ChainInv, Chain, Follows, NoneKept, Prev
  <2>7. QED
    BY <2>4, <2>5, <2>6 DEF ChainInv
<1>10. CASE WalkCommits
  <2>1. /\ rows' = <<>> /\ chan' = <<>> /\ wchan' = <<>> /\ held' = NoItem /\ pos' = 1
    BY <1>0, <1>10 DEF WalkCommits, walkerVars, ControlInv, StreamAlive
  <2>2. RowMark' = 0 /\ ChanMark' = 0 /\ HeldMark' = 0 /\ WChanMark' = 0
    BY <2>1 DEF RowMark, ChanMark, HeldMark, WChanMark, EndOf
  <2>3. NoneKept(WChanMark, pos)' /\ WChanMark' < pos'
    BY <1>0, <2>1, <2>2 DEF NoneKept
  <2>4. Chain(chan, RowMark)' /\ Chain(wchan, HeldMark)'
    BY <2>1 DEF Chain
  <2>5. QED
    BY <2>1, <2>3, <2>4 DEF ChainInv
<1>11. CASE NextEvent
  <2> SUFFICES ASSUME ReceiverAlive PROVE ChainInv'
    BY <1>2, <1>11 DEF NextEvent, ReceiverAlive
  <2>1. /\ wchan # <<>> /\ wchan[1] # ErrItem /\ wchan' = Tail(wchan) /\ held' = wchan[1]
        /\ UNCHANGED <<commit, rows, chan, pos, consumerPc>> /\ StreamAlive /\ held = NoItem
    BY <1>0, <1>11, Received DEF NextEvent, walkerVars, StreamAlive
  <2>2. Chain(Tail(wchan), wchan[1]) /\ EndOf(Tail(wchan), wchan[1]) = WChanMark
    BY <1>0, <2>1, ChainReceived DEF ChainInv, WChanMark
  <2>3. HeldMark = ChanMark /\ RowMark' = RowMark /\ ChanMark' = ChanMark /\ HeldMark' = wchan[1]
    BY <1>0, <2>1 DEF RowMark, ChanMark, HeldMark, EndOf
  <2>4. Follows(ChanMark, wchan[1])
    BY <1>0, <2>1, <2>3, EmptySeq DEF ChainInv, Chain, Prev
  <2>5. Chain(wchan, HeldMark)' /\ WChanMark' = WChanMark
    BY <2>1, <2>2, <2>3 DEF Chain, Follows, NoneKept, Prev, WChanMark, EndOf
  <2>6. ErrSent => ErrSent'
    BY <1>0, <2>1, Received DEF ErrSent
  <2>7. ~ErrSent' => WChanMark' < pos' /\ NoneKept(WChanMark, pos)'
    BY <2>1, <2>5, <2>6 DEF ChainInv, NoneKept
  <2>8. Chain(chan, RowMark)' /\ Follows(ChanMark, held)'
    BY <2>1, <2>3, <2>4 DEF ChainInv, Chain, Follows, NoneKept, Prev
  <2>9. QED
    BY <2>5, <2>7, <2>8 DEF ChainInv
<1>12. CASE Forward
  <2> SUFFICES ASSUME ReceiverAlive PROVE ChainInv'
    BY <1>2, <1>12 DEF Forward, ReceiverAlive
  <2>1. /\ chan' = Append(chan, held) /\ held' = NoItem /\ held \in Oids /\ held # NoItem
        /\ UNCHANGED <<commit, rows, wchan, pos, consumerPc>> /\ StreamAlive
    BY <1>0, <1>12 DEF Forward, walkerVars, StreamAlive
  <2>2. Chain(Append(chan, held), RowMark) /\ EndOf(Append(chan, held), RowMark) = held
    BY <1>0, <1>0a, <2>1, ChainSent DEF ChainInv, ChanMark
  <2>3. HeldMark = held /\ RowMark' = RowMark /\ ChanMark' = held /\ HeldMark' = held
    BY <2>1, <2>2 DEF RowMark, ChanMark, HeldMark, EndOf
  <2>4. Chain(chan, RowMark)'
    BY <2>1, <2>2, <2>3 DEF Chain, Follows, NoneKept, Prev
  <2>5. Chain(wchan, HeldMark)' /\ WChanMark' = WChanMark
    BY <2>1, <2>3 DEF ChainInv, Chain, Follows, NoneKept, Prev, WChanMark, EndOf
  <2>6. ~ErrSent' => WChanMark' < pos' /\ NoneKept(WChanMark, pos)'
    BY <2>1, <2>5 DEF ChainInv, NoneKept, ErrSent
  <2>7. QED
    BY <2>1, <2>4, <2>5, <2>6 DEF ChainInv
<1>13. CASE LoadTeamMap
  <2>1. /\ rows' = <<>> /\ chan' = <<>> /\ held' = NoItem /\ ~StreamAlive'
    BY <1>0, <1>13 DEF LoadTeamMap, TypeInv, ControlInv, StreamAlive
  <2>2. QED
    BY <2>1 DEF ChainInv, Chain
<1>14. CASE AppendCommit
  <2>1. /\ chan # <<>> /\ chan' = Tail(chan) /\ rows' = Append(rows, chan[1]) /\ ReceiverAlive
        /\ chan[1] \in Oids
        /\ UNCHANGED <<commit, wchan, held, pos, producerPc>>
    BY <1>0, <1>14, Received DEF AppendCommit, walkerVars, ReceiverAlive
  <2>2. RowMark' = chan[1]
    <3>1. rows \in Seq(Oids)
      BY <1>0
    <3>2. QED
      BY <2>1, <3>1, LastSent DEF RowMark
  <2>3. Chain(Tail(chan), chan[1]) /\ EndOf(Tail(chan), chan[1]) = ChanMark
    BY <1>0a, <2>1, ChainReceived DEF ChainInv, ChanMark
  <2>4. Chain(chan, RowMark)' /\ ChanMark' = ChanMark
    BY <2>1, <2>2, <2>3 DEF Chain, Follows, NoneKept, Prev, ChanMark, EndOf
  <2>5. HeldMark' = HeldMark /\ WChanMark' = WChanMark
    BY <2>1, <2>4 DEF HeldMark, WChanMark, EndOf
  <2>6. QED
    BY <2>1, <2>4, <2>5 DEF ChainInv, Chain, Follows, NoneKept, Prev, ErrSent, StreamAlive
<1> QED
  BY <1>4, <1>5, <1>6, <1>7, <1>8, <1>9, <1>10, <1>11, <1>12, <1>13, <1>14
  DEF Next, Walker, Producer, Consumer

\* A walk extended by the commit that follows it is still a walk.
LEMMA WalkExtends ==
    ASSUME NEW s \in Seq(Oids), NEW e \in Oids, NEW hi \in Nat,
           IsWalk(s, 0, hi), Follows(hi, e)
    PROVE  IsWalk(Append(s, e), 0, e)
<1> DEFINE t == Append(s, e)
<1>1. /\ Len(s) \in Nat /\ Len(t) = Len(s) + 1 /\ t[Len(s) + 1] = e
      /\ \A k \in 1 .. Len(s) : t[k] = s[k] /\ s[k] \in Oids
  OBVIOUS
<1>2. e \in Nat /\ hi < e /\ commit[e] = "keep" /\ Oids = 1 .. NumOids /\ NumOids \in Nat
  BY SizesAssumption DEF Follows, Oids
<1> HIDE DEF t
<1>3. ASSUME NEW k \in 1 .. Len(t) PROVE t[k] \in 0 + 1 .. e /\ commit[t[k]] = "keep"
  BY SMTT(30), <1>1, <1>2 DEF IsWalk
<1>4. ASSUME NEW j \in 1 .. Len(t), NEW k \in 1 .. Len(t), j < k PROVE t[j] < t[k]
  <2>1. j \in 1 .. Len(s) /\ t[j] = s[j] /\ s[j] \in 0 + 1 .. hi
    BY <1>1, <1>4 DEF IsWalk
  <2>2. CASE k \in 1 .. Len(s)
    BY <1>1, <1>4, <2>1, <2>2 DEF IsWalk
  <2>3. CASE k = Len(s) + 1
    BY <1>1, <1>2, <2>1, <2>3
  <2>4. QED
    BY <1>1, <2>2, <2>3
<1>5. ASSUME NEW i \in 0 + 1 .. e, commit[i] = "keep" PROVE \E k \in 1 .. Len(t) : t[k] = i
  <2>1. CASE i <= hi
    <3>1. PICK k \in 1 .. Len(s) : s[k] = i
      BY <1>2, <1>5, <2>1 DEF IsWalk
    <3>2. k \in 1 .. Len(t) /\ t[k] = i
      BY <1>1, <3>1
    <3>3. QED
      BY <3>2
  <2>2. CASE i = e
    BY <1>1, <2>2
  <2>3. i <= hi \/ i = e
    BY <1>2, <1>5 DEF Follows, NoneKept
  <2>4. QED
    BY <2>1, <2>2, <2>3
<1>6. QED
  BY <1>3, <1>4, <1>5, Zenon DEF IsWalk, t

\* A walk with no surviving commit after it is the whole walk.
LEMMA WalkComplete ==
    ASSUME TypeOK, IsWalk(rows, 0, RowMark), NoneKept(RowMark, NumOids + 1)
    PROVE  IsWalk(rows, 0, NumOids)
<1>1. NumOids \in Nat /\ Oids = 1 .. NumOids /\ rows \in Seq(Oids) /\ Len(rows) \in Nat
  BY SizesAssumption DEF TypeOK, Oids
<1>2. RowMark \in 0 .. NumOids
  BY <1>1, EmptySeq DEF RowMark
<1>3. ASSUME NEW i \in 0 + 1 .. NumOids, commit[i] = "keep" PROVE i \in 0 + 1 .. RowMark
  BY <1>1, <1>2, <1>3 DEF NoneKept
<1>4. \A k \in 1 .. Len(rows) : rows[k] \in 0 + 1 .. NumOids /\ commit[rows[k]] = "keep"
  BY <1>1, <1>2 DEF IsWalk
<1>5. QED
  BY <1>3, <1>4, Zenon DEF IsWalk

\* The table stays a prefix of the walk: only AppendCommit touches it, and what
\* it receives follows the last row.
LEMMA RowsStep ==
    TypeInv /\ ChainInv /\ RowsAreWalkPrefix /\ [Next]_vars => RowsAreWalkPrefix'
<1> SUFFICES ASSUME TypeInv, ChainInv, RowsAreWalkPrefix, [Next]_vars
             PROVE  RowsAreWalkPrefix'
  OBVIOUS
<1>1. rows \in Seq(Oids) /\ chan \in Seq(Oids) /\ RowMark \in Nat
  <2>1. rows \in Seq(Oids) /\ chan \in Seq(Oids) /\ Oids \subseteq Nat
    BY SizesAssumption DEF TypeInv, TypeOK, Oids
  <2>2. rows # <<>> => rows[Len(rows)] \in Oids
    BY <2>1, EmptySeq
  <2>3. QED
    BY <2>1, <2>2 DEF RowMark
<1>2. CASE AppendCommit
  <2>1. /\ chan # <<>> /\ rows' = Append(rows, chan[1]) /\ chan[1] \in Oids
        /\ commit' = commit /\ ReceiverAlive /\ 1 \in 1 .. Len(chan)
    BY <1>1, <1>2, Received DEF AppendCommit, ReceiverAlive
  <2>2. Follows(RowMark, chan[1])
    <3>1. chan[1] # ErrItem
      BY <2>1, SizesAssumption DEF ErrItem, Oids
    <3>2. QED
      BY <2>1, <3>1 DEF ChainInv, Chain, Prev
  <2>3. IsWalk(Append(rows, chan[1]), 0, chan[1])
    BY <1>1, <2>1, <2>2, WalkExtends DEF RowsAreWalkPrefix
  <2>4. RowMark' = chan[1]
    BY <1>1, <2>1, LastSent DEF RowMark
  <2>5. QED
    BY <2>1, <2>3, <2>4 DEF RowsAreWalkPrefix, IsWalk
<1>3. ASSUME commit' = commit, rows' = rows PROVE RowsAreWalkPrefix'
  BY <1>3 DEF RowsAreWalkPrefix, IsWalk, RowMark
<1>4. CASE Walker
  BY <1>3, <1>4 DEF Walker, MapChunkOk, MapChunkErr, MapChunkPanic, WalkerFinish, WalkerSkip,
     WalkerSend, WalkerAbandon, WalkerNextChunk, WalkerSendErr
<1>5. CASE Producer
  BY <1>3, <1>5 DEF Producer, WalkCommits, WalkCommitsFails, NextEvent, NextErr, NextEnd,
     Forward, ForwardFails
<1>6. CASE LoadTeamMap \/ LoadTeamMapFails \/ BuildFilter \/ ConsumerFails \/ FlushAll
           \/ JoinProducer \/ LeaveScope \/ HeadPass \/ HeadPassFails \/ UNCHANGED vars
  BY <1>3, <1>6 DEF LoadTeamMap, LoadTeamMapFails, BuildFilter, ConsumerFails, FlushAll,
     JoinProducer, LeaveScope, HeadPass, HeadPassFails, vars
<1> QED
  BY <1>2, <1>4, <1>5, <1>6 DEF Next, Consumer

\* The end of a walk: a producer that ends well has met the end of the walker's
\* stream, with nothing lost on the way, and only then does the consumer drain
\* the channel and leave its loop.
LEMMA EndStep ==
    TypeInv /\ PipeInv /\ [Next]_vars => EndInv'
<1> SUFFICES ASSUME TypeInv, PipeInv, [Next]_vars PROVE EndInv'
  OBVIOUS
<1> USE DEF PipeInv
<1>0. /\ chan \in Seq(Oids) /\ TypeOK /\ NumOids \in Nat /\ Oids = 1 .. NumOids
      /\ pos \in 1 .. NumOids + 1
      /\ held # NoItem <=> producerPc = "send"
  BY SizesAssumption DEF TypeInv, TypeOK, Oids
<1>1. ASSUME UNCHANGED <<commit, rows>>,
             producerPc' = "ok" => producerPc = "ok" /\ (ReceiverAlive' => ReceiverAlive /\ chan' = chan),
             consumerPc' \in {"join", "heads"} => consumerPc \in {"join", "heads"},
             outcome' = "ok" => outcome = "ok" \/ consumerPc = "heads"
      PROVE  EndInv'
  <2>1. WholeWalk => WholeWalk'
    BY <1>1 DEF WholeWalk, IsWalk
  <2>2. producerPc' = "ok" => \A i \in Oids : commit'[i] \in {"keep", "skip"}
    BY <1>1 DEF EndInv
  <2>3. producerPc' = "ok" /\ ReceiverAlive' => NoneKept(ChanMark, NumOids + 1)'
    BY <1>1 DEF EndInv, NoneKept, ChanMark, EndOf, RowMark
  <2>4. consumerPc = "heads" => WholeWalk
    BY DEF EndInv, ControlInv
  <2>5. producerPc' = "ok" => producerPc = "ok"
    BY <1>1
  <2>6. QED
    BY <1>1, <2>1, <2>2, <2>3, <2>4, <2>5 DEF EndInv
<1>2. CASE Walker
  BY <1>1, <1>2 DEF Walker, MapChunkOk, MapChunkErr, MapChunkPanic, WalkerFinish, WalkerSkip,
     WalkerSend, WalkerAbandon, WalkerNextChunk, WalkerSendErr, ReceiverAlive
<1>3. CASE WalkCommits \/ WalkCommitsFails \/ NextEvent \/ NextErr \/ Forward \/ ForwardFails
  BY <1>1, <1>3 DEF WalkCommits, WalkCommitsFails, NextEvent, NextErr, Forward, ForwardFails,
     ProducerEnds, ReceiverAlive
<1>4. CASE NextEnd /\ walkerPc = "panicked"
  BY <1>1, <1>4 DEF NextEnd, ProducerEnds, ReceiverAlive
<1>5. CASE NextEnd /\ walkerPc # "panicked"
  <2>1. /\ walkerPc = "done" /\ StreamAlive /\ wchan = <<>> /\ held = NoItem /\ ~ErrSent
        /\ UNCHANGED <<commit, rows, chan, consumerPc, outcome>>
    BY <1>0, <1>5 DEF NextEnd, ControlInv, WalkerDone, StreamAlive, ErrSent
  <2>2. pos > NumOids
    BY <2>1 DEF WalkerInv
  <2>3. \A i \in Oids : commit[i] \in {"keep", "skip"}
    BY <1>0, <2>2 DEF WalkerInv
  <2>4. ReceiverAlive => NoneKept(ChanMark, NumOids + 1)
    BY <1>0, <2>1, <2>2 DEF ChainInv, NoneKept, WChanMark, HeldMark, EndOf
  <2>5. consumerPc \notin {"join", "heads"}
    BY <2>1 DEF ControlInv, StreamAlive, ProducerDone
  <2>6. outcome = "ok" => WholeWalk
    BY DEF EndInv
  <2>7. WholeWalk => WholeWalk'
    BY <2>1 DEF WholeWalk, IsWalk
  <2>8. ReceiverAlive' => NoneKept(ChanMark, NumOids + 1)'
    BY <2>1, <2>4 DEF NoneKept, ChanMark, EndOf, RowMark, ReceiverAlive
  <2>9. QED
    BY <2>1, <2>3, <2>5, <2>6, <2>7, <2>8 DEF EndInv
<1>6. CASE LoadTeamMap \/ LoadTeamMapFails \/ BuildFilter \/ ConsumerFails \/ JoinProducer
           \/ LeaveScope \/ HeadPass \/ HeadPassFails
  BY <1>1, <1>6 DEF LoadTeamMap, LoadTeamMapFails, BuildFilter, ConsumerFails, JoinProducer,
     LeaveScope, HeadPass, HeadPassFails, Return, ReceiverAlive
<1>7. CASE UNCHANGED vars
  BY <1>1, <1>7 DEF vars, ReceiverAlive
<1>8. CASE FlushAll
  <2>1. /\ chan = <<>> /\ ReceiverAlive /\ consumerPc' = "join"
        /\ UNCHANGED <<commit, rows, producerPc, outcome>>
    BY <1>8 DEF FlushAll, ReceiverAlive
  <2>2. ChanMark = RowMark
    BY <2>1 DEF ChanMark, EndOf
  <2>3. producerPc = "ok" => WholeWalk
    BY <1>0, <2>1, <2>2, WalkComplete DEF EndInv, WholeWalk, RowsAreWalkPrefix
  <2>4. WholeWalk => WholeWalk'
    BY <2>1 DEF WholeWalk, IsWalk
  <2>5. QED
    BY <2>1, <2>3, <2>4 DEF EndInv, ReceiverAlive
<1>9. CASE AppendCommit
  <2>1. /\ chan # <<>> /\ chan' = Tail(chan) /\ rows' = Append(rows, chan[1]) /\ ReceiverAlive
        /\ chan[1] \in Oids /\ rows \in Seq(Oids) /\ chan \in Seq(Oids \cup {ErrItem})
        /\ UNCHANGED <<commit, producerPc, consumerPc, outcome>> /\ consumerPc = "recv"
    <3>1. chan \in Seq(Oids \cup {ErrItem}) /\ rows \in Seq(Oids)
      <4>1. Oids \subseteq Oids \cup {ErrItem}
        OBVIOUS
      <4>2. QED
        BY <1>0, <4>1, SeqMonotonic DEF TypeOK
    <3>2. /\ chan # <<>> /\ rows' = Append(rows, Head(chan)) /\ chan' = Tail(chan)
          /\ UNCHANGED <<commit, producerPc, consumerPc, outcome>> /\ consumerPc = "recv"
      BY <1>9 DEF AppendCommit
    <3>3. Head(chan) = chan[1] /\ Head(chan) \in Oids
      BY <1>0, <3>2, HeadTailProperties, Received
    <3>4. QED
      BY <3>1, <3>2, <3>3 DEF ReceiverAlive
  <2>2. RowMark' = chan[1]
    BY <2>1, LastSent DEF RowMark
  <2>3. EndOf(Tail(chan), chan[1]) = ChanMark
    BY <2>1, ChainReceived DEF ChainInv, ChanMark
  <2>4. ChanMark' = ChanMark
    BY <2>1, <2>2, <2>3 DEF ChanMark, EndOf
  <2>5. outcome # "ok"
    BY <2>1 DEF ControlInv
  <2>6. QED
    BY <2>1, <2>4, <2>5 DEF EndInv, NoneKept, ReceiverAlive
<1> QED
  BY <1>2, <1>3, <1>4, <1>5, <1>6, <1>7, <1>8, <1>9 DEF Next, Producer, Consumer

-----------------------------------------------------------------------------
(* The theorems.                                                            *)

LEMMA PipeInvHolds == Spec => [](TypeInv /\ PipeInv)
<1>1. Init => PipeInv
  <2> SUFFICES ASSUME Init PROVE PipeInv
    OBVIOUS
  <2>1. /\ ControlInv /\ WalkerInv
    BY SizesAssumption DEF Init, ControlInv, WalkerInv, StreamAlive, NoItem, Oids, ProducerDone
  <2>2. ChainInv /\ EndInv
    BY DEF Init, ChainInv, EndInv, ReceiverAlive
  <2>3. RowsAreWalkPrefix
    BY DEF Init, RowsAreWalkPrefix, IsWalk, RowMark
  <2>4. QED
    BY <2>1, <2>2, <2>3 DEF PipeInv
<1>2. TypeInv /\ PipeInv /\ [Next]_vars => PipeInv'
  BY ControlStep, WalkerStep, ChainStep, EndStep, RowsStep DEF PipeInv
<1>3. QED
  BY <1>1, <1>2, TypeInvHolds, PTL DEF Spec

\* For every history and every size of chunk and channel, the commits table is
\* at any moment the walk up to its last row: the order and the completeness the
\* rowid tie-breaks of the HEAD queries rely on.
THEOREM RowsInWalkOrder == Spec => []RowsAreWalkPrefix
<1>1. PipeInv => RowsAreWalkPrefix
  BY DEF PipeInv
<1>2. QED
  BY PipeInvHolds, <1>1, PTL

\* A walk cut short, by an unreadable commit, a panic, or a dead thread, never
\* reaches the HEAD-time passes and never ends in Ok.
THEOREM NeverPartial == Spec => []NoPartialSuccess
<1>1. PipeInv => NoPartialSuccess
  BY DEF PipeInv, ControlInv, EndInv, NoPartialSuccess
<1>2. QED
  BY PipeInvHolds, <1>1, PTL

\* The pipeline implements the sequential commit log: every step of a thread
\* either leaves the store's log as it is, or extends it by the next surviving
\* commit, or closes it, as ok only over the whole of a readable history.
THEOREM PipelineImplementsLog == Spec => ImplementsCommitLog
<1>1. Init => Log!Init
  BY DEF Init, Log!Init, Log!Oids, Oids, Kinds, status
<1>2. TypeInv /\ PipeInv /\ [Next]_vars => [Log!Next]_(Log!vars)
  <2> SUFFICES ASSUME TypeInv, PipeInv, [Next]_vars PROVE [Log!Next]_(Log!vars)
    OBVIOUS
  <2>0. /\ TypeOK /\ NumOids \in Nat /\ Oids = 1 .. NumOids /\ Log!Oids = Oids
        /\ rows \in Seq(Oids) /\ chan \in Seq(Oids) /\ Log!Last = RowMark
        /\ outcome = "none" <=> consumerPc # "done"
        /\ outcome = "none" <=> status = "open"
    BY SizesAssumption DEF TypeInv, TypeOK, Oids, Log!Oids, Log!Last, RowMark, PipeInv,
       ControlInv, status
  <2>1. ASSUME UNCHANGED <<commit, rows, outcome>> PROVE UNCHANGED Log!vars
    BY <2>1 DEF Log!vars, status
  <2>2. ASSUME WholeWalk PROVE Log!NothingBetween(Log!Last, NumOids + 1)
    <3> SUFFICES ASSUME NEW i \in Oids, RowMark < i, commit[i] = "keep" PROVE FALSE
      BY <2>0 DEF Log!NothingBetween
    <3>1. PICK k \in 1 .. Len(rows) : rows[k] = i
      BY <2>0, <2>2 DEF WholeWalk, IsWalk
    <3>2. rows # <<>> /\ Len(rows) \in 1 .. Len(rows) /\ RowMark = rows[Len(rows)]
      BY <2>0, <3>1 DEF RowMark
    <3>3. k = Len(rows) \/ rows[k] < rows[Len(rows)]
      <4>1. \A j, l \in 1 .. Len(rows) : j < l => rows[j] < rows[l]
        BY <2>2 DEF WholeWalk, IsWalk
      <4>2. k < Len(rows) \/ k = Len(rows)
        BY <3>1, <3>2
      <4>3. QED
        BY <3>1, <3>2, <4>1, <4>2
    <3>4. QED
      BY <2>0, <3>1, <3>2, <3>3
  <2>3. ASSUME consumerPc # "done", UNCHANGED <<commit, rows>>,
               outcome' \in {"err", "panic"} \/ (outcome' = "ok" /\ WholeWalk)
        PROVE  Log!Next
    <3>1. status = "open"
      BY <2>0, <2>3
    <3>2. CASE outcome' \in {"err", "panic"}
      BY <2>3, <3>1, <3>2 DEF Log!Next, Log!Fail, status
    <3>3. CASE outcome' = "ok" /\ WholeWalk
      BY <2>0, <2>2, <2>3, <3>1, <3>3 DEF Log!Next, Log!Succeed, status, WholeWalk
    <3>4. QED
      BY <2>3, <3>2, <3>3
  <2>4. CASE AppendCommit
    <3>1. /\ chan # <<>> /\ rows' = Append(rows, chan[1]) /\ chan[1] \in Oids
          /\ UNCHANGED <<commit, outcome>> /\ ReceiverAlive /\ 1 \in 1 .. Len(chan)
          /\ consumerPc # "done"
      BY <2>0, <2>4, Received DEF AppendCommit, ReceiverAlive
    <3>2. chan[1] # ErrItem
      BY <2>0, <3>1 DEF ErrItem
    <3>3. Follows(RowMark, chan[1])
      BY <3>1, <3>2 DEF PipeInv, ChainInv, Chain, Prev
    <3>4. Log!Extend
      BY <2>0, <3>1, <3>3 DEF Log!Extend, Log!NothingBetween, Follows, NoneKept, status
    <3>5. QED
      BY <3>4 DEF Log!Next
  <2>5. CASE Walker
    BY <2>1, <2>5 DEF Walker, MapChunkOk, MapChunkErr, MapChunkPanic, WalkerFinish, WalkerSkip,
       WalkerSend, WalkerAbandon, WalkerNextChunk, WalkerSendErr
  <2>6. CASE Producer
    BY <2>1, <2>6 DEF Producer, WalkCommits, WalkCommitsFails, NextEvent, NextErr, NextEnd,
       Forward, ForwardFails
  <2>7. CASE LoadTeamMap \/ BuildFilter \/ ConsumerFails \/ FlushAll \/ UNCHANGED vars
    BY <2>1, <2>7 DEF LoadTeamMap, BuildFilter, ConsumerFails, FlushAll, vars
  <2>8. CASE LoadTeamMapFails \/ LeaveScope \/ HeadPassFails
    <3>1. /\ consumerPc # "done" /\ UNCHANGED <<commit, rows>>
          /\ outcome' \in {"err", "panic"}
      BY <2>8 DEF LoadTeamMapFails, LeaveScope, HeadPassFails, Return
    <3>2. Log!Next
      BY <2>3, <3>1
    <3>3. QED
      BY <3>2
  <2>9. CASE JoinProducer
    <3>1. consumerPc # "done" /\ UNCHANGED <<commit, rows>>
      BY <2>9 DEF JoinProducer
    <3>2. outcome' = outcome \/ outcome' = "err"
      BY <2>9 DEF JoinProducer, Return
    <3>3. CASE outcome' = outcome
      BY <2>1, <3>1, <3>3
    <3>4. CASE outcome' = "err"
      BY <2>3, <3>1, <3>4
    <3>5. QED
      BY <3>2, <3>3, <3>4
  <2>10. CASE HeadPass
    <3>1. WholeWalk
      BY <2>10 DEF HeadPass, PipeInv, ControlInv, EndInv
    <3>2. QED
      BY <2>1, <2>3, <2>10, <3>1 DEF HeadPass, Return
  <2> QED
    BY <2>4, <2>5, <2>6, <2>7, <2>8, <2>9, <2>10 DEF Next, Consumer
<1>3. QED
  BY <1>1, <1>2, PipeInvHolds, PTL DEF Spec, ImplementsCommitLog, Log!Spec

-----------------------------------------------------------------------------
(* The appenders and the flush guard.                                       *)

\* A row count that has just filled a whole number of thresholds stands on a
\* chunk boundary, so the guard has run right before that row.
LEMMA ThresholdIsOnBoundary ==
    ASSUME NEW q \in Nat, NEW n \in Nat, NEW len \in Nat,
           n = q * Threshold + len, len + 1 = Threshold
    PROVE  crosses_chunk_boundary(n)
<1> USE AppendersAssumption
<1>1. ASSUME NEW m \in Nat PROVE (m * STANDARD_VECTOR_SIZE) % STANDARD_VECTOR_SIZE = 0
  OBVIOUS
<1>2. q * Chunks + Chunks \in Nat
  OBVIOUS
<1>3. n + 1 = (q * Chunks + Chunks) * STANDARD_VECTOR_SIZE
  BY DEF Threshold
<1>4. QED
  BY <1>1, <1>2, <1>3 DEF crosses_chunk_boundary

LEMMA ThresholdPositive == Threshold \in Nat \ {0}
  BY AppendersAssumption DEF Threshold

\* The first boundary is the STANDARD_VECTOR_SIZE-th row.
LEMMA FirstBoundary ==
    ASSUME NEW n \in Nat, n + 1 < STANDARD_VECTOR_SIZE
    PROVE  ~crosses_chunk_boundary(n)
  BY AppendersAssumption DEF crosses_chunk_boundary

\* The rows of a buffer with one more appended.
LEMMA RowsOfAppend ==
    ASSUME NEW S, NEW buf \in Seq(S), NEW r \in S
    PROVE  RowsOf(Append(buf, r)) = RowsOf(buf) \cup {r}
<1>1. ASSUME NEW x \in RowsOf(Append(buf, r)) PROVE x \in RowsOf(buf) \cup {r}
  BY DEF RowsOf
<1>2. ASSUME NEW x \in RowsOf(buf) PROVE x \in RowsOf(Append(buf, r))
  <2>1. PICK k \in 1 .. Len(buf) : x = buf[k]
    BY DEF RowsOf
  <2>2. k \in 1 .. Len(Append(buf, r)) /\ Append(buf, r)[k] = x
    BY <2>1
  <2>3. QED
    BY <2>2 DEF RowsOf
<1>3. r \in RowsOf(Append(buf, r))
  <2>1. Len(buf) + 1 \in 1 .. Len(Append(buf, r)) /\ Append(buf, r)[Len(buf) + 1] = r
    OBVIOUS
  <2>2. QED
    BY <2>1 DEF RowsOf
<1>4. QED
  BY <1>1, <1>2, <1>3

LEMMA RowsOfType ==
    ASSUME NEW S, NEW buf \in Seq(S)
    PROVE  RowsOf(buf) \subseteq S
  BY DEF RowsOf

-----------------------------------------------------------------------------
\* Types are invariant: every row a buffer or a table holds is a row of the stream.
THEOREM AppendersTypeCorrect == AppendersSpec => []AppendersTypeOK
<1> USE AppendersAssumption
<1>1. AppendersInit => AppendersTypeOK
  BY DEF AppendersInit, AppendersTypeOK
<1>2. AppendersTypeOK /\ [AppendersNext]_appenders => AppendersTypeOK'
  <2> SUFFICES ASSUME AppendersTypeOK, [AppendersNext]_appenders PROVE AppendersTypeOK'
    OBVIOUS
  <2> USE DEF AppendersTypeOK
  <2>1. RowsOf(cbuf) \subseteq Rev /\ RowsOf(chbuf) \subseteq ChangeRow
        /\ RowsOf(hbuf) \subseteq HunkRow
    BY RowsOfType
  <2>e. <<>> \in Seq(Rev) /\ <<>> \in Seq(ChangeRow) /\ <<>> \in Seq(HunkRow)
    OBVIOUS
  <2>2. CASE append_commit
    <3> DEFINE buf == Append(cbuf, rev + 1)
    <3>1. rev + 1 \in Rev
      BY <2>2 DEF append_commit, Rev
    <3>2. buf \in Seq(Rev)
      BY <3>1
    <3>3. RowsOf(buf) \subseteq Rev
      BY <3>2, RowsOfType
    <3> HIDE DEF buf
    <3>a. \/ cbuf' = buf /\ commits' = commits
          \/ cbuf' = <<>> /\ commits' = commits \cup RowsOf(buf)
      BY <2>2 DEF append_commit, buf
    <3>4. commits' \subseteq Rev /\ cbuf' \in Seq(Rev)
      BY <2>e, <3>a, <3>2, <3>3
    <3>5. QED
      BY <2>2, <3>1, <3>4 DEF append_commit, Rev
  <2>3. CASE append_change
    <3> DEFINE buf == Append(chbuf, [rev |-> rev, path |-> change_appends + 1])
    <3>1. [rev |-> rev, path |-> change_appends + 1] \in ChangeRow
      BY <2>3 DEF append_change, ChangeRow, Rev
    <3>2. buf \in Seq(ChangeRow)
      BY <3>1
    <3>3. RowsOf(buf) \subseteq ChangeRow
      BY <3>2, RowsOfType
    <3> HIDE DEF buf
    <3>4. commits' \subseteq Rev /\ cbuf' \in Seq(Rev)
      BY <2>e, <2>1, <2>3 DEF append_change
    <3>b. \/ chbuf' = buf /\ changes' = changes
          \/ chbuf' = <<>> /\ changes' = changes \cup RowsOf(buf)
      BY <2>3 DEF append_change, buf
    <3>5. changes' \subseteq ChangeRow /\ chbuf' \in Seq(ChangeRow)
      BY <2>e, <3>b, <3>2, <3>3
    <3>6. change_appends' \in 0 .. MaxChanges /\ path' \in 0 .. MaxChanges
          /\ rev' = rev /\ rev > 0
      BY <2>3 DEF append_change
    <3>7. drain' \in {"open", "changes"} /\ UNCHANGED <<hunks, hbuf, hunk_appends>>
      BY <2>3 DEF append_change
    <3>8. QED
      BY <3>4, <3>5, <3>6, <3>7
  <2>4. CASE append_hunk
    <3> DEFINE buf == Append(hbuf, [rev |-> rev, path |-> path, start |-> hunk_appends + 1])
    <3>1. [rev |-> rev, path |-> path, start |-> hunk_appends + 1] \in HunkRow
      BY <2>4 DEF append_hunk, HasChange, HunkRow, Rev
    <3>2. buf \in Seq(HunkRow)
      BY <3>1
    <3>3. RowsOf(buf) \subseteq HunkRow
      BY <3>2, RowsOfType
    <3> HIDE DEF buf
    <3>4. commits' \subseteq Rev /\ cbuf' \in Seq(Rev)
      BY <2>e, <2>1, <2>4 DEF append_hunk, HasChange
    <3>5. changes' \subseteq ChangeRow /\ chbuf' \in Seq(ChangeRow)
      BY <2>e, <2>1, <2>4 DEF append_hunk, HasChange
    <3>c. \/ hbuf' = hbuf /\ hunks' = hunks
          \/ hbuf' = buf /\ hunks' = hunks
          \/ hbuf' = <<>> /\ hunks' = hunks \cup RowsOf(buf)
      BY <2>4 DEF append_hunk, HasChange, buf
    <3>6. hunks' \subseteq HunkRow /\ hbuf' \in Seq(HunkRow)
      BY <2>e, <3>c, <3>2, <3>3
    <3>7. hunk_appends' \in 0 .. MaxHunks /\ UNCHANGED <<change_appends, rev, path>>
      BY <2>4 DEF append_hunk, HasChange
    <3>8. drain' \in {"open", "changes", "hunks"}
      BY <2>4 DEF append_hunk, HasChange
    <3>9. QED
      BY <3>4, <3>5, <3>6, <3>7, <3>8
  <2>5. CASE flush_all
    BY <2>e, <2>1, <2>5 DEF flush_all
  <2>6. CASE UNCHANGED appenders
    BY <2>6 DEF appenders, tables, buffers
  <2>7. QED
    BY <2>2, <2>3, <2>4, <2>5, <2>6 DEF AppendersNext
<1>3. QED
  BY <1>1, <1>2, PTL DEF AppendersSpec

-----------------------------------------------------------------------------
(* The inductive invariant.  While the drain is open, every referenced row  *)
(* has at least been appended; the hunks appender, which nothing flushes    *)
(* before the end, counts its rows modulo Threshold; and so does the        *)
(* changes appender until the hunk guard flushes it for the first time.     *)

ReferencesAppended ==
    /\ \A h \in RowsOf(hbuf) : [rev |-> h.rev, path |-> h.path] \in changes \cup RowsOf(chbuf)
    /\ path > 0 => [rev |-> rev, path |-> path] \in changes \cup RowsOf(chbuf)
    /\ \A c \in RowsOf(chbuf) : c.rev \in commits \cup RowsOf(cbuf)
    /\ rev > 0 => rev \in commits \cup RowsOf(cbuf)

Aligned(appends, buf) ==
    Len(buf) < Threshold /\ \E q \in Nat : appends = q * Threshold + Len(buf)

FlushInv ==
    /\ drain = "open" => /\ ReferencesAppended
                         /\ Aligned(hunk_appends, hbuf)
                         /\ hunk_appends < STANDARD_VECTOR_SIZE
                               => Aligned(change_appends, chbuf)
    /\ GuardedWritesFindTheirParents

\* One more row in an aligned buffer: either it is still aligned, or it is full,
\* the row stood on a chunk boundary, and the emptied buffer is aligned.
LEMMA AlignedAppend ==
    ASSUME NEW S, NEW buf \in Seq(S), NEW r \in S, NEW n \in Nat, Aligned(n, buf)
    PROVE  /\ Len(Append(buf, r)) # Threshold => Aligned(n + 1, Append(buf, r))
           /\ Len(Append(buf, r)) = Threshold
                => crosses_chunk_boundary(n) /\ Aligned(n + 1, <<>>)
<1>1. PICK q \in Nat : n = q * Threshold + Len(buf)
  BY DEF Aligned
<1>2. Len(buf) \in Nat /\ Len(Append(buf, r)) = Len(buf) + 1 /\ Len(buf) < Threshold
  BY DEF Aligned
<1>3. ASSUME Len(Append(buf, r)) # Threshold PROVE Aligned(n + 1, Append(buf, r))
  <2>1. n + 1 = q * Threshold + Len(Append(buf, r))
    BY <1>1, <1>2, ThresholdPositive
  <2>2. Len(Append(buf, r)) < Threshold
    BY <1>2, <1>3, ThresholdPositive
  <2>3. QED
    BY <2>1, <2>2, Zenon DEF Aligned
<1>4. ASSUME Len(Append(buf, r)) = Threshold
      PROVE  crosses_chunk_boundary(n) /\ Aligned(n + 1, <<>>)
  <2>1. crosses_chunk_boundary(n)
    BY <1>1, <1>2, <1>4, ThresholdIsOnBoundary
  <2>2. n + 1 = (q + 1) * Threshold + Len(<<>>)
    BY <1>1, <1>2, <1>4, ThresholdPositive
  <2>3. Len(<<>>) < Threshold /\ q + 1 \in Nat
    BY ThresholdPositive
  <2>4. QED
    BY <2>1, <2>2, <2>3, Zenon DEF Aligned
<1>5. QED
  BY <1>3, <1>4

LEMMA RowsOfEmpty == RowsOf(<<>>) = {}
  BY DEF RowsOf

LEMMA FlushInvInit == AppendersInit => FlushInv
<1> SUFFICES ASSUME AppendersInit PROVE FlushInv
  OBVIOUS
<1>1. ReferencesAppended
  BY RowsOfEmpty DEF AppendersInit, ReferencesAppended
<1>2. Aligned(0, <<>>)
  <2>1. 0 = 0 * Threshold + 0
    BY ThresholdPositive
  <2>2. Len(<<>>) = 0
    OBVIOUS
  <2>3. QED
    BY <2>1, <2>2, ThresholdPositive DEF Aligned
<1>3. QED
  BY <1>1, <1>2 DEF AppendersInit, FlushInv, GuardedWritesFindTheirParents

LEMMA AppendCommitKeepsFlushInv ==
    ASSUME AppendersTypeOK, FlushInv, append_commit PROVE FlushInv'
<1> DEFINE buf == Append(cbuf, rev + 1)
<1>0. cbuf \in Seq(Rev) /\ rev \in 0 .. MaxCommits
  BY DEF AppendersTypeOK
<1>1. rev + 1 \in Rev
  BY <1>0, AppendersAssumption DEF append_commit, Rev
<1>2. RowsOf(buf) = RowsOf(cbuf) \cup {rev + 1}
  BY <1>0, <1>1, RowsOfAppend
<1> HIDE DEF buf
<1>3. \/ cbuf' = buf /\ commits' = commits
      \/ cbuf' = <<>> /\ commits' = commits \cup RowsOf(buf)
  BY DEF append_commit, buf
<1>4. commits' \cup RowsOf(cbuf') = commits \cup RowsOf(cbuf) \cup {rev + 1}
  BY <1>2, <1>3, RowsOfEmpty
<1>5. /\ drain = "open" /\ drain' = "open" /\ rev' = rev + 1 /\ path' = 0
      /\ UNCHANGED <<changes, chbuf, hbuf, change_appends, hunk_appends>>
  BY DEF append_commit
<1>6. ReferencesAppended'
  BY <1>4, <1>5 DEF FlushInv, ReferencesAppended
<1>7. QED
  BY <1>5, <1>6 DEF FlushInv, Aligned, GuardedWritesFindTheirParents

LEMMA AppendChangeKeepsFlushInv ==
    ASSUME AppendersTypeOK, FlushInv, append_change PROVE FlushInv'
<1> DEFINE row == [rev |-> rev, path |-> change_appends + 1]
           buf == Append(chbuf, row)
           guard == crosses_chunk_boundary(change_appends)
           parents == IF guard THEN commits \cup RowsOf(cbuf) ELSE commits
           ok == CommitsPresent(buf, parents)
<1>1. /\ chbuf \in Seq(ChangeRow) /\ change_appends \in Nat /\ hunk_appends \in Nat
      /\ rev \in 0 .. MaxCommits /\ rev > 0 /\ change_appends < MaxChanges
  BY AppendersAssumption DEF AppendersTypeOK, append_change
<1>2. row \in ChangeRow
  BY <1>1, AppendersAssumption DEF ChangeRow, Rev
<1>3. RowsOf(buf) = RowsOf(chbuf) \cup {row}
  BY <1>1, <1>2, RowsOfAppend
<1>4. drain = "open" /\ ReferencesAppended /\ Aligned(hunk_appends, hbuf)
  BY DEF FlushInv, append_change
<1>5. /\ commits' = parents
      /\ cbuf' = IF guard THEN <<>> ELSE cbuf
      /\ UNCHANGED <<hunks, hbuf, hunk_appends, rev>>
      /\ change_appends' = change_appends + 1 /\ path' = change_appends + 1
  BY DEF append_change
<1>6. \/ Len(buf) = Threshold /\ ok /\ changes' = changes \cup RowsOf(buf)
         /\ chbuf' = <<>> /\ drain' = "open"
      \/ Len(buf) # Threshold /\ changes' = changes /\ chbuf' = buf /\ drain' = "open"
      \/ Len(buf) = Threshold /\ ~ok /\ changes' = changes /\ chbuf' = buf
         /\ drain' = "changes"
  BY DEF append_change
<1>7. /\ row.rev = rev /\ row.path = change_appends + 1
      /\ \A c \in RowsOf(buf) : c.rev \in commits \cup RowsOf(cbuf)
  BY <1>1, <1>3, <1>4 DEF ReferencesAppended
<1>8. hunk_appends < STANDARD_VECTOR_SIZE /\ Len(buf) = Threshold
        => guard /\ Aligned(change_appends + 1, <<>>)
  BY <1>1, <1>2, <1>4, AlignedAppend DEF FlushInv
<1>9. hunk_appends < STANDARD_VECTOR_SIZE /\ Len(buf) # Threshold
        => Aligned(change_appends + 1, buf)
  BY <1>1, <1>2, <1>4, AlignedAppend DEF FlushInv
<1>10. guard => ok
  <2> SUFFICES ASSUME guard, NEW k \in 1 .. Len(buf) PROVE buf[k].rev \in commits \cup RowsOf(cbuf)
    BY DEF CommitsPresent
  <2>1. buf[k] \in RowsOf(buf)
    BY DEF RowsOf
  <2>2. QED
    BY <2>1, <1>7
<1> HIDE DEF buf, guard, ok, row
<1>11. commits' \cup RowsOf(cbuf') = commits \cup RowsOf(cbuf)
  BY <1>5, RowsOfEmpty
<1>12. /\ changes \cup RowsOf(chbuf) \subseteq changes' \cup RowsOf(chbuf')
       /\ row \in changes' \cup RowsOf(chbuf')
       /\ RowsOf(chbuf') \subseteq RowsOf(buf)
  BY <1>3, <1>6, RowsOfEmpty
<1>13. row = [rev |-> rev', path |-> path']
  BY <1>5 DEF row
<1>14. ReferencesAppended'
  BY <1>4, <1>5, <1>7, <1>11, <1>12, <1>13 DEF ReferencesAppended
<1>15. hunk_appends < STANDARD_VECTOR_SIZE => drain' = "open" /\ Aligned(change_appends', chbuf')
  BY <1>5, <1>6, <1>8, <1>9, <1>10
<1>16. Aligned(hunk_appends, hbuf)'
  BY <1>4, <1>5 DEF Aligned
<1>17. drain' \in {"open", "changes"} /\ hunk_appends' = hunk_appends
  BY <1>5, <1>6
<1>18. (hunk_appends < STANDARD_VECTOR_SIZE => Aligned(change_appends, chbuf))'
  BY <1>15, <1>17 DEF Aligned
<1>19. GuardedWritesFindTheirParents'
  BY <1>1, <1>15, <1>17, AppendersAssumption
     DEF GuardedWritesFindTheirParents
<1>20. QED
  BY <1>14, <1>16, <1>18, <1>19 DEF FlushInv

LEMMA AppendHunkKeepsFlushInv ==
    ASSUME AppendersTypeOK, FlushInv, append_hunk PROVE FlushInv'
<1> DEFINE row == [rev |-> rev, path |-> path, start |-> hunk_appends + 1]
           buf == Append(hbuf, row)
           guard == crosses_chunk_boundary(hunk_appends)
           grand == IF guard THEN commits \cup RowsOf(cbuf) ELSE commits
           parents == IF guard THEN changes \cup RowsOf(chbuf) ELSE changes
           ok == ChangesPresent(buf, parents)
<1>1. /\ hbuf \in Seq(HunkRow) /\ change_appends \in Nat /\ hunk_appends \in Nat
      /\ rev \in 1 .. MaxCommits /\ path \in 1 .. MaxChanges /\ hunk_appends < MaxHunks
  BY AppendersAssumption DEF AppendersTypeOK, append_hunk, HasChange
<1>2. row \in HunkRow
  BY <1>1, AppendersAssumption DEF HunkRow, Rev
<1>3. RowsOf(buf) = RowsOf(hbuf) \cup {row}
  BY <1>1, <1>2, RowsOfAppend
<1>4. drain = "open" /\ ReferencesAppended /\ Aligned(hunk_appends, hbuf)
  BY DEF FlushInv, append_hunk, HasChange
\* the guard's own flush of changes finds every commit
<1>5. guard => CommitsPresent(chbuf, grand)
  <2> SUFFICES ASSUME guard, NEW k \in 1 .. Len(chbuf)
               PROVE  chbuf[k].rev \in commits \cup RowsOf(cbuf)
    BY DEF CommitsPresent
  <2>1. chbuf[k] \in RowsOf(chbuf)
    BY DEF RowsOf
  <2>2. QED
    BY <2>1, <1>4 DEF ReferencesAppended
<1>6. /\ commits' = grand /\ cbuf' = IF guard THEN <<>> ELSE cbuf
      /\ changes' = parents /\ chbuf' = IF guard THEN <<>> ELSE chbuf
      /\ hunk_appends' = hunk_appends + 1
      /\ UNCHANGED <<change_appends, rev, path>>
  BY <1>5 DEF append_hunk, HasChange
<1>7. \/ Len(buf) = Threshold /\ ok /\ hbuf' = <<>> /\ drain' = "open"
      \/ Len(buf) # Threshold /\ hbuf' = buf /\ drain' = "open"
      \/ Len(buf) = Threshold /\ ~ok
  BY <1>5 DEF append_hunk, HasChange
\* every hunk in the buffer belongs to a change appended before it
<1>8. \A h \in RowsOf(buf) : [rev |-> h.rev, path |-> h.path] \in changes \cup RowsOf(chbuf)
  <2>1. [rev |-> row.rev, path |-> row.path] \in changes \cup RowsOf(chbuf)
    BY <1>1, <1>4 DEF ReferencesAppended
  <2>2. QED
    BY <1>3, <1>4, <2>1 DEF ReferencesAppended
<1>9. guard => ok
  <2> SUFFICES ASSUME guard, NEW k \in 1 .. Len(buf)
               PROVE  [rev |-> buf[k].rev, path |-> buf[k].path] \in changes \cup RowsOf(chbuf)
    BY DEF ChangesPresent
  <2>1. buf[k] \in RowsOf(buf)
    BY DEF RowsOf
  <2>2. QED
    BY <2>1, <1>8
\* a full buffer stands on a boundary, where the guard has just run
<1>10. /\ Len(buf) = Threshold => guard /\ Aligned(hunk_appends + 1, <<>>)
       /\ Len(buf) # Threshold => Aligned(hunk_appends + 1, buf)
  BY <1>1, <1>2, <1>4, AlignedAppend
<1> HIDE DEF buf, guard, ok, row
<1>11. drain' = "open" /\ Aligned(hunk_appends', hbuf')
  BY <1>6, <1>7, <1>9, <1>10
<1>12. /\ commits' \cup RowsOf(cbuf') = commits \cup RowsOf(cbuf)
       /\ changes' \cup RowsOf(chbuf') = changes \cup RowsOf(chbuf)
       /\ RowsOf(chbuf') \subseteq RowsOf(chbuf)
       /\ RowsOf(hbuf') \subseteq RowsOf(buf)
  BY <1>6, <1>7, <1>9, <1>10, RowsOfEmpty
<1>13. ReferencesAppended'
  BY <1>4, <1>6, <1>8, <1>12 DEF ReferencesAppended
\* before the first boundary the guard leaves the changes buffer alone
<1>14. hunk_appends + 1 < STANDARD_VECTOR_SIZE => ~guard /\ Aligned(change_appends, chbuf)
  BY <1>1, <1>4, FirstBoundary, AppendersAssumption DEF FlushInv, guard
<1>15. (hunk_appends < STANDARD_VECTOR_SIZE => Aligned(change_appends, chbuf))'
  BY <1>6, <1>14 DEF Aligned
<1>16. Aligned(hunk_appends, hbuf)'
  BY <1>11 DEF Aligned
<1>17. QED
  BY <1>11, <1>13, <1>15, <1>16
     DEF FlushInv, GuardedWritesFindTheirParents

LEMMA FlushAllKeepsFlushInv ==
    ASSUME AppendersTypeOK, FlushInv, flush_all PROVE FlushInv'
<1>1. ReferencesAppended
  BY DEF FlushInv, flush_all
<1>2. CommitsPresent(chbuf, commits \cup RowsOf(cbuf))
  <2> SUFFICES ASSUME NEW k \in 1 .. Len(chbuf)
               PROVE  chbuf[k].rev \in commits \cup RowsOf(cbuf)
    BY DEF CommitsPresent
  <2>1. chbuf[k] \in RowsOf(chbuf)
    BY DEF RowsOf
  <2>2. QED
    BY <2>1, <1>1 DEF ReferencesAppended
<1>3. ChangesPresent(hbuf, changes \cup RowsOf(chbuf))
  <2> SUFFICES ASSUME NEW k \in 1 .. Len(hbuf)
               PROVE  [rev |-> hbuf[k].rev, path |-> hbuf[k].path] \in changes \cup RowsOf(chbuf)
    BY DEF ChangesPresent
  <2>1. hbuf[k] \in RowsOf(hbuf)
    BY DEF RowsOf
  <2>2. QED
    BY <2>1, <1>1 DEF ReferencesAppended
<1>4. drain' = "done"
  BY <1>2, <1>3 DEF flush_all
<1>5. QED
  BY <1>4 DEF FlushInv, GuardedWritesFindTheirParents

THEOREM FlushInvariant == AppendersSpec => []FlushInv
<1>1. AppendersTypeOK /\ FlushInv /\ [AppendersNext]_appenders => FlushInv'
  <2> SUFFICES ASSUME AppendersTypeOK, FlushInv, [AppendersNext]_appenders PROVE FlushInv'
    OBVIOUS
  <2>1. CASE append_commit
    BY <2>1, AppendCommitKeepsFlushInv
  <2>2. CASE append_change
    BY <2>2, AppendChangeKeepsFlushInv
  <2>3. CASE append_hunk
    BY <2>3, AppendHunkKeepsFlushInv
  <2>4. CASE flush_all
    BY <2>4, FlushAllKeepsFlushInv
  <2>5. CASE UNCHANGED appenders
    BY <2>5 DEF appenders, tables, buffers, FlushInv, ReferencesAppended, Aligned, RowsOf,
       GuardedWritesFindTheirParents
  <2>6. QED
    BY <2>1, <2>2, <2>3, <2>4, <2>5 DEF AppendersNext
<1>2. QED
  BY <1>1, FlushInvInit, AppendersTypeCorrect, PTL DEF AppendersSpec

\* The hunks guard protects the hunks appender for good, and the changes guard
\* the changes appender until the other has flushed it once.
THEOREM GuardedWritesSafe == AppendersSpec => []GuardedWritesFindTheirParents
<1>1. FlushInv => GuardedWritesFindTheirParents
  BY DEF FlushInv
<1>2. QED
  BY <1>1, FlushInvariant, PTL

-----------------------------------------------------------------------------
(* No row is lost: what was appended is in a table or in its buffer.        *)

StreamKept ==
    drain \in {"open", "done"} =>
        /\ commits \cup RowsOf(cbuf) = 1 .. rev
        /\ \A p \in 1 .. change_appends : \E c \in changes \cup RowsOf(chbuf) : c.path = p
        /\ \A n \in 1 .. hunk_appends : \E h \in hunks \cup RowsOf(hbuf) : h.start = n

StreamInv ==
    /\ StreamKept
    /\ drain = "done" => cbuf = <<>> /\ chbuf = <<>> /\ hbuf = <<>>

\* A step that loses none of the rows there were and adds what it counts.
LEMMA StreamGrows ==
    ASSUME AppendersTypeOK, StreamInv, drain = "open", drain' # "done",
           drain' = "open" =>
               /\ commits' \cup RowsOf(cbuf') = commits \cup RowsOf(cbuf) \cup (rev + 1 .. rev')
               /\ rev' \in {rev, rev + 1}
               /\ changes \cup RowsOf(chbuf) \subseteq changes' \cup RowsOf(chbuf')
               /\ \/ change_appends' = change_appends
                  \/ /\ change_appends' = change_appends + 1
                     /\ \E c \in changes' \cup RowsOf(chbuf') : c.path = change_appends + 1
               /\ hunks \cup RowsOf(hbuf) \subseteq hunks' \cup RowsOf(hbuf')
               /\ \/ hunk_appends' = hunk_appends
                  \/ /\ hunk_appends' = hunk_appends + 1
                     /\ \E h \in hunks' \cup RowsOf(hbuf') : h.start = hunk_appends + 1
    PROVE  StreamInv'
<1> SUFFICES ASSUME drain' = "open" PROVE StreamKept'
  BY DEF StreamInv, StreamKept
<1>1. rev \in Nat /\ change_appends \in Nat /\ hunk_appends \in Nat
  BY AppendersAssumption DEF AppendersTypeOK
<1>2. (1 .. rev) \cup (rev + 1 .. rev') = 1 .. rev'
  BY <1>1
<1>3. commits' \cup RowsOf(cbuf') = 1 .. rev'
  BY <1>2 DEF StreamInv, StreamKept
<1>4. \A p \in 1 .. change_appends' : \E c \in changes' \cup RowsOf(chbuf') : c.path = p
  <2>1. CASE change_appends' = change_appends
    BY <2>1 DEF StreamInv, StreamKept
  <2>2. CASE change_appends' = change_appends + 1
    <3>1. 1 .. change_appends' = (1 .. change_appends) \cup {change_appends + 1}
      BY <1>1, <2>2
    <3> QED
      BY <1>1, <2>2, <3>1 DEF StreamInv, StreamKept
  <2> QED
    BY <2>1, <2>2
<1>5. \A n \in 1 .. hunk_appends' : \E h \in hunks' \cup RowsOf(hbuf') : h.start = n
  <2>1. CASE hunk_appends' = hunk_appends
    BY <2>1 DEF StreamInv, StreamKept
  <2>2. CASE hunk_appends' = hunk_appends + 1
    <3>1. 1 .. hunk_appends' = (1 .. hunk_appends) \cup {hunk_appends + 1}
      BY <1>1, <2>2
    <3> QED
      BY <1>1, <2>2, <3>1 DEF StreamInv, StreamKept
  <2> QED
    BY <2>1, <2>2
<1> QED
  BY <1>3, <1>4, <1>5 DEF StreamKept

LEMMA AppendCommitKeepsStream ==
    ASSUME AppendersTypeOK, StreamInv, append_commit PROVE StreamInv'
<1> DEFINE buf == Append(cbuf, rev + 1)
<1>1. cbuf \in Seq(Rev) /\ rev \in Nat /\ rev + 1 \in Rev
  BY AppendersAssumption DEF AppendersTypeOK, append_commit, Rev
<1>2. RowsOf(buf) = RowsOf(cbuf) \cup {rev + 1}
  BY <1>1, RowsOfAppend
<1> HIDE DEF buf
<1>3. \/ cbuf' = buf /\ commits' = commits
      \/ cbuf' = <<>> /\ commits' = commits \cup RowsOf(buf)
  BY DEF append_commit, buf
<1>4. commits' \cup RowsOf(cbuf') = commits \cup RowsOf(cbuf) \cup {rev + 1}
  BY <1>2, <1>3, RowsOfEmpty
<1>5. /\ drain = "open" /\ drain' = "open" /\ rev' = rev + 1
      /\ UNCHANGED <<changes, hunks, chbuf, hbuf, change_appends, hunk_appends>>
  BY DEF append_commit
<1>6. rev + 1 .. rev' = {rev + 1}
  BY <1>1, <1>5
<1> QED
  BY <1>4, <1>5, <1>6, StreamGrows

LEMMA AppendChangeKeepsStream ==
    ASSUME AppendersTypeOK, StreamInv, append_change PROVE StreamInv'
<1> DEFINE row == [rev |-> rev, path |-> change_appends + 1]
           buf == Append(chbuf, row)
<1>1. chbuf \in Seq(ChangeRow) /\ row \in ChangeRow /\ rev \in Nat
  BY AppendersAssumption DEF AppendersTypeOK, append_change, ChangeRow, Rev
<1>2. RowsOf(buf) = RowsOf(chbuf) \cup {row}
  BY <1>1, RowsOfAppend
<1>3. row.path = change_appends + 1
  OBVIOUS
<1>4. /\ drain = "open" /\ drain' \in {"open", "changes"} /\ change_appends' = change_appends + 1
      /\ UNCHANGED <<hunks, hbuf, hunk_appends, rev>>
  BY DEF append_change
<1>5. commits' \cup RowsOf(cbuf') = commits \cup RowsOf(cbuf)
  BY RowsOfEmpty DEF append_change
<1> HIDE DEF buf
<1>6. \/ chbuf' = buf /\ changes' = changes
      \/ chbuf' = <<>> /\ changes' = changes \cup RowsOf(buf)
  BY DEF append_change, buf
<1>7. changes' \cup RowsOf(chbuf') = changes \cup RowsOf(chbuf) \cup {row}
  BY <1>2, <1>6, RowsOfEmpty
<1>8. rev + 1 .. rev' = {}
  BY <1>1, <1>4
<1> HIDE DEF row
<1> QED
  BY <1>3, <1>4, <1>5, <1>7, <1>8, StreamGrows

LEMMA AppendHunkKeepsStream ==
    ASSUME AppendersTypeOK, StreamInv, append_hunk PROVE StreamInv'
<1> DEFINE row == [rev |-> rev, path |-> path, start |-> hunk_appends + 1]
           buf == Append(hbuf, row)
<1>1. hbuf \in Seq(HunkRow) /\ row \in HunkRow /\ rev \in Nat
  BY AppendersAssumption DEF AppendersTypeOK, append_hunk, HasChange, HunkRow, Rev
<1>2. RowsOf(buf) = RowsOf(hbuf) \cup {row}
  BY <1>1, RowsOfAppend
<1>3. row.start = hunk_appends + 1
  OBVIOUS
<1>4. /\ drain = "open" /\ drain' \in {"open", "changes", "hunks"}
      /\ hunk_appends' = hunk_appends + 1 /\ UNCHANGED <<change_appends, rev>>
  BY DEF append_hunk
<1>5. /\ commits' \cup RowsOf(cbuf') = commits \cup RowsOf(cbuf)
      /\ changes' \cup RowsOf(chbuf') = changes \cup RowsOf(chbuf)
  BY RowsOfEmpty DEF append_hunk
<1> HIDE DEF buf
<1>6. drain' = "open" =>
         \/ hbuf' = buf /\ hunks' = hunks
         \/ hbuf' = <<>> /\ hunks' = hunks \cup RowsOf(buf)
  BY DEF append_hunk, buf
<1>7. drain' = "open" => hunks' \cup RowsOf(hbuf') = hunks \cup RowsOf(hbuf) \cup {row}
  BY <1>2, <1>6, RowsOfEmpty
<1>8. rev + 1 .. rev' = {}
  BY <1>1, <1>4
<1> HIDE DEF row
<1> QED
  BY <1>3, <1>4, <1>5, <1>7, <1>8, StreamGrows

LEMMA FlushAllKeepsStream ==
    ASSUME AppendersTypeOK, StreamInv, flush_all PROVE StreamInv'
<1>1. drain = "open" /\ UNCHANGED <<change_appends, hunk_appends, rev>>
  BY DEF flush_all
<1>2. drain' = "open" \/ drain' = "done" =>
          /\ cbuf' = <<>> /\ chbuf' = <<>> /\ hbuf' = <<>>
          /\ commits' = commits \cup RowsOf(cbuf) /\ changes' = changes \cup RowsOf(chbuf)
          /\ hunks' = hunks \cup RowsOf(hbuf)
  BY DEF flush_all
<1> QED
  BY <1>1, <1>2, RowsOfEmpty DEF StreamInv, StreamKept

\* A drain that completes has lost no row of any of the three appenders, however
\* the guard's flushes and their own writes fell (ingest_loop).
THEOREM NothingLost == AppendersSpec => []DoneMeansAllWritten
<1>1. AppendersInit => StreamInv
  BY RowsOfEmpty DEF AppendersInit, StreamInv, StreamKept
<1>2. AppendersTypeOK /\ StreamInv /\ [AppendersNext]_appenders => StreamInv'
  <2>1. CASE UNCHANGED appenders
    BY <2>1 DEF appenders, tables, buffers, StreamInv, StreamKept, RowsOf
  <2> QED
    BY <2>1, AppendCommitKeepsStream, AppendChangeKeepsStream, AppendHunkKeepsStream, FlushAllKeepsStream
       DEF AppendersNext
<1>3. StreamInv => DoneMeansAllWritten
  BY RowsOfEmpty DEF StreamInv, StreamKept, DoneMeansAllWritten
<1> QED
  BY <1>1, <1>2, <1>3, AppendersTypeCorrect, PTL DEF AppendersSpec
=============================================================================
