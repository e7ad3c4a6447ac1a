--------------------------- MODULE IngestPipeline ---------------------------
(***************************************************************************)
(* The commit-walk ingest of codelore-lib: three threads joined by two      *)
(* bounded channels.                                                        *)
(*                                                                          *)
(*   walker    `codelore-gix-walker`, spawned by GixRepo::walk_commits:     *)
(*             maps the OIDs chunk by chunk, in walk order, and sends the   *)
(*             surviving commit events into the walker channel;             *)
(*   producer  the scoped thread of FactsDb::ingest: pulls the walker's     *)
(*             stream (WalkerStream) and forwards it into the commit        *)
(*             channel;                                                     *)
(*   consumer  the thread that called FactsDb::ingest: appends one commits  *)
(*             row per event (ingest_loop), flushes, joins the producer and *)
(*             runs the HEAD-time passes.                                   *)
(*                                                                          *)
(* An OID is its position in the walk, 1 .. NumOids, so a commits row is an *)
(* OID and its rowid is its index in `rows`.                                *)
(***************************************************************************)
EXTENDS Integers, Sequences

CONSTANTS NumOids,     \* commits reachable from HEAD, in walk order
          ChunkSize,   \* WALKER_CHUNK_SIZE
          WalkerCap,   \* WALKER_CHANNEL_CAPACITY
          ChannelCap,  \* DEFAULT_CHANNEL_CAPACITY
          NumPasses    \* HEAD-time passes that follow the walk

ASSUME SizesAssumption ==
    /\ NumOids \in Nat \ {0}
    /\ ChunkSize \in Nat \ {0}
    /\ WalkerCap \in Nat \ {0}
    /\ ChannelCap \in Nat \ {0}
    /\ NumPasses \in Nat \ {0}

VARIABLES commit,      \* what process_commit_oid makes of each OID
          walkerPc,    \* walker thread
          pos,         \* the walker's next OID to hand over
          lim,         \* last OID of the chunk mapped so far
          wchan,       \* walker channel: OIDs, or ErrItem
          producerPc,  \* producer thread
          held,        \* event between the producer's next() and send()
          chan,        \* commit channel
          consumerPc,  \* calling thread
          pass,        \* HEAD-time passes completed
          rows,        \* commits table in rowid order
          outcome      \* what ingest returned

walkerVars == <<walkerPc, pos, lim>>
vars == <<commit, walkerVars, wchan, producerPc, held, chan, consumerPc,
          pass, rows, outcome>>

Oids == 1 .. NumOids

\* keep: Ok(Some(event)); skip: Ok(None), filtered out by the merge or date
\* predicate; bad: Err; boom: the worker panics.
Kinds == {"keep", "skip", "bad", "boom"}

ErrItem == 0     \* the Err the walker sends before it gives up
NoItem  == 0     \* the producer holds no event

WalkerDone   == {"unborn", "done", "panicked"}
ProducerDone == {"ok", "err", "panicked"}

\* The walker's receiver lives in the WalkerStream, which the producer owns
\* until its closure ends; the producer's receiver is owned by ingest_loop.
StreamAlive   == producerPc \in {"next", "send"}

\* Mutant: a receiver that outlives the loop that failed.
ReceiverLingers == consumerPc \in {"filter", "recv", "failed"}

ReceiverAlive == consumerPc \in {"filter", "recv"}

Init ==
    /\ commit \in [Oids -> Kinds]
    /\ walkerPc = "unborn" /\ pos = 1 /\ lim = 0
    /\ wchan = <<>>
    /\ producerPc = "unborn" /\ held = NoItem
    /\ chan = <<>>
    /\ consumerPc = "load" /\ pass = 0
    /\ rows = <<>>
    /\ outcome = "none"

-----------------------------------------------------------------------------
(* The walker thread.                                                       *)

Chunk == {i \in Oids : i >= pos /\ i < pos + ChunkSize}

\* Mutant: the chunk's end one too far.
ChunkEndInclusive == pos + ChunkSize

ChunkEnd == IF pos + ChunkSize - 1 < NumOids THEN pos + ChunkSize - 1 ELSE NumOids

\* `par_iter().map(process_commit_oid).collect::<Result<Vec<_>>>()` yields every
\* event of the chunk, or one error; a worker's panic is resumed on the walker.
MapChunkOk ==
    /\ walkerPc = "map" /\ pos <= NumOids
    /\ \A i \in Chunk : commit[i] \in {"keep", "skip"}
    /\ walkerPc' = "send" /\ lim' = ChunkEnd
    /\ UNCHANGED <<commit, pos, wchan, producerPc, held, chan, consumerPc, pass, rows, outcome>>

MapChunkErr ==
    /\ walkerPc = "map" /\ pos <= NumOids
    /\ \E i \in Chunk : commit[i] = "bad"
    /\ walkerPc' = "sendErr"
    /\ UNCHANGED <<commit, pos, lim, wchan, producerPc, held, chan, consumerPc, pass, rows, outcome>>

MapChunkPanic ==
    /\ walkerPc = "map" /\ pos <= NumOids
    /\ \E i \in Chunk : commit[i] = "boom"
    /\ walkerPc' = "panicked"
    /\ UNCHANGED <<commit, pos, lim, wchan, producerPc, held, chan, consumerPc, pass, rows, outcome>>

\* No chunk left: the closure ends and drops its sender.
WalkerFinish ==
    /\ walkerPc = "map" /\ pos > NumOids
    /\ walkerPc' = "done"
    /\ UNCHANGED <<commit, pos, lim, wchan, producerPc, held, chan, consumerPc, pass, rows, outcome>>

\* `flatten()` passes over the filtered commits.
WalkerSkip ==
    /\ walkerPc = "send" /\ pos <= lim
    /\ commit[pos] = "skip"
    /\ pos' = pos + 1
    /\ UNCHANGED <<commit, walkerPc, lim, wchan, producerPc, held, chan, consumerPc, pass, rows, outcome>>

\* Mutant: events sent by the parallel workers, in the order they finish.
WalkerSendUnordered ==
    /\ walkerPc = "send" /\ pos <= lim
    /\ StreamAlive /\ Len(wchan) < WalkerCap
    /\ \E i \in pos .. lim : commit[i] = "keep" /\ wchan' = Append(wchan, i)
    /\ pos' = pos + 1
    /\ UNCHANGED <<commit, walkerPc, lim, producerPc, held, chan, consumerPc, pass, rows, outcome>>

\* tx.send(Ok(event)) blocks while the channel is full.
WalkerSend ==
    /\ walkerPc = "send" /\ pos <= lim
    /\ commit[pos] = "keep"
    /\ StreamAlive /\ Len(wchan) < WalkerCap
    /\ wchan' = Append(wchan, pos) /\ pos' = pos + 1
    /\ UNCHANGED <<commit, walkerPc, lim, producerPc, held, chan, consumerPc, pass, rows, outcome>>

\* A dropped receiver fails the send: the walker returns.
WalkerAbandon ==
    /\ \/ walkerPc = "send" /\ pos <= lim /\ commit[pos] = "keep"
       \/ walkerPc = "sendErr"
    /\ ~StreamAlive
    /\ walkerPc' = "done"
    /\ UNCHANGED <<commit, pos, lim, wchan, producerPc, held, chan, consumerPc, pass, rows, outcome>>

WalkerNextChunk ==
    /\ walkerPc = "send" /\ pos > lim
    /\ walkerPc' = "map"
    /\ UNCHANGED <<commit, pos, lim, wchan, producerPc, held, chan, consumerPc, pass, rows, outcome>>

WalkerSendErr ==
    /\ walkerPc = "sendErr"
    /\ StreamAlive /\ Len(wchan) < WalkerCap
    /\ wchan' = Append(wchan, ErrItem)
    /\ walkerPc' = "done"
    /\ UNCHANGED <<commit, pos, lim, producerPc, held, chan, consumerPc, pass, rows, outcome>>

Walker == \/ MapChunkOk \/ MapChunkErr \/ MapChunkPanic \/ WalkerFinish
          \/ WalkerSkip \/ WalkerSend \/ WalkerAbandon \/ WalkerNextChunk
          \/ WalkerSendErr

-----------------------------------------------------------------------------
(* The producer thread.  When its closure ends, on any path, the stream and *)
(* the sender it captured are dropped: what the walker channel still holds  *)
(* is discarded.                                                            *)

ProducerEnds(pc) == producerPc' = pc /\ wchan' = <<>> /\ held' = NoItem

\* walk_commits gathers the OIDs on this thread, then spawns the walker.
WalkCommits ==
    /\ producerPc = "walk"
    /\ producerPc' = "next" /\ walkerPc' = "map"
    /\ UNCHANGED <<commit, pos, lim, wchan, held, chan, consumerPc, pass, rows, outcome>>

WalkCommitsFails ==
    /\ producerPc = "walk"
    /\ \E pc \in {"err", "panicked"} : ProducerEnds(pc)
    /\ UNCHANGED <<commit, walkerVars, chan, consumerPc, pass, rows, outcome>>

\* WalkerStream::next with an item in the channel; `let event = event?`.
NextEvent ==
    /\ producerPc = "next" /\ wchan # <<>>
    /\ Head(wchan) # ErrItem
    /\ held' = Head(wchan) /\ wchan' = Tail(wchan)
    /\ producerPc' = "send"
    /\ UNCHANGED <<commit, walkerVars, chan, consumerPc, pass, rows, outcome>>

NextErr ==
    /\ producerPc = "next" /\ wchan # <<>>
    /\ Head(wchan) = ErrItem
    /\ ProducerEnds("err")
    /\ UNCHANGED <<commit, walkerVars, chan, consumerPc, pass, rows, outcome>>

\* Mutant: a drained channel is the end of the walk, whatever became of the walker.
NextEndUnjoined ==
    /\ producerPc = "next" /\ wchan = <<>>
    /\ walkerPc \in WalkerDone
    /\ ProducerEnds("ok")
    /\ UNCHANGED <<commit, walkerVars, chan, consumerPc, pass, rows, outcome>>

\* WalkerStream::next on a drained channel joins the walker: a panic surfaces
\* as one final Err, otherwise the stream is over and the producer returns Ok.
NextEnd ==
    /\ producerPc = "next" /\ wchan = <<>>
    /\ walkerPc \in WalkerDone
    /\ ProducerEnds(IF walkerPc = "panicked" THEN "err" ELSE "ok")
    /\ UNCHANGED <<commit, walkerVars, chan, consumerPc, pass, rows, outcome>>

Forward ==
    /\ producerPc = "send"
    /\ ReceiverAlive /\ Len(chan) < ChannelCap
    /\ chan' = Append(chan, held) /\ held' = NoItem
    /\ producerPc' = "next"
    /\ UNCHANGED <<commit, walkerVars, wchan, consumerPc, pass, rows, outcome>>

\* The consumer dropped its receiver: `channel send` error.
ForwardFails ==
    /\ producerPc = "send"
    /\ ~ReceiverAlive
    /\ ProducerEnds("err")
    /\ UNCHANGED <<commit, walkerVars, chan, consumerPc, pass, rows, outcome>>

Producer == \/ WalkCommits \/ WalkCommitsFails \/ NextEvent \/ NextErr
            \/ NextEnd \/ Forward \/ ForwardFails

-----------------------------------------------------------------------------
(* The calling thread.                                                      *)

Return(o) == consumerPc' = "done" /\ outcome' = o

\* The team map is read before any thread exists.
LoadTeamMap ==
    /\ consumerPc = "load"
    /\ consumerPc' = "filter" /\ producerPc' = "walk"
    /\ UNCHANGED <<commit, walkerVars, wchan, held, chan, pass, rows, outcome>>

LoadTeamMapFails ==
    /\ consumerPc = "load"
    /\ Return("err")
    /\ UNCHANGED <<commit, walkerVars, wchan, producerPc, held, chan, pass, rows>>

\* PathsFilter::from_opts, then the appenders.
BuildFilter ==
    /\ consumerPc = "filter"
    /\ consumerPc' = "recv"
    /\ UNCHANGED <<commit, walkerVars, wchan, producerPc, held, chan, pass, rows, outcome>>

\* A `?` before the join leaves the scope's closure: the receiver is dropped
\* with what it holds, and the scope waits for the producer.
ConsumerFails ==
    /\ \/ consumerPc = "filter"
       \/ consumerPc = "recv" /\ chan # <<>>
       \/ consumerPc = "recv" /\ producerPc \in ProducerDone   \* final flush
    /\ consumerPc' = "failed" /\ chan' = <<>>
    /\ UNCHANGED <<commit, walkerVars, wchan, producerPc, held, pass, rows, outcome>>

\* `for event in rx`: one commits row, appended after every earlier one.
AppendCommit ==
    /\ consumerPc = "recv" /\ chan # <<>>
    /\ rows' = Append(rows, Head(chan)) /\ chan' = Tail(chan)
    /\ UNCHANGED <<commit, walkerVars, wchan, producerPc, held, consumerPc, pass, outcome>>

\* Channel drained and its sender gone: the appenders are flushed.
FlushAll ==
    /\ consumerPc = "recv" /\ chan = <<>>
    /\ producerPc \in ProducerDone
    /\ consumerPc' = "join"
    /\ UNCHANGED <<commit, walkerVars, wchan, producerPc, held, chan, pass, rows, outcome>>

\* Mutant: the panic is mapped, the producer's own Err is not looked at.
JoinIgnoresErr ==
    /\ consumerPc = "join"
    /\ IF producerPc # "panicked"
       THEN consumerPc' = "heads" /\ UNCHANGED outcome
       ELSE Return("err")
    /\ UNCHANGED <<commit, walkerVars, wchan, producerPc, held, chan, pass, rows>>

\* producer.join(): its panic and its error both become ingest's error.
JoinProducer ==
    /\ consumerPc = "join"
    /\ IF producerPc = "ok"
       THEN consumerPc' = "heads" /\ UNCHANGED outcome
       ELSE Return("err")
    /\ UNCHANGED <<commit, walkerVars, wchan, producerPc, held, chan, pass, rows>>

\* The end of thread::scope after an early `?`: the handle was dropped without
\* a join, so the scope re-raises the panic of its thread.
LeaveScope ==
    /\ consumerPc = "failed"
    /\ producerPc \in ProducerDone
    /\ Return(IF producerPc = "panicked" THEN "panic" ELSE "err")
    /\ UNCHANGED <<commit, walkerVars, wchan, producerPc, held, chan, pass, rows>>

\* complexity, kamei, clones, imports, import resolution, grouping: in order.
HeadPass ==
    /\ consumerPc = "heads" /\ pass < NumPasses
    /\ pass' = pass + 1
    /\ IF pass' = NumPasses THEN Return("ok") ELSE UNCHANGED <<consumerPc, outcome>>
    /\ UNCHANGED <<commit, walkerVars, wchan, producerPc, held, chan, rows>>

HeadPassFails ==
    /\ consumerPc = "heads" /\ pass < NumPasses
    /\ Return("err")
    /\ UNCHANGED <<commit, walkerVars, wchan, producerPc, held, chan, pass, rows>>

Consumer == \/ LoadTeamMap \/ LoadTeamMapFails \/ BuildFilter \/ ConsumerFails
            \/ AppendCommit \/ FlushAll \/ JoinProducer \/ LeaveScope
            \/ HeadPass \/ HeadPassFails

-----------------------------------------------------------------------------

Next == Walker \/ Producer \/ Consumer

\* Each thread is scheduled by the operating system.
Fairness == WF_vars(Walker) /\ WF_vars(Producer) /\ WF_vars(Consumer)

Spec == Init /\ [][Next]_vars
FairSpec == Spec /\ Fairness

-----------------------------------------------------------------------------
(* Properties.                                                              *)

\* Types, channel capacities and the positions' ranges.
TypeOK ==
    /\ commit \in [Oids -> Kinds]
    /\ walkerPc \in {"unborn", "map", "send", "sendErr", "done", "panicked"}
    /\ pos \in 1 .. NumOids + 1
    /\ lim \in 0 .. NumOids
    /\ wchan \in Seq(Oids \cup {ErrItem}) /\ Len(wchan) <= WalkerCap
    /\ producerPc \in {"unborn", "walk", "next", "send"} \cup ProducerDone
    /\ held \in Oids \cup {NoItem}
    /\ chan \in Seq(Oids) /\ Len(chan) <= ChannelCap
    /\ consumerPc \in {"load", "filter", "recv", "failed", "join", "heads", "done"}
    /\ pass \in 0 .. NumPasses
    /\ rows \in Seq(Oids)
    /\ outcome \in {"none", "ok", "err", "panic"}

\* s holds exactly the kept OIDs of (lo, hi], in walk order.
IsWalk(s, lo, hi) ==
    /\ \A k \in 1 .. Len(s) : s[k] \in lo + 1 .. hi /\ commit[s[k]] = "keep"
    /\ \A j, k \in 1 .. Len(s) : j < k => s[j] < s[k]
    /\ \A i \in lo + 1 .. hi : commit[i] = "keep" => \E k \in 1 .. Len(s) : s[k] = i

RowMark == IF rows = <<>> THEN 0 ELSE rows[Len(rows)]

\* The rowid tie-break of current_head_rev and query_live_paths needs the rows
\* in walk order with none left out, whatever the chunks, the channels and the
\* errors do: at any moment the table is the walk up to its last row.
RowsAreWalkPrefix == IsWalk(rows, 0, RowMark)

\* The whole history: every OID was readable and every kept one has its row.
WholeWalk ==
    /\ \A i \in Oids : commit[i] \in {"keep", "skip"}
    /\ IsWalk(rows, 0, NumOids)

\* A truncated walk never passes for a complete one: neither the HEAD-time
\* passes nor an Ok result see a store that misses a commit, whichever thread
\* failed, and in whatever order the errors and the ends of stream arrive.
NoPartialSuccess ==
    consumerPc = "heads" \/ outcome = "ok" => WholeWalk

\* No thread stays blocked on a full or an empty channel: ingest returns and
\* the walker, which nobody joins when the consumer fails, ends too.
Terminates == <>[](outcome # "none" /\ walkerPc \in WalkerDone)

-----------------------------------------------------------------------------
(* The pipeline implements the commit log: a panic that leaves ingest is a  *)
(* failure, and the moment it returns is the moment the log closes.         *)

status == CASE outcome = "none" -> "open"
            [] outcome = "ok"   -> "ok"
            [] OTHER            -> "err"

Log == INSTANCE CommitLog WITH log <- rows, status <- status

\* Neither the chunked parallel map, nor the two channels, nor any of the error
\* paths is visible in the store: it grows along the walk and closes as ok only
\* when it holds all of it.
ImplementsCommitLog == Log!Spec

=============================================================================
