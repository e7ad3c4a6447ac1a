------------------------------ MODULE McpMemo ------------------------------
(***************************************************************************)
(* The MCP server's tool calls and their result memo.  A call waits for one *)
(* of MAX_CONCURRENT_CALLS permits, runs on the blocking pool, and releases *)
(* the permit however it ends.  In between it probes the calibration        *)
(* artifact, resolves HEAD, asks the memo, and on a miss computes: the      *)
(* fact-store open resolves HEAD again, and the analyses read the artifact. *)
(* The memo is locked for one get or one put, never across the compute.     *)
(*                                                                          *)
(* A result is the HEAD and the artifact it was computed from.  Queries are *)
(* (tool, canonical parameters); the compute itself is FactStoreCache's.    *)
(***************************************************************************)
EXTENDS Integers, Sequences, FiniteSets, Functions

CONSTANTS Calls,                 \* tool calls, each made once
          Queries, QueryOf,      \* what each call asks
          Bypass,                \* calls that never touch the memo
          Shas,
          MAX_CONCURRENT_CALLS,
          MEMO_CAPACITY,
          MaxMoves               \* bound on changes to the repository

ASSUME McpAssumption ==
    /\ QueryOf \in [Calls -> Queries] /\ Bypass \subseteq Calls
    /\ MAX_CONCURRENT_CALLS \in Nat \ {0} /\ MEMO_CAPACITY \in Nat \ {0}
    /\ MaxMoves \in Nat

VARIABLES head, artifact,     \* HEAD, and the artifact's (len, mtime)
          moves,              \* changes made to them so far
          waiting,            \* calls waiting for a permit, first come first served
          permits,            \* permits left
          pc,
          probe, sha,         \* what each call read before its lookup
          facts,              \* the HEAD its compute resolved
          moved,              \* did anything move while the call was at work
          answer,             \* result, or an error
          memoHead, entries   \* MemoState

repo == <<head, artifact, moves>>
memo == <<memoHead, entries>>
vars == <<repo, waiting, permits, pc, probe, sha, facts, moved, answer, memo>>

Artifacts == 0 .. MaxMoves
NoSha == "no sha"
Error == [error |-> TRUE]
Results == [sha : Shas, art : Artifacts, moved : BOOLEAN]
Keys == [query : Queries, art : Artifacts]

\* memo_key: the query and the probe, never HEAD, which is the memo's scope.
KeyOf(c) == [query |-> QueryOf[c], art |-> probe[c]]

Running == {"probe", "resolve", "get", "open", "analyse", "put"}
Busy == {c \in Calls : pc[c] \in Running}
Result(c) == [sha |-> facts[c], art |-> artifact, moved |-> moved[c]]

Init ==
    /\ head \in Shas /\ artifact = 0 /\ moves = 0
    /\ waiting = <<>> /\ permits = MAX_CONCURRENT_CALLS
    /\ pc = [c \in Calls |-> "idle"]
    /\ probe = [c \in Calls |-> 0] /\ sha = [c \in Calls |-> head]
    /\ facts = [c \in Calls |-> head] /\ moved = [c \in Calls |-> FALSE]
    /\ answer = [c \in Calls |-> Error]
    /\ memoHead = NoSha /\ entries = <<>>

-----------------------------------------------------------------------------
(* One call.                                                                *)

Goto(c, label) == pc' = [pc EXCEPT ![c] = label]

Request(c) ==
    /\ pc[c] = "idle" /\ Goto(c, "waiting")
    /\ waiting' = Append(waiting, c)
    /\ UNCHANGED <<repo, permits, probe, sha, facts, moved, answer, memo>>

\* acquire_owned: the permit moves into the blocking closure.
Admit(c) ==
    /\ waiting # <<>> /\ c = Head(waiting) /\ permits > 0
    /\ permits' = permits - 1 /\ waiting' = Tail(waiting)
    /\ Goto(c, "probe")
    /\ UNCHANGED <<repo, probe, sha, facts, moved, answer, memo>>

\* Mutant: the permit given back on success only.
EndsKeepingPermit(c, result) ==
    /\ Goto(c, "answered") /\ answer' = [answer EXCEPT ![c] = result]
    /\ permits' = IF result = Error THEN permits ELSE permits + 1

\* The closure ends, by a result, an error or a panic: the permit is dropped.
Ends(c, result) ==
    /\ Goto(c, "answered") /\ answer' = [answer EXCEPT ![c] = result]
    /\ permits' = permits + 1

\* calibration_key_fragment
Probe(c) ==
    /\ pc[c] = "probe" /\ Goto(c, "resolve")
    /\ probe' = [probe EXCEPT ![c] = artifact]
    /\ UNCHANGED <<repo, waiting, permits, sha, facts, moved, answer, memo>>

\* repo.head_sha() of `memoized`
Resolve(c) ==
    /\ pc[c] = "resolve" /\ Goto(c, IF c \in Bypass THEN "open" ELSE "get")
    /\ sha' = [sha EXCEPT ![c] = head]
    /\ UNCHANGED <<repo, waiting, permits, probe, facts, moved, answer, memo>>

\* Mutant: the scope adopted, the entries of the old one kept.
GetKeepsEntries(c) ==
    /\ pc[c] = "get"
    /\ memoHead' = sha[c] /\ UNCHANGED entries
    /\ IF KeyOf(c) \in DOMAIN entries
       THEN Ends(c, entries[KeyOf(c)])
       ELSE Goto(c, "open") /\ UNCHANGED <<permits, answer>>
    /\ UNCHANGED <<repo, waiting, probe, sha, facts, moved>>

\* ResultMemo::get: another HEAD drops every entry and becomes the scope.
Get(c) ==
    /\ pc[c] = "get"
    /\ memoHead' = sha[c]
    /\ entries' = IF memoHead = sha[c] THEN entries ELSE <<>>
    /\ IF memoHead = sha[c] /\ KeyOf(c) \in DOMAIN entries
       THEN Ends(c, entries[KeyOf(c)])
       ELSE Goto(c, "open") /\ UNCHANGED <<permits, answer>>
    /\ UNCHANGED <<repo, waiting, probe, sha, facts, moved>>

\* open_or_ingest_with_cache_root resolves HEAD for itself.
OpenFacts(c) ==
    /\ pc[c] = "open" /\ Goto(c, "analyse")
    /\ facts' = [facts EXCEPT ![c] = head]
    /\ UNCHANGED <<repo, waiting, permits, probe, sha, moved, answer, memo>>

\* The analyses, which read the artifact.
Analyse(c) ==
    /\ pc[c] = "analyse"
    /\ IF c \in Bypass
       THEN Ends(c, Result(c))
       ELSE Goto(c, "put") /\ answer' = [answer EXCEPT ![c] = Result(c)] /\ UNCHANGED permits
    /\ UNCHANGED <<repo, waiting, probe, sha, facts, moved, memo>>

\* The repository, the open or an analysis fails, or panics: nothing is stored.
Fails(c) ==
    /\ pc[c] \in {"resolve", "open", "analyse"}
    /\ Ends(c, Error)
    /\ UNCHANGED <<repo, waiting, probe, sha, facts, moved, memo>>

\* Mutant: the map cleared one entry late.
FullLate(key) == Cardinality(DOMAIN entries) > MEMO_CAPACITY /\ key \notin DOMAIN entries

Full(key) == Cardinality(DOMAIN entries) >= MEMO_CAPACITY /\ key \notin DOMAIN entries

With(f, key, value) ==
    [k \in DOMAIN f \cup {key} |-> IF k = key THEN value ELSE f[k]]

\* ResultMemo::put: dropped when another call has moved the scope on.
Put(c) ==
    /\ pc[c] = "put"
    /\ entries' = IF memoHead # sha[c] THEN entries
                  ELSE With(IF Full(KeyOf(c)) THEN <<>> ELSE entries, KeyOf(c), answer[c])
    /\ Ends(c, answer[c])
    /\ UNCHANGED <<repo, waiting, probe, sha, facts, moved, memoHead>>

Serve(c) == \/ Admit(c) \/ Probe(c) \/ Resolve(c) \/ Get(c) \/ OpenFacts(c)
            \/ Analyse(c) \/ Fails(c) \/ Put(c)

-----------------------------------------------------------------------------
(* The repository, changed by others.                                       *)

Moves ==
    /\ moves < MaxMoves /\ moves' = moves + 1
    /\ moved' = [c \in Calls |-> moved[c] \/ pc[c] \in Running]
    /\ UNCHANGED <<waiting, permits, pc, probe, sha, facts, answer, memo>>

MoveHead ==
    /\ Moves /\ UNCHANGED artifact
    /\ \E s \in Shas \ {head} : head' = s

\* `codelore calibrate` rewrites the artifact; its mtime never comes back.
Regenerate ==
    /\ Moves /\ UNCHANGED head
    /\ artifact' = artifact + 1

Next == (\E c \in Calls : Request(c) \/ Serve(c)) \/ MoveHead \/ Regenerate

Spec == Init /\ [][Next]_vars

\* The runtime polls every call it has accepted.
FairSpec == Spec /\ \A c \in Calls : WF_vars(Serve(c))

-----------------------------------------------------------------------------
(* Properties.                                                              *)

Types ==
    /\ head \in Shas /\ moves \in 0 .. MaxMoves /\ artifact \in 0 .. moves
    /\ waiting \in Seq(Calls)
    /\ permits \in Nat /\ permits + Cardinality(Busy) = MAX_CONCURRENT_CALLS
    /\ pc \in [Calls -> Running \cup {"idle", "waiting", "answered"}]
    /\ probe \in [Calls -> Artifacts] /\ sha \in [Calls -> Shas]
    /\ facts \in [Calls -> Shas] /\ moved \in [Calls -> BOOLEAN]
    /\ answer \in [Calls -> Results \cup {Error}]
    /\ memoHead \in Shas \cup {NoSha}
    /\ DOMAIN entries \subseteq Keys /\ Range(entries) \subseteq Results

TypeOK == Types /\ Cardinality(DOMAIN entries) <= MEMO_CAPACITY

\* However calls that miss, advance the scope and store interleave, an answer,
\* replayed or computed, is about the HEAD its call resolved and the artifact
\* it probed, unless the repository moved under the call that computed it.
AnswerDescribesItsCall ==
    \A c \in Calls : pc[c] = "answered" /\ answer[c] # Error /\ ~answer[c].moved
                        => answer[c].sha = sha[c] /\ answer[c].art = probe[c]

\* Every call that waits is answered: errors, panics and hits give back the
\* permit that the calls behind them need.
EveryCallIsAnswered ==
    \A c \in Calls : pc[c] = "waiting" ~> pc[c] = "answered"
=============================================================================
