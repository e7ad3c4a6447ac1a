--------------------------- MODULE FactStoreCache ---------------------------
(***************************************************************************)
(* The persistent fact-store cache of codelore-lib: several processes run   *)
(* FactsDb::open_or_ingest_with_cache_root over one cache root while HEADs  *)
(* move, processes die and the machine loses power.                         *)
(*                                                                          *)
(* A run resolves HEAD, derives its key, and opens the entry of that key or *)
(* ingests into a temporary file of its own, which it syncs and renames     *)
(* into place; it then prunes its repository's directory and the whole      *)
(* cache root, and re-opens the entry it has just written.                  *)
(*                                                                          *)
(* Each file-system call is one step.  A file is what its bytes say (the    *)
(* HEAD its walk and its HEAD-time passes read) and how far they got.       *)
(* Every fact store has the size 1, and a directory holds nothing but fact  *)
(* stores and temporary files (no ledger, no sidecar).                      *)
(***************************************************************************)
EXTENDS Integers, FiniteSets

CONSTANTS Runs,            \* processes, each running once
          Repos, Shas, Variants,   \* repositories, commits, ingest options
          MAX_REPO_CACHE_ENTRIES,
          GLOBAL_CACHE_MAX,        \* GLOBAL_CACHE_MAX_BYTES, in stores
          STALE_TMP_AGE,           \* STALE_TMP_AGE_SECS, in ticks
          MaxClock, MaxMoves, MaxMishaps,   \* bounds on the environment
          NoFile

ASSUME CacheAssumption ==
    /\ MAX_REPO_CACHE_ENTRIES \in Nat \ {0} /\ GLOBAL_CACHE_MAX \in Nat
    /\ STALE_TMP_AGE \in Nat \ {0}
    /\ MaxClock \in Nat /\ MaxMoves \in Nat /\ MaxMishaps \in Nat

VARIABLES invoked,  \* repository and options of each run
          head,     \* HEAD of each repository
          clock,    \* wall clock, in ticks
          entries,  \* <key>.duckdb files
          tmps,     \* <key>.duckdb.tmp.<pid>.<nanos> files
          dirs,     \* mtime of each repository's cache directory, or NoFile
          pc, sha, walked, moved, todo, total, served,   \* of each run
          moves, mishaps    \* environment actions taken

env == <<invoked, head, clock, moves, mishaps>>
files == <<entries, tmps, dirs>>
vars == <<env, files, pc, sha, walked, moved, todo, total, served>>

RepoOf(p) == invoked[p].repo
VariantOf(p) == invoked[p].variant

Keys == [repo : Repos, sha : Shas, variant : Variants]
Times == 0 .. MaxClock

\* part: being written; flushed: after CHECKPOINT; synced: after sync_all;
\* lost: bytes a power loss dropped; damaged: by something else.
File == [walk : Shas, blobs : Shas,
         state : {"part", "flushed", "synced", "lost", "damaged"},
         moved : BOOLEAN, mtime : Times, owner : Runs]

\* Mutant: HEAD re-read wherever the key is used.
KeyRereadingHead(p) == [repo |-> RepoOf(p), sha |-> head[RepoOf(p)], variant |-> VariantOf(p)]

\* cache_key: repository, HEAD at the start of the run, ingest options.
Key(p) == [repo |-> RepoOf(p), sha |-> sha[p], variant |-> VariantOf(p)]

\* Mutant: a name that two runs of one key share.
TmpOfKey(p) == <<Key(p), CHOOSE q \in Runs : TRUE>>

\* The temporary file's name carries the key, the PID and the nanosecond.
TmpOf(p) == <<Key(p), p>>
TmpNames == Keys \X Runs

Failures == {"no_dir", "swept", "evicted", "damaged"}
Ended == {"ok", "killed"} \cup Failures
Ingesting == {"look", "open", "discard", "mkdir", "create", "walk", "blobs"}

Exists(f) == f # NoFile
Age(mtime) == clock - mtime
Stores(r) == {k \in Keys : k.repo = r /\ Exists(entries[k])}
AllStores == {k \in Keys : Exists(entries[k])}

Init ==
    /\ invoked \in [Runs -> [repo : Repos, variant : Variants]]
    /\ head \in [Repos -> Shas]
    /\ clock = 0 /\ moves = 0 /\ mishaps = 0
    /\ entries = [k \in Keys |-> NoFile]
    /\ tmps = [t \in TmpNames |-> NoFile]
    /\ dirs = [r \in Repos |-> NoFile]
    /\ pc = [p \in Runs |-> "start"]
    /\ sha = [p \in Runs |-> head[RepoOf(p)]]
    /\ walked = [p \in Runs |-> head[RepoOf(p)]]
    /\ moved = [p \in Runs |-> FALSE]
    /\ todo = [p \in Runs |-> {}] /\ total = [p \in Runs |-> 0]
    /\ served = [p \in Runs |-> NoFile]

-----------------------------------------------------------------------------
(* One run, up to the entry it finds.                                       *)

Goto(p, label) == pc' = [pc EXCEPT ![p] = label]

\* Mutant: an mtime ahead of the clock.
TouchAhead(r) == dirs' = [dirs EXCEPT ![r] = clock + 1]

\* Creating, renaming or deleting a file updates its directory's mtime.
Touch(r) == dirs' = [dirs EXCEPT ![r] = clock]

\* repo.head_sha(): the key is fixed here.
ResolveHead(p) ==
    /\ pc[p] = "start"
    /\ sha' = [sha EXCEPT ![p] = head[RepoOf(p)]]
    /\ Goto(p, "look")
    /\ UNCHANGED <<env, files, walked, moved, todo, total, served>>

\* cache_p.exists()
Look(p) ==
    /\ pc[p] = "look"
    /\ Goto(p, IF Exists(entries[Key(p)]) THEN "open" ELSE "mkdir")
    /\ UNCHANGED <<env, files, sha, walked, moved, todo, total, served>>

Opens(f) == Exists(f) /\ f.state \in {"flushed", "synced"}

\* Mutant: an entry that will not open fails the run.
OpenHitOrFail(p) ==
    /\ pc[p] = "open"
    /\ IF Opens(entries[Key(p)])
       THEN Goto(p, "ok") /\ served' = [served EXCEPT ![p] = entries[Key(p)]]
       ELSE Goto(p, "damaged") /\ UNCHANGED served
    /\ UNCHANGED <<env, files, sha, walked, moved, todo, total>>

\* Cache hit.  An entry that will not open, or is gone by now, is discarded.
OpenHit(p) ==
    /\ pc[p] = "open"
    /\ IF Opens(entries[Key(p)])
       THEN Goto(p, "ok") /\ served' = [served EXCEPT ![p] = entries[Key(p)]]
       ELSE Goto(p, "discard") /\ UNCHANGED served
    /\ UNCHANGED <<env, files, sha, walked, moved, todo, total>>

\* remove_file by name: whatever the name denotes now.
Delete(k) ==
    /\ entries' = [entries EXCEPT ![k] = NoFile]
    /\ IF Exists(entries[k]) THEN Touch(k.repo) ELSE UNCHANGED dirs

DiscardDamaged(p) ==
    /\ pc[p] = "discard"
    /\ Delete(Key(p))
    /\ Goto(p, "mkdir")
    /\ UNCHANGED <<env, tmps, sha, walked, moved, todo, total, served>>

-----------------------------------------------------------------------------
(* The ingest of a miss.                                                    *)

\* create_dir_all leaves an existing directory, and its mtime, alone.
MakeDir(p) ==
    /\ pc[p] = "mkdir"
    /\ IF Exists(dirs[RepoOf(p)]) THEN UNCHANGED dirs ELSE Touch(RepoOf(p))
    /\ Goto(p, "create")
    /\ UNCHANGED <<env, entries, tmps, sha, walked, moved, todo, total, served>>

\* A leftover of that name is removed and a new database is created.
CreateTmp(p) ==
    /\ pc[p] = "create"
    /\ IF Exists(dirs[RepoOf(p)])
       THEN /\ tmps' = [tmps EXCEPT ![TmpOf(p)] =
                          [walk |-> sha[p], blobs |-> sha[p], state |-> "part",
                           moved |-> FALSE, mtime |-> clock, owner |-> p]]
            /\ Touch(RepoOf(p)) /\ Goto(p, "walk")
       ELSE Goto(p, "no_dir") /\ UNCHANGED <<tmps, dirs>>
    /\ UNCHANGED <<env, entries, sha, walked, moved, todo, total, served>>

\* A write reaches the name only while it still denotes this run's own file.
Write(p, f) ==
    tmps' = IF Exists(tmps[TmpOf(p)]) /\ tmps[TmpOf(p)].owner = p
            THEN [tmps EXCEPT ![TmpOf(p)] = f] ELSE tmps

\* walk_commits resolves HEAD for itself ...
WalkHistory(p) ==
    /\ pc[p] = "walk"
    /\ walked' = [walked EXCEPT ![p] = head[RepoOf(p)]]
    /\ Goto(p, "blobs")
    /\ UNCHANGED <<env, files, sha, moved, todo, total, served>>

\* ... and so do the HEAD-time passes, through blob_reader_at("HEAD").
ReadBlobs(p) ==
    /\ pc[p] = "blobs"
    /\ Write(p, [walk |-> walked[p], blobs |-> head[RepoOf(p)], state |-> "part",
                 moved |-> moved[p], mtime |-> clock, owner |-> p])
    /\ Goto(p, "flush")
    /\ UNCHANGED <<env, entries, dirs, sha, walked, moved, todo, total, served>>

\* CHECKPOINT, then the commit_count (or complexity) witness holds.
Flush(p) ==
    /\ pc[p] = "flush"
    /\ Write(p, [tmps[TmpOf(p)] EXCEPT !.state = "flushed", !.mtime = clock])
    /\ Goto(p, "sync")
    /\ UNCHANGED <<env, entries, dirs, sha, walked, moved, todo, total, served>>

\* A store with no commit is not persisted: the temporary file goes, and the
\* run re-ingests into memory.
Unwitnessed(p) ==
    /\ pc[p] = "flush"
    /\ tmps' = [tmps EXCEPT ![TmpOf(p)] = NoFile]
    /\ IF Exists(tmps[TmpOf(p)]) THEN Touch(RepoOf(p)) ELSE UNCHANGED dirs
    /\ Goto(p, "ok")
    /\ UNCHANGED <<env, entries, sha, walked, moved, todo, total, served>>

\* sync_all re-opens the temporary file by name.
Sync(p) ==
    /\ pc[p] = "sync"
    /\ IF Exists(tmps[TmpOf(p)])
       THEN /\ tmps' = [tmps EXCEPT ![TmpOf(p)].state =
                          IF @ = "flushed" THEN "synced" ELSE @]
            /\ Goto(p, "rename")
       ELSE Goto(p, "swept") /\ UNCHANGED tmps
    /\ UNCHANGED <<env, entries, dirs, sha, walked, moved, todo, total, served>>

\* rename(tmp, cache_p) replaces an entry another run published meanwhile.
Publish(p) ==
    /\ pc[p] = "rename"
    /\ IF Exists(tmps[TmpOf(p)])
       THEN /\ entries' = [entries EXCEPT ![Key(p)] = tmps[TmpOf(p)]]
            /\ tmps' = [tmps EXCEPT ![TmpOf(p)] = NoFile]
            /\ Touch(RepoOf(p)) /\ Goto(p, "pruneRepo")
       ELSE Goto(p, "swept") /\ UNCHANGED files
    /\ UNCHANGED <<env, sha, walked, moved, todo, total, served>>

-----------------------------------------------------------------------------
(* Pruning, and the re-open.                                                *)

Stale(t) == Exists(tmps[t]) /\ Age(tmps[t].mtime) >= STALE_TMP_AGE
SweepTmps(rs) ==
    tmps' = [t \in TmpNames |-> IF t[1].repo \in rs /\ Stale(t) THEN NoFile ELSE tmps[t]]
Swept(r) == \E t \in TmpNames : t[1].repo = r /\ Stale(t)

\* What a walk of the directory records of an entry.
Listed(ks) == {[key |-> k, mtime |-> entries[k].mtime] : k \in ks}

\* n entries that a sort by mtime may put first.
Oldest(ks, n) == {V \in SUBSET ks : /\ Cardinality(V) = n
                                    /\ \A v \in V, w \in ks \ V :
                                          entries[v].mtime <= entries[w].mtime}

Excess(n) == IF n > MAX_REPO_CACHE_ENTRIES THEN n - MAX_REPO_CACHE_ENTRIES ELSE 0

\* prune_repo_cache: sweep, list, and choose what is beyond the cap.
PruneRepo(p) ==
    /\ pc[p] = "pruneRepo"
    /\ SweepTmps({RepoOf(p)})
    /\ IF Swept(RepoOf(p)) THEN Touch(RepoOf(p)) ELSE UNCHANGED dirs
    /\ LET ks == Stores(RepoOf(p))
       IN \E V \in Oldest(ks, Excess(Cardinality(ks))) :
              todo' = [todo EXCEPT ![p] = Listed(V)]
    /\ Goto(p, "evictRepo")
    /\ UNCHANGED <<env, entries, sha, walked, moved, total, served>>

EvictRepo(p) ==
    /\ pc[p] = "evictRepo"
    /\ \E e \in todo[p] :
          /\ Delete(e.key)
          /\ todo' = [todo EXCEPT ![p] = @ \ {e}]
    /\ UNCHANGED <<env, tmps, pc, sha, walked, moved, total, served>>

EvictRepoDone(p) ==
    /\ pc[p] = "evictRepo" /\ todo[p] = {}
    /\ Goto(p, "sweepGlobal")
    /\ UNCHANGED <<env, files, sha, walked, moved, todo, total, served>>

\* prune_global_cache: the stale temporary files of every directory.
SweepGlobal(p) ==
    /\ pc[p] = "sweepGlobal"
    /\ SweepTmps(Repos)
    /\ dirs' = [r \in Repos |-> IF Swept(r) THEN clock ELSE dirs[r]]
    /\ Goto(p, "pruneGlobal")
    /\ UNCHANGED <<env, entries, sha, walked, moved, todo, total, served>>

EmptyDir(r) == Stores(r) = {} /\ \A t \in TmpNames : t[1].repo = r => ~Exists(tmps[t])
OldEmpty(r) == Exists(dirs[r]) /\ EmptyDir(r) /\ Age(dirs[r]) >= STALE_TMP_AGE

\* remove_empty_repo_dirs (rmdir refuses a directory in use), then the walk.
PruneGlobal(p) ==
    /\ pc[p] = "pruneGlobal"
    /\ dirs' = [r \in Repos |-> IF OldEmpty(r) THEN NoFile ELSE dirs[r]]
    /\ todo' = [todo EXCEPT ![p] = Listed(AllStores)]
    /\ total' = [total EXCEPT ![p] = Cardinality(AllStores)]
    /\ Goto(p, "evictGlobal")
    /\ UNCHANGED <<env, entries, tmps, sha, walked, moved, served>>

\* Mutant: the cap exceeded by one store.
OverCapLate(p) == total[p] > GLOBAL_CACHE_MAX + 1 /\ todo[p] # {}

OverCap(p) == total[p] > GLOBAL_CACHE_MAX /\ todo[p] # {}

\* Oldest first, passing over `keep`; only a file that was there is counted.
EvictGlobal(p) ==
    /\ pc[p] = "evictGlobal" /\ OverCap(p)
    /\ \E e \in todo[p] :
          /\ \A f \in todo[p] : e.mtime <= f.mtime
          /\ todo' = [todo EXCEPT ![p] = @ \ {e}]
          /\ IF e.key = Key(p)
             THEN UNCHANGED <<entries, dirs, total>>
             ELSE /\ Delete(e.key)
                  /\ total' = [total EXCEPT ![p] = IF Exists(entries[e.key]) THEN @ - 1 ELSE @]
    /\ UNCHANGED <<env, tmps, pc, sha, walked, moved, served>>

EvictGlobalDone(p) ==
    /\ pc[p] = "evictGlobal" /\ ~OverCap(p)
    /\ Goto(p, "reopen")
    /\ todo' = [todo EXCEPT ![p] = {}]
    /\ UNCHANGED <<env, files, sha, walked, moved, total, served>>

Reopen(p) ==
    /\ pc[p] = "reopen"
    /\ LET f == entries[Key(p)]
       IN IF Opens(f)
          THEN Goto(p, "ok") /\ served' = [served EXCEPT ![p] = f]
          ELSE Goto(p, IF Exists(f) THEN "damaged" ELSE "evicted") /\ UNCHANGED served
    /\ UNCHANGED <<env, files, sha, walked, moved, todo, total>>

Run(p) ==
    \/ ResolveHead(p) \/ Look(p) \/ OpenHit(p) \/ DiscardDamaged(p)
    \/ MakeDir(p) \/ CreateTmp(p) \/ WalkHistory(p) \/ ReadBlobs(p)
    \/ Flush(p) \/ Unwitnessed(p) \/ Sync(p) \/ Publish(p)
    \/ PruneRepo(p) \/ EvictRepo(p) \/ EvictRepoDone(p)
    \/ SweepGlobal(p) \/ PruneGlobal(p) \/ EvictGlobal(p) \/ EvictGlobalDone(p)
    \/ Reopen(p)

-----------------------------------------------------------------------------
(* The environment.                                                         *)

\* A commit, a checkout or a reset, in the middle of anything.
MoveHead(r) ==
    /\ moves < MaxMoves /\ moves' = moves + 1
    /\ \E s \in Shas \ {head[r]} : head' = [head EXCEPT ![r] = s]
    /\ moved' = [p \in Runs |-> moved[p] \/ (RepoOf(p) = r /\ pc[p] \in Ingesting)]
    /\ UNCHANGED <<invoked, clock, mishaps, files, pc, sha, walked, todo, total, served>>

Tick ==
    /\ clock < MaxClock /\ clock' = clock + 1
    /\ UNCHANGED <<invoked, head, moves, mishaps, files, pc, sha, walked, moved, todo, total, served>>

Mishap == mishaps < MaxMishaps /\ mishaps' = mishaps + 1

\* A run is killed, or an error ends its ingest: its temporary file stays behind.
Kill(p) ==
    /\ Mishap /\ pc[p] \notin Ended /\ Goto(p, "killed")
    /\ UNCHANGED <<invoked, head, clock, moves, files, sha, walked, moved, todo, total, served>>

\* Power loss: every run ends, and bytes that were not synced are lost.
Survives(f) == IF Exists(f) /\ f.state \in {"part", "flushed"} THEN [f EXCEPT !.state = "lost"] ELSE f
PowerLoss ==
    /\ Mishap
    /\ pc' = [p \in Runs |-> IF pc[p] \in Ended \cup {"start"} THEN pc[p] ELSE "killed"]
    /\ entries' = [k \in Keys |-> Survives(entries[k])]
    /\ tmps' = [t \in TmpNames |-> Survives(tmps[t])]
    /\ UNCHANGED <<invoked, head, clock, moves, dirs, sha, walked, moved, todo, total, served>>

\* A file of the cache is damaged from outside.
Damage ==
    /\ Mishap
    /\ \E k \in AllStores : entries' = [entries EXCEPT ![k].state = "damaged"]
    /\ UNCHANGED <<invoked, head, clock, moves, tmps, dirs, pc, sha, walked, moved, todo, total, served>>

Environment == (\E r \in Repos : MoveHead(r)) \/ Tick \/ (\E p \in Runs : Kill(p))
               \/ PowerLoss \/ Damage

Next == (\E p \in Runs : Run(p)) \/ Environment

Spec == Init /\ [][Next]_vars

\* A process that is not killed is scheduled; nothing is assumed of the rest.
FairSpec == Spec /\ \A p \in Runs : WF_vars(Run(p))

-----------------------------------------------------------------------------
(* Properties.                                                              *)

TypeOK ==
    /\ invoked \in [Runs -> [repo : Repos, variant : Variants]]
    /\ head \in [Repos -> Shas] /\ clock \in Times
    /\ moves \in 0 .. MaxMoves /\ mishaps \in 0 .. MaxMishaps
    /\ entries \in [Keys -> File \cup {NoFile}]
    /\ tmps \in [TmpNames -> File \cup {NoFile}]
    /\ dirs \in [Repos -> Times \cup {NoFile}]
    /\ pc \in [Runs -> Ingesting \cup Ended \cup
                {"start", "flush", "sync", "rename", "pruneRepo", "evictRepo",
                 "sweepGlobal", "pruneGlobal", "evictGlobal", "reopen"}]
    /\ sha \in [Runs -> Shas] /\ walked \in [Runs -> Shas]
    /\ moved \in [Runs -> BOOLEAN]
    /\ todo \in [Runs -> SUBSET [key : Keys, mtime : Times]]
    /\ total \in [Runs -> Nat]
    /\ served \in [Runs -> File \cup {NoFile}]

\* Whatever is at an entry's name is a whole store: two runs ingesting the same
\* key, a kill and a power loss between any two steps never leave a torn one.
NoTornEntry ==
    \A k \in Keys : Exists(entries[k]) => entries[k].state \in {"synced", "damaged"}

Describes(f, s) == f.walk = s /\ f.blobs = s

\* What a run returns from the cache describes the HEAD it resolved, unless HEAD
\* moved in the middle of the ingest that wrote it.
ServedDescribesHead ==
    \A p \in Runs : Exists(served[p]) /\ ~served[p].moved => Describes(served[p], sha[p])

Unpruned(r) == {p \in Runs : RepoOf(p) = r /\ pc[p] \in {"pruneRepo", "evictRepo"}}
KilledIn(r) == {p \in Runs : RepoOf(p) = r /\ pc[p] = "killed"}

Unswept == {p \in Runs : pc[p] \in {"pruneRepo", "evictRepo", "sweepGlobal", "pruneGlobal",
                                     "evictGlobal", "killed"}}

\* However prunes interleave, a repository's directory exceeds its cap by at
\* most the entries whose own run has not pruned yet, or never will; the whole
\* cache root likewise, where the last run to prune keeps its own entry even
\* when the cap would not hold it.
CapsHold ==
    /\ \A r \in Repos : Cardinality(Stores(r))
         <= MAX_REPO_CACHE_ENTRIES + Cardinality(Unpruned(r) \cup KilledIn(r))
    /\ Cardinality(AllStores)
         <= (IF GLOBAL_CACHE_MAX = 0 THEN 1 ELSE GLOBAL_CACHE_MAX) + Cardinality(Unswept)

Damaged(p) == Exists(entries[Key(p)]) /\ entries[Key(p)].state = "damaged"

\* Damage is not permanent: a run that meets a damaged entry ends without failing
\* on it and leaves none behind (one mishap: damage done again is another).
DamageHeals ==
    \A p \in Runs : (pc[p] = "open" /\ Damaged(p))
                       ~> (pc[p] \in Ended \ {"damaged"} /\ ~Damaged(p))
=============================================================================
