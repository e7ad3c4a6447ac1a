------------------------ MODULE FactStoreCacheProofs ------------------------
(***************************************************************************)
(* What the cache keeps for every number of runs, repositories, commits and *)
(* options, every cap, and any number of HEAD moves, ticks and mishaps.     *)
(***************************************************************************)
EXTENDS FactStoreCache, FiniteSetTheorems, TLAPS

-----------------------------------------------------------------------------
(* Type correctness.  The caps count stores, so the invariant carries that  *)
(* there are finitely many: a run publishes one at a time.                  *)

TypeInv == TypeOK /\ IsFiniteSet(AllStores)

LEMMA KeyType ==
    ASSUME TypeOK, NEW p \in Runs
    PROVE  /\ RepoOf(p) \in Repos /\ VariantOf(p) \in Variants
           /\ Key(p) \in Keys /\ TmpOf(p) \in TmpNames
  BY DEF TypeOK, RepoOf, VariantOf, Key, Keys, TmpOf, TmpNames

\* The clock is a time of its own.
LEMMA ClockType == ASSUME TypeOK PROVE clock \in Times
  BY DEF TypeOK

\* A file that exists is a file, and stays one whatever becomes of its bytes.
LEMMA FileType ==
    ASSUME TypeOK
    PROVE  /\ \A k \in Keys : Exists(entries[k]) => entries[k] \in File
           /\ \A t \in TmpNames : Exists(tmps[t]) => tmps[t] \in File
  BY DEF TypeOK, Exists

LEMMA FileStates ==
    ASSUME NEW f \in File, NEW s \in {"flushed", "synced", "lost", "damaged"}, NEW m \in Times
    PROVE  /\ [f EXCEPT !.state = s] \in File
           /\ [f EXCEPT !.state = s, !.mtime = m] \in File
  BY DEF File

LEMMA DeleteType ==
    ASSUME TypeOK, NEW k \in Keys, Delete(k)
    PROVE  /\ entries' \in [Keys -> File \cup {NoFile}]
           /\ dirs' \in [Repos -> Times \cup {NoFile}]
  BY DEF TypeOK, Delete, Touch, Keys

LEMMA WriteType ==
    ASSUME TypeOK, NEW p \in Runs, NEW f \in File, Write(p, f)
    PROVE  tmps' \in [TmpNames -> File \cup {NoFile}]
  BY KeyType DEF TypeOK, Write

LEMMA ListedType ==
    ASSUME TypeOK, NEW ks \in SUBSET AllStores
    PROVE  Listed(ks) \subseteq [key : Keys, mtime : Times]
  BY DEF TypeOK, Listed, AllStores, Exists, File

\* A run's own steps and the environment's keep the types.
LEMMA TypeStep == ASSUME TypeInv, [Next]_vars PROVE TypeOK'
<1> USE CacheAssumption DEF TypeInv
<1>1. ASSUME NEW p \in Runs, ResolveHead(p) PROVE TypeOK'
  BY <1>1, KeyType DEF TypeOK, ResolveHead, Goto, env, files, Ingesting
<1>2. ASSUME NEW p \in Runs, Look(p) PROVE TypeOK'
  BY <1>2 DEF TypeOK, Look, Goto, env, files, Ingesting
<1>3. ASSUME NEW p \in Runs, OpenHit(p) PROVE TypeOK'
  <2>1. Key(p) \in Keys
    BY KeyType
  <2>2. served' \in [Runs -> File \cup {NoFile}]
    BY <1>3, <2>1 DEF TypeOK, OpenHit
  <2>3. pc' = [pc EXCEPT ![p] = "ok"] \/ pc' = [pc EXCEPT ![p] = "discard"]
    BY <1>3 DEF OpenHit, Goto
  <2>4. QED
    BY <1>3, <2>2, <2>3 DEF TypeOK, OpenHit, env, files, Ingesting, Ended
<1>4. ASSUME NEW p \in Runs, DiscardDamaged(p) PROVE TypeOK'
  BY <1>4, KeyType, DeleteType DEF TypeOK, DiscardDamaged, Goto, env, Ingesting
<1>5. ASSUME NEW p \in Runs, MakeDir(p) PROVE TypeOK'
  BY <1>5, KeyType DEF TypeOK, MakeDir, Touch, Goto, env, Ingesting
<1>6. ASSUME NEW p \in Runs, CreateTmp(p) PROVE TypeOK'
  <2> DEFINE f == [walk |-> sha[p], blobs |-> sha[p], state |-> "part",
                   moved |-> FALSE, mtime |-> clock, owner |-> p]
  <2>1. f \in File
    BY DEF TypeOK, File
  <2>2. tmps' = tmps \/ tmps' = [tmps EXCEPT ![TmpOf(p)] = f]
    BY <1>6 DEF CreateTmp
  <2> HIDE DEF f
  <2>3. tmps' \in [TmpNames -> File \cup {NoFile}]
    BY <2>1, <2>2, KeyType DEF TypeOK
  <2>4. dirs' \in [Repos -> Times \cup {NoFile}]
    BY <1>6, KeyType DEF TypeOK, CreateTmp, Touch
  <2>5. pc' = [pc EXCEPT ![p] = "walk"] \/ pc' = [pc EXCEPT ![p] = "no_dir"]
    BY <1>6 DEF CreateTmp, Goto
  <2>6. QED
    BY <1>6, <2>3, <2>4, <2>5 DEF TypeOK, CreateTmp, env, Ingesting, Ended, Failures
<1>7. ASSUME NEW p \in Runs, WalkHistory(p) PROVE TypeOK'
  BY <1>7, KeyType DEF TypeOK, WalkHistory, Goto, env, files, Ingesting
<1>8. ASSUME NEW p \in Runs, ReadBlobs(p) PROVE TypeOK'
  BY <1>8, KeyType, WriteType DEF TypeOK, ReadBlobs, Goto, env, Ingesting, File
<1>9. ASSUME NEW p \in Runs, Flush(p) PROVE TypeOK'
  <2> DEFINE f == [tmps[TmpOf(p)] EXCEPT !.state = "flushed", !.mtime = clock]
  <2>1. Exists(tmps[TmpOf(p)]) => f \in File
    BY KeyType, FileType, FileStates DEF TypeOK
  <2>2. Write(p, f)
    BY <1>9 DEF Flush
  <2> HIDE DEF f
  <2>3. tmps' \in [TmpNames -> File \cup {NoFile}]
    BY <2>1, <2>2, KeyType DEF TypeOK, Write
  <2>4. QED
    BY <1>9, <2>3 DEF TypeOK, Flush, Goto, env
<1>10. ASSUME NEW p \in Runs, Unwitnessed(p) PROVE TypeOK'
  BY <1>10, KeyType DEF TypeOK, Unwitnessed, Touch, Goto, env, Ended
<1>11. ASSUME NEW p \in Runs, Sync(p) PROVE TypeOK'
  <2> DEFINE f == tmps[TmpOf(p)]
             g == [f EXCEPT !.state = IF f.state = "flushed" THEN "synced" ELSE f.state]
  <2>1. Exists(f) => g \in File
    BY KeyType, FileType DEF File
  <2>2. tmps' = tmps \/ (Exists(f) /\ tmps' = [tmps EXCEPT ![TmpOf(p)] = g])
    BY <1>11, KeyType DEF Sync, TypeOK
  <2> HIDE DEF f, g
  <2>3. tmps' \in [TmpNames -> File \cup {NoFile}]
    BY <2>1, <2>2, KeyType DEF TypeOK
  <2>4. pc' = [pc EXCEPT ![p] = "rename"] \/ pc' = [pc EXCEPT ![p] = "swept"]
    BY <1>11 DEF Sync, Goto
  <2>5. QED
    BY <1>11, <2>3, <2>4 DEF TypeOK, Sync, env, Ended, Failures
<1>12. ASSUME NEW p \in Runs, Publish(p) PROVE TypeOK'
  BY ZenonT(40), <1>12, KeyType DEF TypeOK, Publish, Exists, Touch, Goto, env, files, Ended, Failures
<1>13. ASSUME NEW p \in Runs, PruneRepo(p) PROVE TypeOK'
  <2>1. PICK V \in Oldest(Stores(RepoOf(p)), Excess(Cardinality(Stores(RepoOf(p))))) :
              todo' = [todo EXCEPT ![p] = Listed(V)]
    BY <1>13 DEF PruneRepo
  <2>2. V \in SUBSET AllStores
    BY <2>1 DEF Oldest, Stores, AllStores
  <2>3. todo' \in [Runs -> SUBSET [key : Keys, mtime : Times]]
    BY <2>1, <2>2, ListedType DEF TypeOK
  <2>4. tmps' \in [TmpNames -> File \cup {NoFile}]
    BY <1>13 DEF TypeOK, PruneRepo, SweepTmps
  <2>5. dirs' \in [Repos -> Times \cup {NoFile}]
    BY <1>13, KeyType DEF TypeOK, PruneRepo, Touch
  <2>6. QED
    BY <1>13, <2>3, <2>4, <2>5 DEF TypeOK, PruneRepo, Goto, env
<1>14. ASSUME NEW p \in Runs, EvictRepo(p) PROVE TypeOK'
  BY <1>14, DeleteType DEF TypeOK, EvictRepo, env
<1>15. ASSUME NEW p \in Runs, EvictRepoDone(p) PROVE TypeOK'
  BY <1>15 DEF TypeOK, EvictRepoDone, Goto, env, files
<1>16. ASSUME NEW p \in Runs, SweepGlobal(p) PROVE TypeOK'
  BY <1>16 DEF TypeOK, SweepGlobal, SweepTmps, Goto, env
<1>17. ASSUME NEW p \in Runs, PruneGlobal(p) PROVE TypeOK'
  BY <1>17, ListedType, FS_CardinalityType DEF TypeOK, PruneGlobal, Goto, env
<1>18. ASSUME NEW p \in Runs, EvictGlobal(p) PROVE TypeOK'
  BY <1>18, DeleteType DEF TypeOK, EvictGlobal, OverCap, env
<1>19. ASSUME NEW p \in Runs, EvictGlobalDone(p) PROVE TypeOK'
  BY <1>19 DEF TypeOK, EvictGlobalDone, Goto, env, files
<1>20. ASSUME NEW p \in Runs, Reopen(p) PROVE TypeOK'
  <2>1. Key(p) \in Keys
    BY KeyType
  <2>2. served' \in [Runs -> File \cup {NoFile}]
    BY <1>20, <2>1 DEF TypeOK, Reopen
  <2>3. \E l \in {"ok", "damaged", "evicted"} : pc' = [pc EXCEPT ![p] = l]
    BY <1>20 DEF Reopen, Goto
  <2>4. QED
    BY <1>20, <2>2, <2>3 DEF TypeOK, Reopen, env, files, Ended, Failures
<1>21. ASSUME NEW r \in Repos, MoveHead(r) PROVE TypeOK'
  BY <1>21 DEF TypeOK, MoveHead, files
<1>22. CASE Tick
  BY <1>22 DEF TypeOK, Tick, files, Times
<1>23. ASSUME NEW p \in Runs, Kill(p) PROVE TypeOK'
  BY <1>23 DEF TypeOK, Kill, Mishap, Goto, files, Ended
<1>24. CASE PowerLoss
  <2>1. ASSUME NEW f \in File \cup {NoFile} PROVE Survives(f) \in File \cup {NoFile}
    BY FileStates DEF Survives, Exists, File
  <2>2. entries' \in [Keys -> File \cup {NoFile}] /\ tmps' \in [TmpNames -> File \cup {NoFile}]
    BY <1>24, <2>1 DEF TypeOK, PowerLoss
  <2>3. QED
    BY <1>24, <2>2 DEF TypeOK, PowerLoss, Mishap, Ended
<1>25. CASE Damage
  <2>1. PICK k \in AllStores : entries' = [entries EXCEPT ![k].state = "damaged"]
    BY <1>25 DEF Damage
  <2>2. k \in Keys /\ entries[k] \in File
    BY FileType DEF AllStores
  <2>3. entries' = [entries EXCEPT ![k] = [entries[k] EXCEPT !.state = "damaged"]]
    BY <2>1
  <2>4. entries' \in [Keys -> File \cup {NoFile}]
    BY <2>2, <2>3 DEF TypeOK, File
  <2>5. QED
    BY <1>25, <2>4 DEF TypeOK, Damage, Mishap
<1>26. CASE UNCHANGED vars
  BY <1>26 DEF TypeOK, vars, env, files
<1>27. QED
  BY <1>1, <1>2, <1>3, <1>4, <1>5, <1>6, <1>7, <1>8, <1>9, <1>10, <1>11, <1>12, <1>13,
     <1>14, <1>15, <1>16, <1>17, <1>18, <1>19, <1>20, <1>21, <1>22, <1>23, <1>24, <1>25, <1>26
     DEF Next, Run, Environment

\* Only a publication adds a store, and it adds one.
LEMMA StoresStep ==
    ASSUME TypeInv, [Next]_vars
    PROVE  \E k : AllStores' \subseteq AllStores \cup {k}
<1> USE DEF AllStores, Exists
<1>1. ASSUME NEW p \in Runs, DiscardDamaged(p) PROVE AllStores' \subseteq AllStores
  BY <1>1 DEF DiscardDamaged, Delete, TypeInv, TypeOK
<1>2. ASSUME NEW p \in Runs, EvictRepo(p) PROVE AllStores' \subseteq AllStores
  BY <1>2 DEF EvictRepo, Delete, TypeInv, TypeOK
<1>3. ASSUME NEW p \in Runs, EvictGlobal(p) PROVE AllStores' \subseteq AllStores
  BY <1>3 DEF EvictGlobal, Delete, TypeInv, TypeOK
<1>4. ASSUME NEW p \in Runs, Publish(p) PROVE AllStores' \subseteq AllStores \cup {Key(p)}
  BY <1>4 DEF Publish, files, TypeInv, TypeOK
<1>5. CASE PowerLoss
  BY <1>5 DEF PowerLoss, Survives, TypeInv, TypeOK
<1>6. CASE Damage
  BY <1>6 DEF Damage, TypeInv, TypeOK
<1>7. CASE UNCHANGED entries
  BY <1>7
<1>8. QED
  BY <1>1, <1>2, <1>3, <1>4, <1>5, <1>6, <1>7
     DEF Next, Run, Environment, vars, env, files, ResolveHead, Look, OpenHit, MakeDir, CreateTmp,
         WalkHistory, ReadBlobs, Flush, Unwitnessed, Sync, PruneRepo, EvictRepoDone, SweepGlobal,
         PruneGlobal, EvictGlobalDone, Reopen, MoveHead, Tick, Kill

LEMMA TypeInvHolds == Spec => []TypeInv
<1>1. Init => TypeInv
  <2> SUFFICES ASSUME Init PROVE TypeInv
    OBVIOUS
  <2>1. TypeOK
    BY CacheAssumption DEF Init, TypeOK, RepoOf, Times
  <2>2. AllStores = {}
    BY DEF Init, AllStores, Exists
  <2>3. QED
    BY <2>1, <2>2, FS_EmptySet DEF TypeInv
<1>2. TypeInv /\ [Next]_vars => TypeInv'
  <2> SUFFICES ASSUME TypeInv, [Next]_vars PROVE TypeInv'
    OBVIOUS
  <2>1. PICK k : AllStores' \subseteq AllStores \cup {k}
    BY StoresStep
  <2>2. IsFiniteSet(AllStores \cup {k})
    BY FS_AddElement DEF TypeInv
  <2>3. IsFiniteSet(AllStores')
    BY <2>1, <2>2, FS_Subset
  <2>4. QED
    BY TypeStep, <2>3 DEF TypeInv
<1>3. QED
  BY <1>1, <1>2, PTL DEF Spec

\* Types hold in every reachable state, however many stores there are.
THEOREM TypeCorrect == Spec => []TypeOK
<1>1. TypeInv => TypeOK
  BY DEF TypeInv
<1>2. QED
  BY <1>1, TypeInvHolds, PTL

-----------------------------------------------------------------------------
(* No torn entry.  A temporary file is written by the run in its name alone, *)
(* so that what a run syncs is what it flushed, and what it renames is what  *)
(* it synced; a power loss ends every run in between.                        *)

SyncedBeforeRename(p) ==
    /\ pc[p] = "sync" /\ Exists(tmps[TmpOf(p)]) => tmps[TmpOf(p)].state = "flushed"
    /\ pc[p] = "rename" /\ Exists(tmps[TmpOf(p)]) => tmps[TmpOf(p)].state = "synced"

FileInv ==
    /\ NoTornEntry
    /\ \A t \in TmpNames : Exists(tmps[t]) => tmps[t].owner = t[2]
    /\ \A p \in Runs : SyncedBeforeRename(p)

\* The names a run uses are its own, and do not change once HEAD is resolved.
LEMMA OwnNames ==
    ASSUME NEW p \in Runs, NEW q \in Runs
    PROVE  /\ TmpOf(p)[2] = p
           /\ TmpOf(p) = TmpOf(q) => p = q
  BY DEF TmpOf

LEMMA SameNames ==
    ASSUME UNCHANGED <<invoked, sha>>, NEW p \in Runs
    PROVE  Key(p)' = Key(p) /\ TmpOf(p)' = TmpOf(p) /\ RepoOf(p)' = RepoOf(p)
  BY DEF Key, TmpOf, RepoOf, VariantOf

\* A step that publishes and writes nothing, and takes no run to its sync or its
\* rename, only has files to lose.
LEMMA FilesOnlyLost ==
    ASSUME TypeInv, FileInv, UNCHANGED <<invoked, sha>>,
           \A k \in Keys : entries'[k] = entries[k] \/ entries'[k] = NoFile,
           \A t \in TmpNames : tmps'[t] = tmps[t] \/ tmps'[t] = NoFile,
           \A p \in Runs : pc'[p] \in {"sync", "rename"} => pc'[p] = pc[p]
    PROVE  FileInv'
<1>1. NoTornEntry'
  BY DEF FileInv, NoTornEntry, Exists, Keys
<1>2. \A t \in TmpNames : Exists(tmps[t])' => tmps'[t].owner = t[2]
  BY DEF FileInv, Exists
<1>3. ASSUME NEW p \in Runs PROVE SyncedBeforeRename(p)'
  <2>1. TmpOf(p)' = TmpOf(p) /\ TmpOf(p) \in TmpNames
    BY SameNames, KeyType DEF TypeInv
  <2>2. SyncedBeforeRename(p)
    BY DEF FileInv
  <2>3. QED
    BY <2>1, <2>2 DEF SyncedBeforeRename, Exists
<1>4. QED
  BY <1>1, <1>2, <1>3 DEF FileInv, TmpNames, Keys

\* A step of one run that keeps the entries and touches no temporary file but
\* the one in its own name.
LEMMA OwnFileWritten ==
    ASSUME TypeInv, FileInv, UNCHANGED <<invoked, sha, entries>>, NEW p \in Runs,
           \A t \in TmpNames : t # TmpOf(p) => tmps'[t] = tmps[t],
           \A q \in Runs : q # p => pc'[q] = pc[q],
           Exists(tmps[TmpOf(p)])' => tmps'[TmpOf(p)].owner = p,
           SyncedBeforeRename(p)'
    PROVE  FileInv'
<1>1. NoTornEntry'
  BY DEF FileInv, NoTornEntry, Exists, Keys
<1>2. ASSUME NEW t \in TmpNames, Exists(tmps[t])' PROVE tmps'[t].owner = t[2]
  BY <1>2, OwnNames, SameNames DEF FileInv, Exists
<1>3. ASSUME NEW q \in Runs PROVE SyncedBeforeRename(q)'
  <2>1. TmpOf(q)' = TmpOf(q) /\ TmpOf(q) \in TmpNames
    BY SameNames, KeyType DEF TypeInv
  <2>2. CASE q = p
    BY <2>2
  <2>3. CASE q # p
    <3>1. TmpOf(q) # TmpOf(p)
      BY <2>3, OwnNames
    <3>2. SyncedBeforeRename(q)
      BY DEF FileInv
    <3>3. QED
      BY <2>1, <2>3, <3>1, <3>2 DEF SyncedBeforeRename, Exists
  <2>4. QED
    BY <2>2, <2>3
<1>4. QED
  BY <1>1, <1>2, <1>3 DEF FileInv, TmpNames, Keys

LEMMA FileStep == ASSUME TypeInv, FileInv, [Next]_vars PROVE FileInv'
<1> USE DEF TypeInv
<1>1. ASSUME NEW p \in Runs, ResolveHead(p) PROVE FileInv'
  <2>1. UNCHANGED <<entries, tmps>>
    BY <1>1 DEF ResolveHead, files
  <2>2. ASSUME NEW q \in Runs PROVE SyncedBeforeRename(q)'
    <3>1. CASE q = p
      BY <1>1, <3>1 DEF ResolveHead, Goto, TypeOK, SyncedBeforeRename
    <3>2. CASE q # p
      <4>1. pc'[q] = pc[q] /\ TmpOf(q)' = TmpOf(q)
        BY <1>1, <3>2 DEF ResolveHead, Goto, TypeOK, TmpOf, Key, RepoOf, VariantOf, env
      <4>2. QED
        BY <2>1, <4>1 DEF FileInv, SyncedBeforeRename, Exists
    <3>3. QED
      BY <3>1, <3>2
  <2>3. QED
    BY <2>1, <2>2 DEF FileInv, NoTornEntry, Exists, TmpNames, Keys
<1>2. ASSUME NEW p \in Runs,
             \/ Look(p) \/ OpenHit(p) \/ MakeDir(p) \/ WalkHistory(p) \/ EvictRepoDone(p)
             \/ PruneGlobal(p) \/ EvictGlobalDone(p) \/ Reopen(p) \/ Kill(p)
      PROVE FileInv'
  <2>1. UNCHANGED <<invoked, sha, entries, tmps>>
    BY <1>2 DEF Look, OpenHit, MakeDir, WalkHistory, EvictRepoDone, PruneGlobal,
                EvictGlobalDone, Reopen, Kill, env, files
  <2>2. \E l : l \notin {"sync", "rename"} /\ pc' = [pc EXCEPT ![p] = l]
    BY <1>2 DEF Look, OpenHit, MakeDir, WalkHistory, EvictRepoDone, PruneGlobal,
                EvictGlobalDone, Reopen, Kill, Goto
  <2>3. QED
    BY <2>1, <2>2, FilesOnlyLost DEF TypeOK
<1>3. ASSUME NEW p \in Runs, DiscardDamaged(p) \/ EvictRepo(p) \/ EvictGlobal(p) PROVE FileInv'
  <2>1. UNCHANGED <<invoked, sha, tmps>>
    BY <1>3 DEF DiscardDamaged, EvictRepo, EvictGlobal, env
  <2>2. pc' = pc \/ pc' = [pc EXCEPT ![p] = "mkdir"]
    BY <1>3 DEF DiscardDamaged, EvictRepo, EvictGlobal, Goto
  <2>3. \A k \in Keys : entries'[k] = entries[k] \/ entries'[k] = NoFile
    BY <1>3 DEF DiscardDamaged, EvictRepo, EvictGlobal, Delete, TypeOK
  <2>4. QED
    BY <2>1, <2>2, <2>3, FilesOnlyLost DEF TypeOK
<1>4. ASSUME NEW p \in Runs, PruneRepo(p) \/ SweepGlobal(p) \/ Unwitnessed(p) PROVE FileInv'
  <2>1. UNCHANGED <<invoked, sha, entries>>
    BY <1>4 DEF PruneRepo, SweepGlobal, Unwitnessed, env
  <2>2. \E l \in {"evictRepo", "pruneGlobal", "ok"} : pc' = [pc EXCEPT ![p] = l]
    BY <1>4 DEF PruneRepo, SweepGlobal, Unwitnessed, Goto
  <2>3. \A t \in TmpNames : tmps'[t] = tmps[t] \/ tmps'[t] = NoFile
    BY <1>4 DEF PruneRepo, SweepGlobal, Unwitnessed, SweepTmps, TypeOK
  <2>4. QED
    BY <2>1, <2>2, <2>3, FilesOnlyLost DEF TypeOK
<1>5. ASSUME NEW p \in Runs, CreateTmp(p) PROVE FileInv'
  <2> DEFINE f == [walk |-> sha[p], blobs |-> sha[p], state |-> "part",
                   moved |-> FALSE, mtime |-> clock, owner |-> p]
  <2>1. CASE Exists(dirs[RepoOf(p)])
    <3>1. tmps' = [tmps EXCEPT ![TmpOf(p)] = f] /\ pc' = [pc EXCEPT ![p] = "walk"]
          /\ UNCHANGED <<invoked, sha, entries>>
      BY <1>5, <2>1 DEF CreateTmp, Goto, env
    <3>2. f.owner = p
      OBVIOUS
    <3> HIDE DEF f
    <3>3. TmpOf(p) \in TmpNames
      BY KeyType
    <3>4. SyncedBeforeRename(p)'
      BY <3>1 DEF SyncedBeforeRename, TypeOK
    <3>5. QED
      BY <3>1, <3>2, <3>3, <3>4, SameNames, OwnFileWritten DEF TypeOK
  <2>2. CASE ~Exists(dirs[RepoOf(p)])
    <3>1. tmps' = tmps /\ pc' = [pc EXCEPT ![p] = "no_dir"] /\ UNCHANGED <<invoked, sha, entries>>
      BY <1>5, <2>2 DEF CreateTmp, Goto, env
    <3>2. QED
      BY <3>1, FilesOnlyLost DEF TypeOK
  <2>3. QED
    BY <2>1, <2>2
<1>6. ASSUME NEW p \in Runs, ReadBlobs(p) PROVE FileInv'
  <2> DEFINE f == [walk |-> walked[p], blobs |-> head[RepoOf(p)], state |-> "part",
                   moved |-> moved[p], mtime |-> clock, owner |-> p]
  <2>1. Write(p, f) /\ pc' = [pc EXCEPT ![p] = "flush"] /\ UNCHANGED <<invoked, sha, entries>>
    BY <1>6 DEF ReadBlobs, Goto, env
  <2>2. f.owner = p
    OBVIOUS
  <2> HIDE DEF f
  <2>3. TmpOf(p) \in TmpNames
    BY KeyType
  <2>4. /\ \A t \in TmpNames : t # TmpOf(p) => tmps'[t] = tmps[t]
        /\ Exists(tmps[TmpOf(p)])' => tmps'[TmpOf(p)].owner = p
    BY <2>1, <2>2, <2>3, OwnNames, SameNames DEF Write, TypeOK, FileInv, Exists
  <2>5. SyncedBeforeRename(p)'
    BY <2>1 DEF SyncedBeforeRename, TypeOK
  <2>6. QED
    BY <2>1, <2>4, <2>5, OwnFileWritten DEF TypeOK
<1>7. ASSUME NEW p \in Runs, Flush(p) PROVE FileInv'
  <2> DEFINE f == [tmps[TmpOf(p)] EXCEPT !.state = "flushed", !.mtime = clock]
  <2>1. Write(p, f) /\ pc' = [pc EXCEPT ![p] = "sync"] /\ UNCHANGED <<invoked, sha, entries>>
    BY <1>7 DEF Flush, Goto, env
  <2>2. TmpOf(p) \in TmpNames /\ TmpOf(p)' = TmpOf(p) /\ TmpOf(p)[2] = p
    BY <2>1, KeyType, SameNames, OwnNames
  <2>3. Exists(tmps[TmpOf(p)]) =>
           tmps[TmpOf(p)].owner = p /\ f.owner = p /\ f.state = "flushed"
    BY <2>2, FileType DEF FileInv, File
  <2> HIDE DEF f
  <2>4. /\ \A t \in TmpNames : t # TmpOf(p) => tmps'[t] = tmps[t]
        /\ Exists(tmps[TmpOf(p)]) => tmps'[TmpOf(p)] = f
        /\ ~Exists(tmps[TmpOf(p)]) => tmps'[TmpOf(p)] = tmps[TmpOf(p)]
    BY <2>1, <2>2, <2>3 DEF Write, TypeOK
  <2>5. /\ Exists(tmps[TmpOf(p)])' => tmps'[TmpOf(p)].owner = p
        /\ Exists(tmps[TmpOf(p)])' => tmps'[TmpOf(p)].state = "flushed"
    BY <2>2, <2>3, <2>4 DEF Exists
  <2>6. SyncedBeforeRename(p)'
    BY <2>1, <2>2, <2>5 DEF SyncedBeforeRename, TypeOK
  <2>7. QED
    BY <2>1, <2>4, <2>5, <2>6, OwnFileWritten DEF TypeOK
<1>8. ASSUME NEW p \in Runs, Sync(p) PROVE FileInv'
  <2>1. UNCHANGED <<invoked, sha, entries>>
    BY <1>8 DEF Sync, env
  <2>2. TmpOf(p) \in TmpNames /\ TmpOf(p)' = TmpOf(p) /\ TmpOf(p)[2] = p
    BY <2>1, KeyType, SameNames, OwnNames
  <2>3. CASE ~Exists(tmps[TmpOf(p)])
    <3>1. tmps' = tmps /\ pc' = [pc EXCEPT ![p] = "swept"]
      BY <1>8, <2>3 DEF Sync, Goto
    <3>2. QED
      BY <2>1, <3>1, FilesOnlyLost DEF TypeOK
  <2>4. CASE Exists(tmps[TmpOf(p)])
    <3> DEFINE f == [tmps[TmpOf(p)] EXCEPT !.state = "synced"]
    <3>1. tmps[TmpOf(p)].state = "flushed" /\ tmps[TmpOf(p)].owner = p
      BY <1>8, <2>2, <2>4 DEF Sync, FileInv, SyncedBeforeRename
    <3>2. tmps' = [tmps EXCEPT ![TmpOf(p)] = f] /\ pc' = [pc EXCEPT ![p] = "rename"]
      BY <1>8, <2>4, <3>1 DEF Sync, Goto
    <3>3. f.owner = p /\ f.state = "synced"
      BY <2>2, <2>4, <3>1, FileType DEF File
    <3> HIDE DEF f
    <3>4. SyncedBeforeRename(p)'
      BY <2>2, <3>2, <3>3 DEF SyncedBeforeRename, TypeOK
    <3>5. QED
      BY <2>1, <2>2, <3>2, <3>3, <3>4, OwnFileWritten DEF TypeOK
  <2>5. QED
    BY <2>3, <2>4
<1>9. ASSUME NEW p \in Runs, Publish(p) PROVE FileInv'
  <2>1. UNCHANGED <<invoked, sha>> /\ pc[p] = "rename"
    BY <1>9 DEF Publish, env
  <2>2. TmpOf(p) \in TmpNames /\ Key(p) \in Keys
    BY KeyType
  <2>3. CASE ~Exists(tmps[TmpOf(p)])
    <3>1. UNCHANGED <<entries, tmps>> /\ pc' = [pc EXCEPT ![p] = "swept"]
      BY <1>9, <2>3 DEF Publish, Goto, files
    <3>2. QED
      BY <2>1, <3>1, FilesOnlyLost DEF TypeOK
  <2>4. CASE Exists(tmps[TmpOf(p)])
    <3>1. /\ entries' = [entries EXCEPT ![Key(p)] = tmps[TmpOf(p)]]
          /\ tmps' = [tmps EXCEPT ![TmpOf(p)] = NoFile]
          /\ pc' = [pc EXCEPT ![p] = "pruneRepo"]
      BY <1>9, <2>4 DEF Publish, Goto
    <3>2. tmps[TmpOf(p)].state = "synced"
      BY <2>1, <2>4 DEF FileInv, SyncedBeforeRename
    <3>3. NoTornEntry'
      BY <2>2, <3>1, <3>2 DEF FileInv, NoTornEntry, Exists, TypeOK, Keys
    <3>4. \A t \in TmpNames : Exists(tmps[t])' => tmps'[t].owner = t[2]
      BY <2>2, <3>1 DEF FileInv, Exists, TypeOK
    <3>5. ASSUME NEW q \in Runs PROVE SyncedBeforeRename(q)'
      <4>1. TmpOf(q)' = TmpOf(q) /\ TmpOf(q) \in TmpNames
        BY <2>1, SameNames, KeyType
      <4>2. SyncedBeforeRename(q)
        BY DEF FileInv
      <4>3. QED
        BY <2>2, <3>1, <4>1, <4>2 DEF SyncedBeforeRename, Exists, TypeOK
    <3>6. QED
      BY <3>3, <3>4, <3>5 DEF FileInv, TmpNames, Keys
  <2>5. QED
    BY <2>3, <2>4
<1>10. CASE (\E r \in Repos : MoveHead(r)) \/ Tick \/ UNCHANGED vars
  <2>1. UNCHANGED <<invoked, sha, entries, tmps, pc>>
    BY <1>10 DEF MoveHead, Tick, vars, env, files
  <2>2. QED
    BY <2>1, FilesOnlyLost
<1>11. CASE PowerLoss
  <2>1. \A p \in Runs : pc'[p] \notin {"sync", "rename"}
    BY <1>11 DEF PowerLoss, Ended, Failures
  <2>2. \A k \in Keys : entries'[k] = entries[k]
    BY <1>11 DEF PowerLoss, Survives, FileInv, NoTornEntry, TypeOK
  <2>3. ASSUME NEW t \in TmpNames, Exists(tmps[t])' PROVE tmps'[t].owner = t[2]
    <3>1. tmps'[t] = Survives(tmps[t])
      BY <1>11 DEF PowerLoss, TypeOK
    <3>2. Exists(tmps[t])
      BY <2>3, <3>1 DEF Survives, Exists
    <3>3. tmps'[t].owner = tmps[t].owner
      BY <3>1, <3>2, FileType DEF Survives, File
    <3>4. QED
      BY <3>2, <3>3 DEF FileInv
  <2>4. NoTornEntry'
    BY <2>2 DEF FileInv, NoTornEntry, Exists, Keys
  <2>5. \A p \in Runs : SyncedBeforeRename(p)'
    BY <2>1 DEF SyncedBeforeRename
  <2>6. QED
    BY <2>3, <2>4, <2>5 DEF FileInv, TmpNames, Keys
<1>12. CASE Damage
  <2>1. PICK k \in AllStores : entries' = [entries EXCEPT ![k].state = "damaged"]
    BY <1>12 DEF Damage
  <2>2. k \in Keys /\ entries[k] \in File
    BY FileType DEF AllStores
  <2>3. entries'[k].state = "damaged" /\ \A j \in Keys : j # k => entries'[j] = entries[j]
    BY <2>1, <2>2 DEF TypeOK, File
  <2>4. UNCHANGED <<invoked, sha, tmps, pc>>
    BY <1>12 DEF Damage
  <2>5. NoTornEntry'
    BY <2>3 DEF FileInv, NoTornEntry, Exists, Keys
  <2>6. \A p \in Runs : SyncedBeforeRename(p)'
    BY <2>4, SameNames DEF FileInv, SyncedBeforeRename, Exists
  <2>7. QED
    BY <2>4, <2>5, <2>6 DEF FileInv, TmpNames, Keys, Exists
<1>13. QED
  BY <1>1, <1>2, <1>3, <1>4, <1>5, <1>6, <1>7, <1>8, <1>9, <1>10, <1>11, <1>12
     DEF Next, Run, Environment

LEMMA FileInvHolds == Spec => []FileInv
<1>1. Init => FileInv
  BY DEF Init, FileInv, NoTornEntry, SyncedBeforeRename, Exists
<1>2. TypeInv /\ FileInv /\ [Next]_vars => FileInv'
  BY FileStep
<1>3. QED
  BY <1>1, <1>2, TypeInvHolds, PTL DEF Spec

\* However many runs share a key, die, lose power or sweep each other's files,
\* what is at an entry's name was whole when it got there.
THEOREM EntriesNeverTorn == Spec => []NoTornEntry
<1>1. FileInv => NoTornEntry
  BY DEF FileInv
<1>2. QED
  BY <1>1, FileInvHolds, PTL

-----------------------------------------------------------------------------
(* What is served.  As long as HEAD has not moved under a run, every one of *)
(* its reads of HEAD gives the commit in its key; what it writes then       *)
(* describes that commit, and a file keeps its facts through all that       *)
(* happens to its bytes.                                                    *)

RunsAtHead ==
    /\ \A p \in Runs : pc[p] \in Ingesting /\ ~moved[p] => head[RepoOf(p)] = sha[p]
    /\ \A p \in Runs : pc[p] = "blobs" /\ ~moved[p] => walked[p] = sha[p]

FilesDescribe ==
    /\ \A k \in Keys : Exists(entries[k]) /\ ~entries[k].moved => Describes(entries[k], k.sha)
    /\ \A t \in TmpNames : Exists(tmps[t]) /\ ~tmps[t].moved => Describes(tmps[t], t[1].sha)

NoneServedYet == \A p \in Runs : pc[p] = "start" => served[p] = NoFile

HeadInv == RunsAtHead /\ FilesDescribe /\ NoneServedYet /\ ServedDescribesHead

LEMMA RunsAtHeadStep == ASSUME TypeInv, RunsAtHead, [Next]_vars PROVE RunsAtHead'
<1> USE DEF TypeInv, RunsAtHead
<1>1. ASSUME NEW p \in Runs, ResolveHead(p) PROVE RunsAtHead'
  BY <1>1 DEF TypeOK, ResolveHead, Goto, env, RepoOf, Ingesting
<1>2. ASSUME NEW p \in Runs, WalkHistory(p) PROVE RunsAtHead'
  BY <1>2 DEF TypeOK, WalkHistory, Goto, env, RepoOf, Ingesting
<1>3. ASSUME NEW r \in Repos, MoveHead(r) PROVE RunsAtHead'
  <2>1. ASSUME NEW p \in Runs, pc[p] \in Ingesting, ~moved'[p]
        PROVE  ~moved[p] /\ head'[RepoOf(p)'] = head[RepoOf(p)]
    BY <1>3, <2>1 DEF TypeOK, MoveHead, RepoOf
  <2>2. UNCHANGED <<pc, sha, walked>>
    BY <1>3 DEF MoveHead
  <2>3. QED
    BY <2>1, <2>2 DEF Ingesting
<1>4. ASSUME UNCHANGED <<invoked, head, sha, walked, moved>>,
             \A p \in Runs : /\ pc'[p] \in Ingesting => pc[p] \in Ingesting
                             /\ pc'[p] = "blobs" => pc[p] = "blobs"
      PROVE RunsAtHead'
  BY <1>4 DEF RepoOf
<1>5. ASSUME NEW p \in Runs, Run(p), ~ResolveHead(p), ~WalkHistory(p) PROVE RunsAtHead'
  <2>1. UNCHANGED <<invoked, head, sha, walked, moved>>
    BY <1>5 DEF Run, Look, OpenHit, DiscardDamaged, MakeDir, CreateTmp, ReadBlobs, Flush,
                Unwitnessed, Sync, Publish, PruneRepo, EvictRepo, EvictRepoDone, SweepGlobal,
                PruneGlobal, EvictGlobal, EvictGlobalDone, Reopen, env
  <2>2. \/ pc' = pc
        \/ pc[p] \in Ingesting /\ \E l : l # "blobs" /\ pc' = [pc EXCEPT ![p] = l]
        \/ \E l : l \notin Ingesting /\ pc' = [pc EXCEPT ![p] = l]
    BY <1>5 DEF Run, Look, OpenHit, DiscardDamaged, MakeDir, CreateTmp, ReadBlobs, Flush,
                Unwitnessed, Sync, Publish, PruneRepo, EvictRepo, EvictRepoDone, SweepGlobal,
                PruneGlobal, EvictGlobal, EvictGlobalDone, Reopen, Goto, Ingesting
  <2>3. QED
    BY <2>1, <2>2, <1>4 DEF TypeOK, Ingesting
<1>6. CASE Tick \/ (\E p \in Runs : Kill(p)) \/ PowerLoss \/ Damage \/ UNCHANGED vars
  <2>1. UNCHANGED <<invoked, head, sha, walked, moved>>
    BY <1>6 DEF Tick, Kill, PowerLoss, Damage, vars, env
  <2>2. \A p \in Runs : pc'[p] = pc[p] \/ pc'[p] = "killed"
    BY <1>6 DEF Tick, Kill, PowerLoss, Damage, Goto, vars, TypeOK
  <2>3. QED
    BY <2>1, <2>2, <1>4 DEF Ingesting
<1>7. QED
  BY <1>1, <1>2, <1>3, <1>5, <1>6 DEF Next, Environment

SameFacts(f, g) == f.walk = g.walk /\ f.blobs = g.blobs /\ f.moved = g.moved

\* Files that go, or keep their facts, still describe what they did.
LEMMA FactsKept ==
    ASSUME FilesDescribe,
           \A k \in Keys : \/ entries'[k] = NoFile
                           \/ Exists(entries[k]) /\ SameFacts(entries'[k], entries[k]),
           \A t \in TmpNames : \/ tmps'[t] = NoFile
                               \/ Exists(tmps[t]) /\ SameFacts(tmps'[t], tmps[t])
    PROVE  FilesDescribe'
  BY DEF FilesDescribe, SameFacts, Describes, Exists, Keys, TmpNames

\* A file with its bytes in another state is the same facts.
LEMMA StateIsNotFacts ==
    ASSUME NEW f \in File, NEW s, NEW m
    PROVE  /\ SameFacts([f EXCEPT !.state = s], f)
           /\ SameFacts([f EXCEPT !.state = s, !.mtime = m], f)
  BY DEF SameFacts, File

\* The name of a run's temporary file carries the commit it resolved.
LEMMA TmpSha == ASSUME NEW p \in Runs PROVE TmpOf(p)[1].sha = sha[p] /\ Key(p).sha = sha[p]
  BY DEF TmpOf, Key

LEMMA FilesDescribeStep ==
    ASSUME TypeInv, RunsAtHead, FilesDescribe, [Next]_vars PROVE FilesDescribe'
<1> USE DEF TypeInv
<1>0. /\ \A k \in Keys : entries[k] = NoFile \/ (Exists(entries[k]) /\ SameFacts(entries[k], entries[k]))
      /\ \A t \in TmpNames : tmps[t] = NoFile \/ (Exists(tmps[t]) /\ SameFacts(tmps[t], tmps[t]))
  BY DEF Exists, SameFacts
<1>1. CASE UNCHANGED <<entries, tmps>>
  BY <1>0, <1>1, FactsKept
<1>2. ASSUME NEW p \in Runs, DiscardDamaged(p) \/ EvictRepo(p) \/ EvictGlobal(p)
      PROVE FilesDescribe'
  <2>1. tmps' = tmps
    BY <1>2 DEF DiscardDamaged, EvictRepo, EvictGlobal
  <2>2. \A k \in Keys : entries'[k] = entries[k] \/ entries'[k] = NoFile
    BY <1>2 DEF DiscardDamaged, EvictRepo, EvictGlobal, Delete, TypeOK
  <2>3. QED
    BY <1>0, <2>1, <2>2, FactsKept
<1>3. ASSUME NEW p \in Runs, PruneRepo(p) \/ SweepGlobal(p) \/ Unwitnessed(p)
      PROVE FilesDescribe'
  <2>1. entries' = entries
    BY <1>3 DEF PruneRepo, SweepGlobal, Unwitnessed
  <2>2. \A t \in TmpNames : tmps'[t] = tmps[t] \/ tmps'[t] = NoFile
    BY <1>3 DEF PruneRepo, SweepGlobal, Unwitnessed, SweepTmps, TypeOK
  <2>3. QED
    BY <1>0, <2>1, <2>2, FactsKept
<1>4. ASSUME NEW p \in Runs, NEW f, entries' = entries, Describes(f, sha[p]) \/ f.moved = TRUE,
             tmps' = tmps \/ tmps' = [tmps EXCEPT ![TmpOf(p)] = f]
      PROVE FilesDescribe'
  <2>1. TmpOf(p) \in TmpNames /\ TmpOf(p)[1].sha = sha[p]
    BY KeyType, TmpSha
  <2>2. QED
    BY ZenonT(40), <1>4, <2>1 DEF FilesDescribe, TypeOK, Exists, Keys, TmpNames, Describes
<1>5. ASSUME NEW p \in Runs, CreateTmp(p) PROVE FilesDescribe'
  <2> DEFINE f == [walk |-> sha[p], blobs |-> sha[p], state |-> "part",
                   moved |-> FALSE, mtime |-> clock, owner |-> p]
  <2>1. Describes(f, sha[p])
    BY DEF Describes
  <2>2. entries' = entries /\ (tmps' = tmps \/ tmps' = [tmps EXCEPT ![TmpOf(p)] = f])
    BY <1>5 DEF CreateTmp
  <2> HIDE DEF f
  <2>3. QED
    BY <2>1, <2>2, <1>4
<1>6. ASSUME NEW p \in Runs, ReadBlobs(p) PROVE FilesDescribe'
  <2> DEFINE f == [walk |-> walked[p], blobs |-> head[RepoOf(p)], state |-> "part",
                   moved |-> moved[p], mtime |-> clock, owner |-> p]
  <2>1. pc[p] = "blobs" /\ moved[p] \in BOOLEAN
    BY <1>6 DEF ReadBlobs, TypeOK
  <2>2. Describes(f, sha[p]) \/ f.moved = TRUE
    BY <2>1 DEF RunsAtHead, Ingesting, Describes
  <2>3. entries' = entries /\ (tmps' = tmps \/ tmps' = [tmps EXCEPT ![TmpOf(p)] = f])
    BY <1>6 DEF ReadBlobs, Write
  <2> HIDE DEF f
  <2>4. QED
    BY <2>2, <2>3, <1>4
<1>7. ASSUME NEW p \in Runs, Flush(p) PROVE FilesDescribe'
  <2> DEFINE f == [tmps[TmpOf(p)] EXCEPT !.state = "flushed", !.mtime = clock]
  <2>1. TmpOf(p) \in TmpNames
    BY KeyType
  <2>2. Exists(tmps[TmpOf(p)]) => SameFacts(f, tmps[TmpOf(p)])
    BY <2>1, FileType, StateIsNotFacts
  <2>3. /\ entries' = entries
        /\ tmps' = tmps \/ (Exists(tmps[TmpOf(p)]) /\ tmps' = [tmps EXCEPT ![TmpOf(p)] = f])
    BY <1>7 DEF Flush, Write
  <2> HIDE DEF f
  <2>4. \A t \in TmpNames : \/ tmps'[t] = tmps[t]
                            \/ Exists(tmps[t]) /\ SameFacts(tmps'[t], tmps[t])
    BY <2>1, <2>2, <2>3 DEF TypeOK
  <2>5. QED
    BY <1>0, <2>3, <2>4, FactsKept
<1>8. ASSUME NEW p \in Runs, Sync(p) PROVE FilesDescribe'
  <2>1. TmpOf(p) \in TmpNames
    BY KeyType
  <2>2. /\ entries' = entries
        /\ \/ tmps' = tmps
           \/ /\ Exists(tmps[TmpOf(p)])
              /\ \E s : tmps' = [tmps EXCEPT ![TmpOf(p)] = [tmps[TmpOf(p)] EXCEPT !.state = s]]
    BY <1>8, <2>1 DEF Sync, TypeOK
  <2>3. \A t \in TmpNames : \/ tmps'[t] = tmps[t]
                            \/ Exists(tmps[t]) /\ SameFacts(tmps'[t], tmps[t])
    <3>1. CASE tmps' = tmps
      BY <3>1
    <3>2. CASE tmps' # tmps
      <4>1. PICK s : tmps' = [tmps EXCEPT ![TmpOf(p)] = [tmps[TmpOf(p)] EXCEPT !.state = s]]
        BY <2>2, <3>2
      <4>2. Exists(tmps[TmpOf(p)]) /\ SameFacts([tmps[TmpOf(p)] EXCEPT !.state = s], tmps[TmpOf(p)])
        BY <2>1, <2>2, <3>2, FileType, StateIsNotFacts
      <4>3. QED
        BY <2>1, <4>1, <4>2 DEF TypeOK
    <3>3. QED
      BY <3>1, <3>2
  <2>4. QED
    BY <1>0, <2>2, <2>3, FactsKept
<1>9. ASSUME NEW p \in Runs, Publish(p), Exists(tmps[TmpOf(p)]) PROVE FilesDescribe'
  <2>1. TmpOf(p) \in TmpNames /\ Key(p) \in Keys /\ TmpOf(p)[1].sha = Key(p).sha
    BY KeyType, TmpSha
  <2>2. /\ entries' = [entries EXCEPT ![Key(p)] = tmps[TmpOf(p)]]
        /\ tmps' = [tmps EXCEPT ![TmpOf(p)] = NoFile]
    BY <1>9 DEF Publish
  <2>3. ~tmps[TmpOf(p)].moved => Describes(tmps[TmpOf(p)], Key(p).sha)
    BY <1>9, <2>1 DEF FilesDescribe
  <2>4. QED
    BY <2>1, <2>2, <2>3 DEF FilesDescribe, TypeOK, Exists, Keys, TmpNames, Describes
<1>10. CASE PowerLoss
  <2>1. ASSUME NEW f \in File, Exists(f) PROVE Exists(f) /\ SameFacts(Survives(f), f)
    BY <2>1, StateIsNotFacts DEF Survives, SameFacts
  <2>2. Survives(NoFile) = NoFile
    BY DEF Survives, Exists
  <2>3. /\ \A k \in Keys : entries'[k] = Survives(entries[k])
        /\ \A t \in TmpNames : tmps'[t] = Survives(tmps[t])
    BY <1>10 DEF PowerLoss, TypeOK
  <2>4. /\ \A k \in Keys : entries[k] = NoFile \/ (entries[k] \in File /\ Exists(entries[k]))
        /\ \A t \in TmpNames : tmps[t] = NoFile \/ (tmps[t] \in File /\ Exists(tmps[t]))
    BY FileType DEF Exists
  <2>5. QED
    BY <2>1, <2>2, <2>3, <2>4, FactsKept
<1>11. CASE Damage
  <2>1. PICK k \in AllStores : entries' = [entries EXCEPT ![k].state = "damaged"]
    BY <1>11 DEF Damage
  <2>2. k \in Keys /\ Exists(entries[k]) /\ entries[k] \in File
    BY FileType DEF AllStores
  <2>3. entries' = [entries EXCEPT ![k] = [entries[k] EXCEPT !.state = "damaged"]]
    BY <2>1
  <2>4. \A j \in Keys : \/ entries'[j] = entries[j]
                        \/ Exists(entries[j]) /\ SameFacts(entries'[j], entries[j])
    BY <2>2, <2>3, StateIsNotFacts DEF TypeOK
  <2>5. tmps' = tmps
    BY <1>11 DEF Damage
  <2>6. QED
    BY <1>0, <2>4, <2>5, FactsKept
<1>12. QED
  BY <1>1, <1>2, <1>3, <1>5, <1>6, <1>7, <1>8, <1>9, <1>10, <1>11
     DEF Next, Run, Environment, vars, env, files, ResolveHead, Look, OpenHit, MakeDir,
         WalkHistory, Publish, EvictRepoDone, PruneGlobal, EvictGlobalDone, Reopen, MoveHead,
         Tick, Kill

\* Only the two opens serve, and each serves the entry of the run's own key.
LEMMA ServedStep ==
    ASSUME TypeInv, HeadInv, [Next]_vars PROVE NoneServedYet' /\ ServedDescribesHead'
<1> USE DEF TypeInv, HeadInv
<1>1. ASSUME NEW p \in Runs, ResolveHead(p) PROVE NoneServedYet' /\ ServedDescribesHead'
  <2>1. served' = served /\ served[p] = NoFile
    BY <1>1 DEF ResolveHead, NoneServedYet
  <2>2. \A q \in Runs : q # p => sha'[q] = sha[q] /\ pc'[q] = pc[q]
    BY <1>1 DEF ResolveHead, Goto, TypeOK
  <2>3. pc'[p] = "look"
    BY <1>1 DEF ResolveHead, Goto, TypeOK
  <2>4. QED
    BY <2>1, <2>2, <2>3 DEF NoneServedYet, ServedDescribesHead, Exists
<1>2. ASSUME NEW p \in Runs, OpenHit(p) \/ Reopen(p), ~UNCHANGED served
      PROVE NoneServedYet' /\ ServedDescribesHead'
  <2>1. /\ served' = [served EXCEPT ![p] = entries[Key(p)]] /\ sha' = sha
        /\ pc' = [pc EXCEPT ![p] = "ok"] /\ Exists(entries[Key(p)])
    BY <1>2 DEF OpenHit, Reopen, Opens, Goto
  <2>2. Key(p) \in Keys /\ Key(p).sha = sha[p]
    BY KeyType, TmpSha
  <2>3. ~entries[Key(p)].moved => Describes(entries[Key(p)], sha[p])
    BY <2>1, <2>2 DEF FilesDescribe
  <2>4. QED
    BY <2>1, <2>3 DEF TypeOK, NoneServedYet, ServedDescribesHead, Exists, Describes
<1>3. ASSUME UNCHANGED <<sha, served>>, \A p \in Runs : pc'[p] = "start" => pc[p] = "start"
      PROVE NoneServedYet' /\ ServedDescribesHead'
  BY <1>3 DEF NoneServedYet, ServedDescribesHead, Exists, Describes
<1>4. ASSUME NEW p \in Runs, Run(p), ~ResolveHead(p), UNCHANGED served
      PROVE NoneServedYet' /\ ServedDescribesHead'
  <2>1. UNCHANGED sha
    BY <1>4 DEF Run, Look, OpenHit, DiscardDamaged, MakeDir, CreateTmp, WalkHistory, ReadBlobs,
                Flush, Unwitnessed, Sync, Publish, PruneRepo, EvictRepo, EvictRepoDone,
                SweepGlobal, PruneGlobal, EvictGlobal, EvictGlobalDone, Reopen
  <2>2. pc' = pc \/ \E l : l # "start" /\ pc' = [pc EXCEPT ![p] = l]
    BY <1>4 DEF Run, Look, OpenHit, DiscardDamaged, MakeDir, CreateTmp, WalkHistory, ReadBlobs,
                Flush, Unwitnessed, Sync, Publish, PruneRepo, EvictRepo, EvictRepoDone,
                SweepGlobal, PruneGlobal, EvictGlobal, EvictGlobalDone, Reopen, Goto
  <2>3. QED
    BY <1>3, <1>4, <2>1, <2>2 DEF TypeOK
<1>5. ASSUME NEW p \in Runs, Run(p), ~OpenHit(p), ~Reopen(p) PROVE UNCHANGED served
  BY <1>5 DEF Run, ResolveHead, Look, DiscardDamaged, MakeDir, CreateTmp, WalkHistory, ReadBlobs,
              Flush, Unwitnessed, Sync, Publish, PruneRepo, EvictRepo, EvictRepoDone,
              SweepGlobal, PruneGlobal, EvictGlobal, EvictGlobalDone
<1>6. CASE Environment \/ UNCHANGED vars
  <2>1. UNCHANGED <<sha, served>>
    BY <1>6 DEF Environment, MoveHead, Tick, Kill, PowerLoss, Damage, vars
  <2>2. \A p \in Runs : pc'[p] = pc[p] \/ pc'[p] = "killed"
    BY <1>6 DEF Environment, MoveHead, Tick, Kill, PowerLoss, Damage, Goto, vars, TypeOK
  <2>3. QED
    BY <2>1, <2>2, <1>3
<1>7. QED
  BY <1>1, <1>2, <1>4, <1>5, <1>6 DEF Next

LEMMA HeadInvHolds == Spec => []HeadInv
<1>1. Init => HeadInv
  BY DEF Init, HeadInv, RunsAtHead, FilesDescribe, NoneServedYet, ServedDescribesHead,
         Exists, Ingesting
<1>2. TypeInv /\ HeadInv /\ [Next]_vars => HeadInv'
  BY RunsAtHeadStep, FilesDescribeStep, ServedStep DEF HeadInv
<1>3. QED
  BY <1>1, <1>2, TypeInvHolds, PTL DEF Spec

\* A run is never given another commit's facts, unless HEAD moved in the middle
\* of the ingest that wrote them: the exception is all that can go wrong.
THEOREM ServedIsOfHead == Spec => []ServedDescribesHead
<1>1. HeadInv => ServedDescribesHead
  BY DEF HeadInv
<1>2. QED
  BY <1>1, HeadInvHolds, PTL

-----------------------------------------------------------------------------
(* The caps.  Of the runs that have listed a directory and are evicting     *)
(* what they chose, any set Q can be the one whose deletions are still to   *)
(* come.  Setting those aside, the directory holds no more than the cap and *)
(* the entries whose runs are not in Q: the last of Q to list saw every     *)
(* store that was there, and whatever came later is a run's that has not    *)
(* listed.  The cache root is counted in the same way, the last of Q to     *)
(* list being the witness.                                                  *)

Cap == IF GLOBAL_CACHE_MAX = 0 THEN 1 ELSE GLOBAL_CACHE_MAX

Charged(r) == Unpruned(r) \cup KilledIn(r)
Evicting(r) == {p \in Runs : RepoOf(p) = r /\ pc[p] = "evictRepo"}
EvictingGlobally == {p \in Runs : pc[p] = "evictGlobal"}
KeysOf(p) == {e.key : e \in todo[p]}
Pending(Q) == UNION {KeysOf(p) : p \in Q}

RepoBound(r, Q) ==
    Cardinality(Stores(r) \ Pending(Q)) <= MAX_REPO_CACHE_ENTRIES + Cardinality(Charged(r) \ Q)

\* A run that is evicting counts down from what it listed, and deletes all but
\* its own entry when the cap holds none.
Counts(p, Q) ==
    /\ Cardinality(AllStores \ KeysOf(p)) + Cardinality(todo[p])
         <= total[p] + Cardinality(Unswept \ Q)
    /\ Cardinality((AllStores \ KeysOf(p)) \ {Key(p)}) <= Cardinality(Unswept \ Q)

GlobalBound(Q) == \/ Cardinality(AllStores) <= Cap + Cardinality(Unswept \ Q)
                  \/ \E p \in Q : Counts(p, Q)

RepoInv == \A r \in Repos : \A Q \in SUBSET Evicting(r) : RepoBound(r, Q)
GlobalInv == \A Q \in SUBSET EvictingGlobally : GlobalBound(Q)

\* However many runs there are, finitely many have started.
Started == {p \in Runs : pc[p] # "start"}
FiniteInv == IsFiniteSet(Started) /\ \A p \in Runs : IsFiniteSet(todo[p])

CapsInv == FiniteInv /\ RepoInv /\ GlobalInv

\* Fewer to count, and more to charge.
LEMMA Bounded ==
    ASSUME NEW A, NEW X, NEW Y, IsFiniteSet(A), IsFiniteSet(Y), NEW B \in SUBSET A,
           X \subseteq Y, NEW n \in Int, Cardinality(A) <= n + Cardinality(X)
    PROVE  Cardinality(B) <= n + Cardinality(Y)
<1>1. IsFiniteSet(X) /\ IsFiniteSet(B) /\ Cardinality(B) <= Cardinality(A)
  BY FS_Subset
<1>2. Cardinality(X) <= Cardinality(Y)
  BY FS_Subset
<1>3. /\ Cardinality(A) \in Nat /\ Cardinality(B) \in Nat
      /\ Cardinality(X) \in Nat /\ Cardinality(Y) \in Nat
  BY <1>1, FS_CardinalityType
<1>4. QED
  BY <1>1, <1>2, <1>3

\* One more to count, and one more to charge.
LEMMA BoundedOne ==
    ASSUME NEW A, NEW X, NEW Y, NEW B, NEW k, NEW q, IsFiniteSet(A), IsFiniteSet(Y),
           B \subseteq A \cup {k}, X \cup {q} \subseteq Y, q \notin X,
           NEW n \in Int, Cardinality(A) <= n + Cardinality(X)
    PROVE  Cardinality(B) <= n + Cardinality(Y)
<1>1. IsFiniteSet(X)
  BY FS_Subset
<1>2. IsFiniteSet(X \cup {q}) /\ Cardinality(X \cup {q}) = Cardinality(X) + 1
  BY <1>1, FS_AddElement
<1>3. IsFiniteSet(A \cup {k}) /\ Cardinality(A \cup {k}) <= Cardinality(A) + 1
  <2>1. Cardinality(A) \in Nat
    BY FS_CardinalityType
  <2>2. /\ IsFiniteSet(A \cup {k})
        /\ Cardinality(A \cup {k}) = IF k \in A THEN Cardinality(A) ELSE Cardinality(A) + 1
    BY FS_AddElement
  <2>3. QED
    BY <2>1, <2>2
<1>4. /\ Cardinality(A) \in Nat /\ Cardinality(X) \in Nat
      /\ Cardinality(X \cup {q}) \in Nat /\ Cardinality(A \cup {k}) \in Nat
  BY <1>1, <1>2, <1>3, FS_CardinalityType
<1>5. Cardinality(A \cup {k}) <= n + Cardinality(X \cup {q})
  BY <1>2, <1>3, <1>4
<1>6. B \in SUBSET (A \cup {k})
  OBVIOUS
<1>7. QED
  BY <1>2, <1>3, <1>5, <1>6, Bounded

\* A listing has one row for each store, and a row one key.
LEMMA ListedFinite ==
    ASSUME NEW ks, IsFiniteSet(ks)
    PROVE  IsFiniteSet(Listed(ks)) /\ Cardinality(Listed(ks)) <= Cardinality(ks)
<1> DEFINE f == [k \in ks |-> [key |-> k, mtime |-> entries[k].mtime]]
<1>1. f \in Surjection(ks, Listed(ks))
  BY DEF Surjection, Listed
<1>2. QED
  BY <1>1, FS_Surjection

LEMMA KeysFinite ==
    ASSUME NEW T, IsFiniteSet(T)
    PROVE  /\ IsFiniteSet({e.key : e \in T})
           /\ Cardinality({e.key : e \in T}) <= Cardinality(T)
<1> DEFINE K == {e.key : e \in T}
           f == [e \in T |-> e.key]
<1>1. f \in Surjection(T, K)
  BY DEF Surjection
<1>2. QED
  BY <1>1, FS_Surjection

LEMMA ListedKeys == ASSUME NEW ks PROVE {e.key : e \in Listed(ks)} = ks
<1> DEFINE row(k) == [key |-> k, mtime |-> entries[k].mtime]
<1>1. \A k \in ks : row(k) \in Listed(ks) /\ row(k).key = k
  BY DEF Listed
<1>2. \A e \in Listed(ks) : e.key \in ks
  BY DEF Listed
<1> HIDE DEF row
<1>3. QED
  BY <1>1, <1>2

\* The sets that are counted are finite.
LEMMA Finitely ==
    ASSUME TypeInv, FiniteInv
    PROVE  /\ \A r \in Repos : IsFiniteSet(Charged(r)) /\ IsFiniteSet(Stores(r))
           /\ IsFiniteSet(Unswept)
<1>1. Unswept \in SUBSET Started
  BY DEF Unswept, Started
<1>2. ASSUME NEW r \in Repos PROVE Charged(r) \in SUBSET Started /\ Stores(r) \in SUBSET AllStores
  BY DEF Charged, Unpruned, KilledIn, Started, Stores, AllStores
<1>3. QED
  BY <1>1, <1>2, FS_Subset DEF FiniteInv, TypeInv

LEMMA FinitelyNext ==
    ASSUME FiniteInv'
    PROVE  (\A r \in Repos : IsFiniteSet(Charged(r)')) /\ IsFiniteSet(Unswept')
<1>1. Unswept' \in SUBSET Started'
  BY DEF Unswept, Started
<1>2. ASSUME NEW r \in Repos PROVE Charged(r)' \in SUBSET Started'
  BY DEF Charged, Unpruned, KilledIn, Started
<1>3. QED
  BY <1>1, <1>2, FS_Subset DEF FiniteInv

\* A run's step is its own: its pc, its list and its count.
LEMMA OneRun ==
    ASSUME TypeInv, NEW p \in Runs, Run(p)
    PROVE  /\ invoked' = invoked
           /\ \A q \in Runs \ {p} :
                 pc'[q] = pc[q] /\ todo'[q] = todo[q] /\ total'[q] = total[q] /\ sha'[q] = sha[q]
           /\ pc'[p] \notin {"start", "killed"} /\ pc[p] # "killed"
<1>1. invoked' = invoked
  BY DEF Run, ResolveHead, Look, OpenHit, DiscardDamaged, MakeDir, CreateTmp, WalkHistory,
         ReadBlobs, Flush, Unwitnessed, Sync, Publish, PruneRepo, EvictRepo, EvictRepoDone,
         SweepGlobal, PruneGlobal, EvictGlobal, EvictGlobalDone, Reopen, env
<1>2. \/ pc' = pc /\ pc[p] \in {"evictRepo", "evictGlobal"}
      \/ \E l : l \notin {"start", "killed"} /\ pc' = [pc EXCEPT ![p] = l]
  BY DEF Run, ResolveHead, Look, OpenHit, DiscardDamaged, MakeDir, CreateTmp, WalkHistory,
         ReadBlobs, Flush, Unwitnessed, Sync, Publish, PruneRepo, EvictRepo, EvictRepoDone,
         SweepGlobal, PruneGlobal, EvictGlobal, EvictGlobalDone, Reopen, Goto
<1>3. pc[p] # "killed"
  BY DEF Run, ResolveHead, Look, OpenHit, DiscardDamaged, MakeDir, CreateTmp, WalkHistory,
         ReadBlobs, Flush, Unwitnessed, Sync, Publish, PruneRepo, EvictRepo, EvictRepoDone,
         SweepGlobal, PruneGlobal, EvictGlobal, EvictGlobalDone, Reopen
<1>4. sha' = sha \/ sha' = [sha EXCEPT ![p] = head[RepoOf(p)]]
  BY DEF Run, ResolveHead, Look, OpenHit, DiscardDamaged, MakeDir, CreateTmp, WalkHistory,
         ReadBlobs, Flush, Unwitnessed, Sync, Publish, PruneRepo, EvictRepo, EvictRepoDone,
         SweepGlobal, PruneGlobal, EvictGlobal, EvictGlobalDone, Reopen
<1>5. todo' = todo \/ \E T : todo' = [todo EXCEPT ![p] = T]
  BY DEF Run, ResolveHead, Look, OpenHit, DiscardDamaged, MakeDir, CreateTmp, WalkHistory,
         ReadBlobs, Flush, Unwitnessed, Sync, Publish, PruneRepo, EvictRepo, EvictRepoDone,
         SweepGlobal, PruneGlobal, EvictGlobal, EvictGlobalDone, Reopen
<1>6. total' = total \/ \E n : total' = [total EXCEPT ![p] = n]
  BY DEF Run, ResolveHead, Look, OpenHit, DiscardDamaged, MakeDir, CreateTmp, WalkHistory,
         ReadBlobs, Flush, Unwitnessed, Sync, Publish, PruneRepo, EvictRepo, EvictRepoDone,
         SweepGlobal, PruneGlobal, EvictGlobal, EvictGlobalDone, Reopen
<1>7. QED
  BY <1>1, <1>2, <1>3, <1>4, <1>5, <1>6 DEF TypeInv, TypeOK

Pruning == {"pruneRepo", "evictRepo", "sweepGlobal", "pruneGlobal", "evictGlobal"}

\* What becomes of the stores: a run that is not pruning publishes one or adds
\* none, and one that is pruning has seven steps.
LEMMA StoresOfRun ==
    ASSUME TypeInv, NEW p \in Runs, Run(p)
    PROVE  \/ PruneRepo(p) \/ EvictRepo(p) \/ EvictRepoDone(p) \/ SweepGlobal(p)
           \/ PruneGlobal(p) \/ EvictGlobal(p) \/ EvictGlobalDone(p)
           \/ /\ pc[p] \notin Pruning /\ pc'[p] \notin Pruning
              /\ AllStores' \subseteq AllStores /\ UNCHANGED <<todo, total>>
           \/ /\ pc[p] \notin Pruning /\ pc'[p] = "pruneRepo"
              /\ AllStores' \subseteq AllStores \cup {Key(p)} /\ UNCHANGED <<todo, total, sha>>
<1>1. CASE Publish(p)
  BY <1>1 DEF Publish, files, TypeInv, TypeOK, AllStores, Exists, Pruning, Goto
<1>2. CASE DiscardDamaged(p)
  BY <1>2 DEF DiscardDamaged, Delete, TypeInv, TypeOK, AllStores, Exists, Pruning, Goto
<1>3. CASE \/ ResolveHead(p) \/ Look(p) \/ OpenHit(p) \/ MakeDir(p) \/ CreateTmp(p)
           \/ WalkHistory(p) \/ ReadBlobs(p) \/ Flush(p) \/ Unwitnessed(p) \/ Sync(p) \/ Reopen(p)
  <2>1. entries' = entries /\ UNCHANGED <<todo, total>> /\ pc[p] \notin Pruning
    BY <1>3 DEF ResolveHead, Look, OpenHit, MakeDir, CreateTmp, WalkHistory, ReadBlobs, Flush,
                Unwitnessed, Sync, Reopen, files, Pruning
  <2>2. pc'[p] \notin Pruning
    BY <1>3 DEF ResolveHead, Look, OpenHit, MakeDir, CreateTmp, WalkHistory, ReadBlobs, Flush,
                Unwitnessed, Sync, Reopen, Pruning, Goto, TypeInv, TypeOK
  <2>3. QED
    BY <2>1, <2>2 DEF AllStores, Exists
<1>4. QED
  BY <1>1, <1>2, <1>3 DEF Run

\* The environment publishes and prunes nothing; a run it ends is charged for.
LEMMA EnvironmentEffect ==
    ASSUME TypeInv, Environment \/ UNCHANGED vars
    PROVE  /\ AllStores' \subseteq AllStores /\ UNCHANGED <<invoked, sha, todo, total>>
           /\ \A q \in Runs : pc'[q] = pc[q] \/ pc'[q] = "killed"
           /\ \E p : \A q \in Runs \ {p} : pc[q] = "start" => pc'[q] = "start"
<1>1. CASE Tick \/ (\E r \in Repos : MoveHead(r)) \/ UNCHANGED vars
  BY <1>1 DEF Tick, MoveHead, vars, env, files, AllStores, Exists
<1>2. CASE \E p \in Runs : Kill(p)
  <2>1. PICK p \in Runs : /\ UNCHANGED <<invoked, sha, todo, total, entries>>
                          /\ pc' = [pc EXCEPT ![p] = "killed"]
    BY <1>2 DEF Kill, Goto, files
  <2>2. \A q \in Runs : (q # p => pc'[q] = pc[q]) /\ (q = p => pc'[q] = "killed")
    BY <2>1 DEF TypeInv, TypeOK
  <2>3. QED
    BY <2>1, <2>2 DEF AllStores, Exists
<1>3. CASE PowerLoss
  <2>1. UNCHANGED <<invoked, sha, todo, total>>
    BY <1>3 DEF PowerLoss
  <2>2. AllStores' \subseteq AllStores
    BY <1>3 DEF PowerLoss, Survives, TypeInv, TypeOK, AllStores, Exists
  <2>3. \A q \in Runs : \/ pc'[q] = pc[q]
                        \/ pc'[q] = "killed" /\ pc[q] # "start"
    BY <1>3 DEF PowerLoss
  <2>4. QED
    BY <2>1, <2>2, <2>3
<1>4. CASE Damage
  BY <1>4 DEF Damage, AllStores, Exists, TypeInv, TypeOK
<1>5. QED
  BY <1>1, <1>2, <1>3, <1>4 DEF Environment

LEMMA FiniteStep == ASSUME TypeInv, FiniteInv, [Next]_vars PROVE FiniteInv'
<1>1. \E p : \A q \in Runs \ {p} : pc[q] = "start" => pc'[q] = "start"
  BY OneRun, EnvironmentEffect DEF Next
<1>2. PICK p : Started' \subseteq Started \cup {p}
  BY <1>1 DEF Started
<1>3. IsFiniteSet(Started')
  BY <1>2, FS_AddElement, FS_Subset DEF FiniteInv
<1>4. ASSUME NEW q \in Runs, NEW r \in Runs, Run(r) PROVE IsFiniteSet(todo'[q])
  <2>0. IsFiniteSet(todo[q]) /\ q \in DOMAIN todo
    BY DEF FiniteInv, TypeInv, TypeOK
  <2>1. CASE q # r \/ UNCHANGED todo
    BY <1>4, <2>0, <2>1, OneRun
  <2>2. CASE q = r /\ PruneRepo(r)
    <3>1. PICK V \in Oldest(Stores(RepoOf(r)), Excess(Cardinality(Stores(RepoOf(r))))) :
                todo' = [todo EXCEPT ![r] = Listed(V)]
      BY <2>2 DEF PruneRepo
    <3>2. V \in SUBSET AllStores
      BY <3>1 DEF Oldest, Stores, AllStores
    <3>3. IsFiniteSet(Listed(V))
      BY <3>2, FS_Subset, ListedFinite DEF TypeInv
    <3>4. QED
      BY <2>0, <2>2, <3>1, <3>3
  <2>3. CASE q = r /\ PruneGlobal(r)
    BY <2>0, <2>3, ListedFinite DEF PruneGlobal, TypeInv
  <2>4. CASE q = r /\ (EvictRepo(r) \/ EvictGlobal(r))
    <3>1. PICK e : todo' = [todo EXCEPT ![r] = @ \ {e}]
      BY <2>4 DEF EvictRepo, EvictGlobal
    <3>2. QED
      BY <2>0, <2>4, <3>1, FS_RemoveElement
  <2>5. CASE q = r /\ EvictGlobalDone(r)
    BY <2>0, <2>5, FS_EmptySet DEF EvictGlobalDone
  <2>6. CASE EvictRepoDone(r) \/ SweepGlobal(r)
    BY <2>1, <2>6 DEF EvictRepoDone, SweepGlobal
  <2>7. QED
    BY <1>4, <2>1, <2>2, <2>3, <2>4, <2>5, <2>6, StoresOfRun
<1>5. QED
  BY <1>3, <1>4, EnvironmentEffect DEF Next, FiniteInv

\* A step that adds no store to a repository's directory, takes no run to its
\* eviction there and lets none go uncharged.
LEMMA RepoKept ==
    ASSUME TypeInv, FiniteInv, FiniteInv', RepoInv, NEW r \in Repos,
           Stores(r)' \subseteq Stores(r), Evicting(r)' \subseteq Evicting(r),
           Charged(r) \subseteq Charged(r)',
           NEW Q \in SUBSET Evicting(r)', \A q \in Q : todo'[q] = todo[q]
    PROVE  RepoBound(r, Q)'
<1> DEFINE A == Stores(r) \ Pending(Q)
           B == Stores(r)' \ Pending(Q)'
           X == Charged(r) \ Q
           Y == Charged(r)' \ Q
<1>1. Pending(Q)' = Pending(Q)
  BY DEF Pending, KeysOf
<1>2. B \in SUBSET A /\ X \subseteq Y
  BY <1>1
<1>3. IsFiniteSet(A) /\ IsFiniteSet(Y)
  <2>1. IsFiniteSet(Stores(r)) /\ IsFiniteSet(Charged(r)')
    BY Finitely, FinitelyNext
  <2>2. QED
    BY <2>1, FS_Subset
<1>4. Cardinality(A) <= MAX_REPO_CACHE_ENTRIES + Cardinality(X)
  BY DEF RepoInv, RepoBound
<1>5. MAX_REPO_CACHE_ENTRIES \in Int
  BY CacheAssumption
<1> HIDE DEF A, B, X, Y
<1>6. Cardinality(B) <= MAX_REPO_CACHE_ENTRIES + Cardinality(Y)
  BY <1>2, <1>3, <1>4, <1>5, Bounded
<1>7. QED
  BY <1>6 DEF RepoBound, B, Y

\* Publishing charges the run that publishes.
LEMMA RepoPublished ==
    ASSUME TypeInv, FiniteInv, FiniteInv', RepoInv, NEW p \in Runs, NEW r \in Repos, NEW k,
           Stores(r)' \subseteq Stores(r) \cup {k}, Evicting(r)' \subseteq Evicting(r),
           Charged(r) \cup {p} \subseteq Charged(r)', p \notin Charged(r),
           p \notin Evicting(r)', UNCHANGED todo,
           NEW Q \in SUBSET Evicting(r)'
    PROVE  RepoBound(r, Q)'
<1> DEFINE A == Stores(r) \ Pending(Q)
           B == Stores(r)' \ Pending(Q)'
           X == Charged(r) \ Q
           Y == Charged(r)' \ Q
<1>1. Pending(Q)' = Pending(Q)
  BY DEF Pending, KeysOf
<1>2. B \subseteq A \cup {k} /\ X \cup {p} \subseteq Y /\ p \notin X
  BY <1>1
<1>3. IsFiniteSet(A) /\ IsFiniteSet(Y)
  <2>1. IsFiniteSet(Stores(r)) /\ IsFiniteSet(Charged(r)')
    BY Finitely, FinitelyNext
  <2>2. QED
    BY <2>1, FS_Subset
<1>4. Cardinality(A) <= MAX_REPO_CACHE_ENTRIES + Cardinality(X)
  BY DEF RepoInv, RepoBound
<1>5. MAX_REPO_CACHE_ENTRIES \in Int
  BY CacheAssumption
<1> HIDE DEF A, B, X, Y
<1>6. Cardinality(B) <= MAX_REPO_CACHE_ENTRIES + Cardinality(Y)
  BY <1>2, <1>3, <1>4, <1>5, BoundedOne
<1>7. QED
  BY <1>6 DEF RepoBound, B, Y

\* A listing takes what is beyond the cap, so that no more than the cap is left.
LEMMA ListingLeavesTheCap ==
    ASSUME NEW ks, IsFiniteSet(ks), NEW V \in Oldest(ks, Excess(Cardinality(ks)))
    PROVE  Cardinality(ks \ V) <= MAX_REPO_CACHE_ENTRIES
<1>1. V \in SUBSET ks /\ Cardinality(V) = Excess(Cardinality(ks))
  BY DEF Oldest
<1>2. Cardinality(ks) \in Nat /\ MAX_REPO_CACHE_ENTRIES \in Nat
  BY FS_CardinalityType, CacheAssumption
<1>3. Cardinality(ks \ V) = Cardinality(ks) - Cardinality(V)
  <2>1. ks \cap V = V
    BY <1>1
  <2>2. QED
    BY <2>1, FS_Difference
<1>4. QED
  BY <1>1, <1>2, <1>3 DEF Excess

LEMMA RepoListed ==
    ASSUME TypeInv, FiniteInv, FiniteInv', RepoInv, NEW p \in Runs, PruneRepo(p),
           NEW r \in Repos, NEW Q \in SUBSET Evicting(r)'
    PROVE  RepoBound(r, Q)'
<1>1. /\ UNCHANGED <<invoked, entries>> /\ pc' = [pc EXCEPT ![p] = "evictRepo"]
      /\ pc[p] = "pruneRepo"
  BY DEF PruneRepo, Goto, env
<1>2. Stores(r)' = Stores(r) /\ Charged(r)' = Charged(r) /\ RepoOf(p)' = RepoOf(p)
  BY <1>1 DEF Stores, Charged, Unpruned, KilledIn, RepoOf, TypeInv, TypeOK, Exists
<1>3. PICK V \in Oldest(Stores(RepoOf(p)), Excess(Cardinality(Stores(RepoOf(p))))) :
            todo' = [todo EXCEPT ![p] = Listed(V)]
  BY DEF PruneRepo
<1>4. CASE p \in Q
  <2>1. RepoOf(p) = r
    BY <1>2, <1>4 DEF Evicting
  <2>2. KeysOf(p)' = V
    BY <1>3, ListedKeys DEF KeysOf, TypeInv, TypeOK
  <2>3. Stores(r)' \ Pending(Q)' \subseteq Stores(r) \ V
    BY <1>2, <1>4, <2>2 DEF Pending
  <2>4. Cardinality(Stores(r) \ V) <= MAX_REPO_CACHE_ENTRIES
    BY <1>3, <2>1, ListingLeavesTheCap, Finitely
  <2>5. IsFiniteSet(Stores(r) \ V)
    BY Finitely, FS_Subset
  <2>6. IsFiniteSet(Charged(r)' \ Q)
    BY FinitelyNext, FS_Subset
  <2> DEFINE A == Stores(r) \ V
             B == Stores(r)' \ Pending(Q)'
             Y == Charged(r)' \ Q
  <2>7. B \in SUBSET A /\ IsFiniteSet(A) /\ Cardinality(A) <= MAX_REPO_CACHE_ENTRIES /\ IsFiniteSet(Y)
    BY <2>3, <2>4, <2>5, <2>6
  <2> HIDE DEF A, B, Y
  <2>8. Cardinality(A) <= MAX_REPO_CACHE_ENTRIES + Cardinality({})
    BY <2>7, FS_EmptySet, FS_CardinalityType, CacheAssumption
  <2>9. Cardinality(B) <= MAX_REPO_CACHE_ENTRIES + Cardinality(Y)
    <3>1. {} \subseteq Y /\ MAX_REPO_CACHE_ENTRIES \in Int
      BY CacheAssumption
    <3>2. QED
      BY <2>7, <2>8, <3>1, Bounded
  <2>10. QED
    BY <2>9 DEF RepoBound, B, Y
<1>5. CASE p \notin Q
  <2>1. Q \subseteq Evicting(r)
    BY <1>1, <1>5 DEF Evicting, RepoOf, TypeInv, TypeOK
  <2>2. \A q \in Q : todo'[q] = todo[q]
    BY <1>3, <1>5 DEF Evicting, TypeInv, TypeOK
  <2>3. Pending(Q)' = Pending(Q)
    BY <2>2 DEF Pending, KeysOf
  <2>4. RepoBound(r, Q)
    BY <2>1 DEF RepoInv
  <2>5. QED
    BY <1>2, <2>3, <2>4 DEF RepoBound
<1>6. QED
  BY <1>4, <1>5

LEMMA RepoEvicted ==
    ASSUME TypeInv, FiniteInv, FiniteInv', RepoInv, NEW p \in Runs, EvictRepo(p),
           NEW r \in Repos, NEW Q \in SUBSET Evicting(r)'
    PROVE  RepoBound(r, Q)'
<1>1. UNCHANGED <<invoked, pc>>
  BY DEF EvictRepo, env
<1>2. PICK e \in todo[p] : Delete(e.key) /\ todo' = [todo EXCEPT ![p] = @ \ {e}]
  BY DEF EvictRepo
<1>3. Stores(r)' \subseteq Stores(r) \ {e.key}
  BY <1>2 DEF Delete, Stores, Exists, TypeInv, TypeOK
<1>4. Charged(r)' = Charged(r) /\ Evicting(r)' = Evicting(r)
  BY <1>1 DEF Charged, Unpruned, KilledIn, Evicting, RepoOf
<1>5. \A q \in Runs : (q # p => todo'[q] = todo[q]) /\ todo[q] \subseteq todo'[q] \cup {e}
  BY <1>2 DEF TypeInv, TypeOK
<1>6. \A q \in Runs : KeysOf(q) \subseteq KeysOf(q)' \cup {e.key}
  BY <1>5 DEF KeysOf
<1>7. Pending(Q) \subseteq Pending(Q)' \cup {e.key}
  BY <1>6 DEF Pending, Evicting
<1> DEFINE A == Stores(r) \ Pending(Q)
           B == Stores(r)' \ Pending(Q)'
           X == Charged(r) \ Q
<1>8. B \in SUBSET A
  BY <1>3, <1>7
<1>9. IsFiniteSet(A) /\ IsFiniteSet(X)
  BY Finitely, FS_Subset
<1>10. Cardinality(A) <= MAX_REPO_CACHE_ENTRIES + Cardinality(X)
  BY <1>4 DEF RepoInv, RepoBound
<1> HIDE DEF A, B, X
<1>11. Cardinality(B) <= MAX_REPO_CACHE_ENTRIES + Cardinality(X)
  BY <1>8, <1>9, <1>10, Bounded, CacheAssumption
<1>12. QED
  BY <1>4, <1>11 DEF RepoBound, B, X

\* A run that has evicted is one of those whose deletions are over.
LEMMA RepoEvictedAll ==
    ASSUME TypeInv, RepoInv, NEW p \in Runs, EvictRepoDone(p),
           NEW r \in Repos, NEW Q \in SUBSET Evicting(r)'
    PROVE  RepoBound(r, Q)'
<1>1. /\ UNCHANGED <<invoked, entries, todo>> /\ pc' = [pc EXCEPT ![p] = "sweepGlobal"]
      /\ pc[p] = "evictRepo" /\ todo[p] = {}
  BY DEF EvictRepoDone, Goto, env, files
<1>2. Stores(r)' = Stores(r) /\ Pending(Q)' = Pending(Q) /\ RepoOf(p)' = RepoOf(p)
  BY <1>1 DEF Stores, Exists, Pending, KeysOf, RepoOf
<1>3. Charged(r)' = Charged(r) \ {p} /\ Evicting(r)' = Evicting(r) \ {p}
  BY <1>1 DEF Charged, Unpruned, KilledIn, Evicting, RepoOf, TypeInv, TypeOK
<1>4. CASE RepoOf(p) = r
  <2>1. Q \cup {p} \in SUBSET Evicting(r)
    BY <1>1, <1>3, <1>4 DEF Evicting
  <2>2. Pending(Q \cup {p}) = Pending(Q)
    BY <1>1 DEF Pending, KeysOf
  <2>3. Charged(r) \ (Q \cup {p}) = Charged(r)' \ Q
    BY <1>3
  <2>4. RepoBound(r, Q \cup {p})
    BY <2>1 DEF RepoInv
  <2>5. QED
    BY <1>2, <2>2, <2>3, <2>4 DEF RepoBound
<1>5. CASE RepoOf(p) # r
  <2>1. Charged(r)' = Charged(r) /\ Q \in SUBSET Evicting(r)
    BY <1>3, <1>5 DEF Charged, Unpruned, KilledIn
  <2>2. QED
    BY <1>2, <2>1 DEF RepoInv, RepoBound
<1>6. QED
  BY <1>4, <1>5

LEMMA RepoStep == ASSUME TypeInv, FiniteInv, RepoInv, [Next]_vars PROVE RepoInv'
<1> SUFFICES ASSUME NEW r \in Repos, NEW Q \in SUBSET Evicting(r)' PROVE RepoBound(r, Q)'
  BY DEF RepoInv
<1>0. FiniteInv'
  BY FiniteStep
<1>1. CASE Environment \/ UNCHANGED vars
  <2>1. /\ AllStores' \subseteq AllStores /\ UNCHANGED <<invoked, todo>>
        /\ \A q \in Runs : pc'[q] = pc[q] \/ pc'[q] = "killed"
    BY <1>1, EnvironmentEffect
  <2>2. Stores(r)' \subseteq Stores(r)
    BY <2>1 DEF Stores, AllStores
  <2>3. Evicting(r)' \subseteq Evicting(r) /\ Charged(r) \subseteq Charged(r)'
    BY <2>1 DEF Evicting, Charged, Unpruned, KilledIn, RepoOf
  <2>4. QED
    BY <1>0, <2>1, <2>2, <2>3, RepoKept
<1>2. ASSUME NEW p \in Runs, Run(p) PROVE RepoBound(r, Q)'
  <2>0. /\ invoked' = invoked
        /\ \A q \in Runs \ {p} : pc'[q] = pc[q] /\ todo'[q] = todo[q]
        /\ pc'[p] # "killed" /\ pc[p] # "killed"
    BY <1>2, OneRun
  <2>1. CASE PruneRepo(p) \/ EvictRepo(p) \/ EvictRepoDone(p)
    BY <1>0, <2>1, RepoListed, RepoEvicted, RepoEvictedAll
  <2>2. ASSUME AllStores' \subseteq AllStores, pc[p] \notin {"pruneRepo", "evictRepo"},
               pc'[p] \notin {"pruneRepo", "evictRepo"}
        PROVE  RepoBound(r, Q)'
    <3>1. Stores(r)' \subseteq Stores(r)
      BY <2>2 DEF Stores, AllStores
    <3>2. /\ Evicting(r)' \subseteq Evicting(r) /\ Charged(r) \subseteq Charged(r)'
          /\ p \notin Evicting(r)'
      BY <2>0, <2>2 DEF Evicting, Charged, Unpruned, KilledIn, RepoOf
    <3>3. \A q \in Q : todo'[q] = todo[q]
      BY <2>0, <3>2 DEF Evicting
    <3>4. QED
      BY <1>0, <3>1, <3>2, <3>3, RepoKept
  <2>3. CASE SweepGlobal(p) \/ PruneGlobal(p) \/ EvictGlobal(p) \/ EvictGlobalDone(p)
    <3>1. AllStores' \subseteq AllStores
      BY <2>3 DEF SweepGlobal, PruneGlobal, EvictGlobal, EvictGlobalDone, Delete, files,
                  AllStores, Exists, TypeInv, TypeOK
    <3>2. pc[p] \notin {"pruneRepo", "evictRepo"} /\ pc'[p] \notin {"pruneRepo", "evictRepo"}
      BY <2>3 DEF SweepGlobal, PruneGlobal, EvictGlobal, EvictGlobalDone, Goto, TypeInv, TypeOK
    <3>3. QED
      BY <2>2, <3>1, <3>2
  <2>4. CASE /\ pc[p] \notin Pruning /\ pc'[p] = "pruneRepo"
             /\ AllStores' \subseteq AllStores \cup {Key(p)} /\ UNCHANGED <<todo, total, sha>>
    <3>1. Evicting(r)' \subseteq Evicting(r) /\ p \notin Evicting(r)'
      BY <2>0, <2>4 DEF Evicting, RepoOf
    <3>2. CASE RepoOf(p) = r
      <4>1. /\ Stores(r)' \subseteq Stores(r) \cup {Key(p)} /\ p \notin Charged(r)
            /\ Charged(r) \cup {p} \subseteq Charged(r)'
        BY <2>0, <2>4, <3>2 DEF Stores, AllStores, Charged, Unpruned, KilledIn, RepoOf, Pruning
      <4>2. QED
        BY <1>0, <2>4, <3>1, <4>1, RepoPublished
    <3>3. CASE RepoOf(p) # r
      <4>1. Stores(r)' \subseteq Stores(r) /\ Charged(r) \subseteq Charged(r)'
        BY <2>0, <2>4, <3>3 DEF Stores, AllStores, Charged, Unpruned, KilledIn, RepoOf, Pruning, Key
      <4>2. QED
        BY <1>0, <2>4, <3>1, <4>1, RepoKept
    <3>4. QED
      BY <3>2, <3>3
  <2>5. QED
    BY <1>2, <2>1, <2>2, <2>3, <2>4, StoresOfRun DEF Pruning
<1>3. QED
  BY <1>1, <1>2 DEF Next

-----------------------------------------------------------------------------
(* The cache root.                                                          *)

\* A witness still counts when stores go and runs are charged for, ...
LEMMA CountsKept ==
    ASSUME NEW A, NEW B, NEW K, NEW k, NEW X, NEW Y, B \subseteq A, X \subseteq Y,
           IsFiniteSet(A), IsFiniteSet(Y), NEW t \in Nat, NEW n \in Nat,
           Cardinality(A \ K) + t <= n + Cardinality(X),
           Cardinality((A \ K) \ {k}) <= Cardinality(X)
    PROVE  /\ Cardinality(B \ K) + t <= n + Cardinality(Y)
           /\ Cardinality((B \ K) \ {k}) <= Cardinality(Y)
<1>1. /\ IsFiniteSet(A \ K) /\ IsFiniteSet((A \ K) \ {k}) /\ IsFiniteSet(B \ K)
      /\ IsFiniteSet((B \ K) \ {k}) /\ IsFiniteSet(X)
  BY FS_Subset
<1>2. /\ Cardinality(A \ K) \in Nat /\ Cardinality((A \ K) \ {k}) \in Nat
      /\ Cardinality(B \ K) \in Nat /\ Cardinality((B \ K) \ {k}) \in Nat
      /\ Cardinality(X) \in Nat /\ Cardinality(Y) \in Nat
  BY <1>1, FS_CardinalityType
<1>3. Cardinality(A \ K) <= (n - t) + Cardinality(X)
  BY <1>2
<1>4. Cardinality(B \ K) <= (n - t) + Cardinality(Y)
  <2>1. B \ K \in SUBSET (A \ K) /\ n - t \in Int
    OBVIOUS
  <2>2. QED
    BY <1>1, <1>3, <2>1, Bounded
<1>5. Cardinality((B \ K) \ {k}) <= 0 + Cardinality(Y)
  <2>1. (B \ K) \ {k} \in SUBSET ((A \ K) \ {k}) /\ 0 \in Int
    OBVIOUS
  <2>2. Cardinality((A \ K) \ {k}) <= 0 + Cardinality(X)
    BY <1>2
  <2>3. QED
    BY <1>1, <2>1, <2>2, Bounded
<1>6. QED
  BY <1>2, <1>4, <1>5

\* ... and when a store comes with a run to charge.
LEMMA CountsOneMore ==
    ASSUME NEW A, NEW B, NEW K, NEW k, NEW X, NEW Y, NEW j, NEW q,
           B \subseteq A \cup {j}, X \cup {q} \subseteq Y, q \notin X,
           IsFiniteSet(A), IsFiniteSet(Y), NEW t \in Nat, NEW n \in Nat,
           Cardinality(A \ K) + t <= n + Cardinality(X),
           Cardinality((A \ K) \ {k}) <= Cardinality(X)
    PROVE  /\ Cardinality(B \ K) + t <= n + Cardinality(Y)
           /\ Cardinality((B \ K) \ {k}) <= Cardinality(Y)
<1>1. /\ IsFiniteSet(A \ K) /\ IsFiniteSet((A \ K) \ {k}) /\ IsFiniteSet(X)
      /\ IsFiniteSet(B \ K) /\ IsFiniteSet((B \ K) \ {k})
  BY FS_Subset, FS_AddElement
<1>2. /\ Cardinality(A \ K) \in Nat /\ Cardinality((A \ K) \ {k}) \in Nat
      /\ Cardinality(B \ K) \in Nat /\ Cardinality((B \ K) \ {k}) \in Nat
      /\ Cardinality(X) \in Nat /\ Cardinality(Y) \in Nat
  BY <1>1, FS_CardinalityType
<1>3. Cardinality(A \ K) <= (n - t) + Cardinality(X)
  BY <1>2
<1>4. Cardinality(B \ K) <= (n - t) + Cardinality(Y)
  <2>1. B \ K \subseteq (A \ K) \cup {j} /\ n - t \in Int
    OBVIOUS
  <2>2. QED
    BY <1>1, <1>3, <2>1, BoundedOne
<1>5. Cardinality((B \ K) \ {k}) <= 0 + Cardinality(Y)
  <2> DEFINE P == (A \ K) \ {k}
             R == (B \ K) \ {k}
  <2>1. PICK z \in Int : z = 0
    OBVIOUS
  <2>2. R \subseteq P \cup {j} /\ IsFiniteSet(P) /\ Cardinality(P) <= z + Cardinality(X)
    BY <1>1, <1>2, <2>1
  <2> HIDE DEF P, R
  <2>3. Cardinality(R) <= z + Cardinality(Y)
    BY <2>2, BoundedOne
  <2>4. QED
    BY <2>1, <2>3 DEF R
<1>6. QED
  BY <1>2, <1>4, <1>5

LEMMA CapType == Cap \in Nat \ {0} /\ GLOBAL_CACHE_MAX <= Cap
  BY CacheAssumption DEF Cap

LEMMA CountTypes ==
    ASSUME TypeInv, FiniteInv, NEW q \in Runs
    PROVE  total[q] \in Nat /\ Cardinality(todo[q]) \in Nat
  BY FS_CardinalityType DEF TypeInv, TypeOK, FiniteInv

LEMMA GlobalKept ==
    ASSUME TypeInv, FiniteInv, FiniteInv', GlobalInv,
           AllStores' \subseteq AllStores, EvictingGlobally' \subseteq EvictingGlobally,
           Unswept \subseteq Unswept', NEW Q \in SUBSET EvictingGlobally',
           \A q \in Q : todo'[q] = todo[q] /\ total'[q] = total[q] /\ Key(q)' = Key(q)
    PROVE  GlobalBound(Q)'
<1> DEFINE X == Unswept \ Q
           Y == Unswept' \ Q
<1>1. X \subseteq Y /\ IsFiniteSet(Y)
  BY FinitelyNext, FS_Subset
<1>2. IsFiniteSet(AllStores) /\ AllStores' \in SUBSET AllStores /\ Cap \in Int
  BY CapType DEF TypeInv
<1>3. CASE Cardinality(AllStores) <= Cap + Cardinality(X)
  <2> HIDE DEF X, Y
  <2>1. Cardinality(AllStores') <= Cap + Cardinality(Y)
    BY <1>1, <1>2, <1>3, Bounded
  <2>2. QED
    BY <2>1 DEF GlobalBound, Y, Cap
<1>4. ASSUME NEW q \in Q, Counts(q, Q) PROVE Counts(q, Q)'
  <2>1. q \in Runs
    BY DEF EvictingGlobally
  <2>2. total[q] \in Nat /\ Cardinality(todo[q]) \in Nat
    BY <2>1, CountTypes
  <2>3. /\ Cardinality(AllStores \ KeysOf(q)) + Cardinality(todo[q]) <= total[q] + Cardinality(X)
        /\ Cardinality((AllStores \ KeysOf(q)) \ {Key(q)}) <= Cardinality(X)
    BY <1>4 DEF Counts
  <2>4. KeysOf(q)' = KeysOf(q)
    BY DEF KeysOf
  <2> DEFINE A == AllStores
             B == AllStores'
             K == KeysOf(q)
             k == Key(q)
             t == Cardinality(todo[q])
             n == total[q]
  <2>5. /\ Cardinality(A \ K) + t <= n + Cardinality(X) /\ Cardinality((A \ K) \ {k}) <= Cardinality(X)
        /\ B \subseteq A /\ IsFiniteSet(A) /\ t \in Nat /\ n \in Nat
    BY <1>2, <2>2, <2>3
  <2> HIDE DEF X, Y, A, B, K, k, t, n
  <2>6. Cardinality(B \ K) + t <= n + Cardinality(Y) /\ Cardinality((B \ K) \ {k}) <= Cardinality(Y)
    BY <1>1, <2>5, CountsKept
  <2>7. QED
    BY <2>4, <2>6 DEF Counts, Y, B, K, k, t, n
<1>5. QED
  BY <1>3, <1>4 DEF GlobalInv, GlobalBound

LEMMA GlobalPublished ==
    ASSUME TypeInv, FiniteInv, FiniteInv', GlobalInv, NEW p \in Runs, NEW k,
           AllStores' \subseteq AllStores \cup {k}, EvictingGlobally' \subseteq EvictingGlobally,
           Unswept \cup {p} \subseteq Unswept', p \notin Unswept,
           NEW Q \in SUBSET EvictingGlobally', p \notin Q,
           \A q \in Q : todo'[q] = todo[q] /\ total'[q] = total[q] /\ Key(q)' = Key(q)
    PROVE  GlobalBound(Q)'
<1> DEFINE X == Unswept \ Q
           Y == Unswept' \ Q
<1>1. X \cup {p} \subseteq Y /\ p \notin X /\ IsFiniteSet(Y)
  BY FinitelyNext, FS_Subset
<1>2. IsFiniteSet(AllStores) /\ Cap \in Int
  BY CapType DEF TypeInv
<1>3. CASE Cardinality(AllStores) <= Cap + Cardinality(X)
  <2> HIDE DEF X, Y
  <2>1. Cardinality(AllStores') <= Cap + Cardinality(Y)
    BY <1>1, <1>2, <1>3, BoundedOne
  <2>2. QED
    BY <2>1 DEF GlobalBound, Y, Cap
<1>4. ASSUME NEW q \in Q, Counts(q, Q) PROVE Counts(q, Q)'
  <2>1. q \in Runs
    BY DEF EvictingGlobally
  <2>2. total[q] \in Nat /\ Cardinality(todo[q]) \in Nat
    BY <2>1, CountTypes
  <2>3. /\ Cardinality(AllStores \ KeysOf(q)) + Cardinality(todo[q]) <= total[q] + Cardinality(X)
        /\ Cardinality((AllStores \ KeysOf(q)) \ {Key(q)}) <= Cardinality(X)
    BY <1>4 DEF Counts
  <2>4. KeysOf(q)' = KeysOf(q)
    BY DEF KeysOf
  <2> HIDE DEF X, Y
  <2>5. /\ Cardinality(AllStores' \ KeysOf(q)) + Cardinality(todo[q]) <= total[q] + Cardinality(Y)
        /\ Cardinality((AllStores' \ KeysOf(q)) \ {Key(q)}) <= Cardinality(Y)
    BY <1>1, <1>2, <2>2, <2>3, CountsOneMore
  <2>6. QED
    BY <2>4, <2>5 DEF Counts, Y
<1>5. QED
  BY <1>3, <1>4 DEF GlobalInv, GlobalBound

\* A listing of the whole root is its own witness.
LEMMA GlobalListed ==
    ASSUME TypeInv, FiniteInv, FiniteInv', GlobalInv, NEW p \in Runs, PruneGlobal(p),
           NEW Q \in SUBSET EvictingGlobally'
    PROVE  GlobalBound(Q)'
<1>1. /\ UNCHANGED <<invoked, entries, sha>> /\ pc' = [pc EXCEPT ![p] = "evictGlobal"]
      /\ pc[p] = "pruneGlobal" /\ todo' = [todo EXCEPT ![p] = Listed(AllStores)]
      /\ total' = [total EXCEPT ![p] = Cardinality(AllStores)]
  BY DEF PruneGlobal, Goto, env
<1>2. AllStores' = AllStores /\ Unswept' = Unswept
  BY <1>1 DEF AllStores, Exists, Unswept, TypeInv, TypeOK
<1>3. CASE p \in Q
  <2>1. KeysOf(p)' = AllStores /\ todo'[p] = Listed(AllStores) /\ total'[p] = Cardinality(AllStores)
    BY <1>1, ListedKeys DEF KeysOf, TypeInv, TypeOK
  <2>2. IsFiniteSet(Unswept' \ Q)
    BY FinitelyNext, FS_Subset
  <2>3. /\ Cardinality(Unswept' \ Q) \in Nat /\ Cardinality(AllStores) \in Nat
        /\ Cardinality(Listed(AllStores)) \in Nat
        /\ Cardinality(Listed(AllStores)) <= Cardinality(AllStores)
    BY <2>2, ListedFinite, FS_CardinalityType DEF TypeInv
  <2>4. Cardinality(AllStores' \ KeysOf(p)') = 0 /\ Cardinality((AllStores' \ KeysOf(p)') \ {Key(p)'}) = 0
    <3>1. AllStores' \ KeysOf(p)' = {} /\ (AllStores' \ KeysOf(p)') \ {Key(p)'} = {}
      BY <1>2, <2>1
    <3>2. QED
      BY <3>1, FS_EmptySet
  <2>5. Counts(p, Q)'
    BY <2>1, <2>3, <2>4 DEF Counts
  <2>6. QED
    BY <1>3, <2>5 DEF GlobalBound
<1>4. CASE p \notin Q
  <2>1. Q \subseteq EvictingGlobally
    BY <1>1, <1>4 DEF EvictingGlobally, TypeInv, TypeOK
  <2>2. \A q \in Q : KeysOf(q)' = KeysOf(q) /\ todo'[q] = todo[q] /\ total'[q] = total[q] /\ Key(q)' = Key(q)
    BY <1>1, <1>4, <2>1 DEF EvictingGlobally, KeysOf, Key, RepoOf, VariantOf, TypeInv, TypeOK
  <2>3. \A q \in Q : Counts(q, Q) => Counts(q, Q)'
    BY <1>2, <2>2 DEF Counts
  <2>4. QED
    BY <1>2, <2>1, <2>3 DEF GlobalInv, GlobalBound, Cap
<1>5. QED
  BY <1>3, <1>4

\* A row that is passed over or deleted leaves the witness's count what it says.
LEMMA CountsEvicted ==
    ASSUME TypeInv, FiniteInv, NEW p \in Runs, EvictGlobal(p), NEW Q, IsFiniteSet(Unswept \ Q),
           Counts(p, Q), Unswept' = Unswept
    PROVE  Counts(p, Q)'
<1>1. PICK e \in todo[p] :
            /\ todo' = [todo EXCEPT ![p] = @ \ {e}]
            /\ IF e.key = Key(p) THEN UNCHANGED <<entries, total>>
               ELSE /\ Delete(e.key)
                    /\ total' = [total EXCEPT ![p] = IF Exists(entries[e.key]) THEN @ - 1 ELSE @]
  BY DEF EvictGlobal
<1>2. Key(p)' = Key(p) /\ todo'[p] = todo[p] \ {e} /\ e.key \in Keys
  BY <1>1 DEF EvictGlobal, env, Key, RepoOf, VariantOf, TypeInv, TypeOK
<1> DEFINE A == AllStores
           B == AllStores'
           K == KeysOf(p)
           L == KeysOf(p)'
           t == Cardinality(todo[p])
           u == Cardinality(todo'[p])
           c == Cardinality(Unswept \ Q)
<1>3. K \subseteq L \cup {e.key} /\ e.key \in K
  BY <1>2 DEF KeysOf
<1>4. t \in Nat /\ u \in Nat /\ u = t - 1 /\ c \in Nat /\ total[p] \in Nat
  <2>1. IsFiniteSet(todo[p])
    BY DEF FiniteInv
  <2>2. Cardinality(todo[p] \ {e}) = Cardinality(todo[p]) - 1 /\ IsFiniteSet(todo[p] \ {e})
    BY <2>1, FS_RemoveElement
  <2>3. QED
    BY <1>2, <2>1, <2>2, FS_CardinalityType DEF TypeInv, TypeOK
<1>5. IsFiniteSet(A \ K) /\ Cardinality(A \ K) \in Nat
  BY FS_Subset, FS_CardinalityType DEF TypeInv
<1>6. IsFiniteSet((A \ K) \ {Key(p)}) /\ Cardinality((A \ K) \ {Key(p)}) \in Nat
  BY <1>5, FS_Subset, FS_CardinalityType
<1>7. /\ Cardinality(A \ K) + t <= total[p] + c
      /\ Cardinality((A \ K) \ {Key(p)}) <= c
  BY DEF Counts
<1>8. SUFFICES /\ Cardinality(B \ L) + u <= total'[p] + c
               /\ Cardinality((B \ L) \ {Key(p)}) <= c
  BY <1>2 DEF Counts
<1>9. CASE e.key = Key(p)
  <2>1. B = A /\ total'[p] = total[p]
    BY <1>1, <1>9 DEF AllStores, Exists
  <2>2. B \ L \in SUBSET ((A \ K) \cup {e.key}) /\ (B \ L) \ {Key(p)} \in SUBSET ((A \ K) \ {Key(p)})
    BY <1>3, <1>9, <2>1
  <2> HIDE DEF A, B, K, L, t, u, c
  <2>3. Cardinality((B \ L) \ {Key(p)}) <= Cardinality((A \ K) \ {Key(p)})
    BY <1>6, <2>2, FS_Subset
  <2>4. /\ IsFiniteSet((A \ K) \cup {e.key})
        /\ Cardinality((A \ K) \cup {e.key}) <= Cardinality(A \ K) + 1
    <3>1. /\ IsFiniteSet((A \ K) \cup {e.key})
          /\ Cardinality((A \ K) \cup {e.key}) =
                IF e.key \in A \ K THEN Cardinality(A \ K) ELSE Cardinality(A \ K) + 1
      BY <1>5, FS_AddElement
    <3>2. QED
      BY <1>5, <3>1
  <2>5. IsFiniteSet(B \ L) /\ Cardinality(B \ L) <= Cardinality((A \ K) \cup {e.key})
    BY <2>2, <2>4, FS_Subset
  <2>6. /\ IsFiniteSet((B \ L) \ {Key(p)}) /\ Cardinality((B \ L) \ {Key(p)}) \in Nat
        /\ Cardinality(B \ L) \in Nat /\ Cardinality((A \ K) \cup {e.key}) \in Nat
    BY <2>4, <2>5, FS_Subset, FS_CardinalityType
  <2>7. QED
    BY <1>4, <1>5, <1>6, <1>7, <2>1, <2>3, <2>4, <2>5, <2>6
<1>10. CASE e.key # Key(p)
  <2>1. B = A \ {e.key}
    BY <1>1, <1>2, <1>10 DEF Delete, AllStores, Exists, TypeInv, TypeOK
  <2>2. total'[p] >= total[p] - 1 /\ total'[p] \in Int
    BY <1>1, <1>4, <1>10 DEF TypeInv, TypeOK
  <2>3. B \ L \in SUBSET (A \ K) /\ (B \ L) \ {Key(p)} \in SUBSET ((A \ K) \ {Key(p)})
    BY <1>3, <2>1
  <2> HIDE DEF A, B, K, L, t, u, c
  <2>4. /\ IsFiniteSet(B \ L) /\ Cardinality(B \ L) <= Cardinality(A \ K)
        /\ IsFiniteSet((B \ L) \ {Key(p)})
        /\ Cardinality((B \ L) \ {Key(p)}) <= Cardinality((A \ K) \ {Key(p)})
    BY <1>5, <1>6, <2>3, FS_Subset
  <2>5. Cardinality(B \ L) \in Nat /\ Cardinality((B \ L) \ {Key(p)}) \in Nat
    BY <2>4, FS_CardinalityType
  <2>6. QED
    BY <1>4, <1>5, <1>6, <1>7, <2>2, <2>4, <2>5
<1>11. QED
  BY <1>9, <1>10

LEMMA GlobalEvicted ==
    ASSUME TypeInv, FiniteInv, FiniteInv', GlobalInv, NEW p \in Runs, EvictGlobal(p),
           NEW Q \in SUBSET EvictingGlobally'
    PROVE  GlobalBound(Q)'
<1>1. UNCHANGED <<invoked, pc, sha>>
  BY DEF EvictGlobal, env
<1>2. Unswept' = Unswept /\ EvictingGlobally' = EvictingGlobally
  BY <1>1 DEF Unswept, EvictingGlobally
<1>3. AllStores' \subseteq AllStores
  BY DEF EvictGlobal, Delete, AllStores, Exists, TypeInv, TypeOK
<1>4. \A q \in Q \ {p} : todo'[q] = todo[q] /\ total'[q] = total[q] /\ Key(q)' = Key(q)
  <2>1. (\E T : todo' = [todo EXCEPT ![p] = T]) /\ (total' = total \/ \E n : total' = [total EXCEPT ![p] = n])
    BY DEF EvictGlobal
  <2>2. QED
    BY <1>1, <1>2, <2>1 DEF EvictingGlobally, Key, RepoOf, VariantOf, TypeInv, TypeOK
<1>5. IsFiniteSet(Unswept \ Q)
  BY Finitely, FS_Subset
<1>6. CASE p \in Q /\ Counts(p, Q)
  BY <1>2, <1>5, <1>6, CountsEvicted DEF GlobalBound
<1>7. ASSUME NEW q \in Q \ {p}, Counts(q, Q) PROVE Counts(q, Q)'
  <2> DEFINE A == AllStores
             B == AllStores'
             K == KeysOf(q)
             k == Key(q)
             t == Cardinality(todo[q])
             n == total[q]
             X == Unswept \ Q
  <2>1. q \in Runs
    BY DEF EvictingGlobally
  <2>2. /\ Cardinality(A \ K) + t <= n + Cardinality(X) /\ Cardinality((A \ K) \ {k}) <= Cardinality(X)
        /\ B \subseteq A /\ IsFiniteSet(A) /\ IsFiniteSet(X) /\ X \subseteq X /\ t \in Nat /\ n \in Nat
    BY <1>3, <1>5, <1>7, <2>1, CountTypes DEF Counts, TypeInv
  <2>3. KeysOf(q)' = KeysOf(q)
    BY <1>4 DEF KeysOf
  <2> HIDE DEF X, A, B, K, k, t, n
  <2>4. Cardinality(B \ K) + t <= n + Cardinality(X) /\ Cardinality((B \ K) \ {k}) <= Cardinality(X)
    BY <2>2, CountsKept
  <2>5. QED
    BY <1>2, <1>4, <2>3, <2>4 DEF Counts, X, B, K, k, t, n
<1>8. CASE Cardinality(AllStores) <= Cap + Cardinality(Unswept \ Q)
  <2> DEFINE X == Unswept \ Q
  <2>1. IsFiniteSet(X) /\ IsFiniteSet(AllStores) /\ AllStores' \in SUBSET AllStores /\ Cap \in Int /\ X \subseteq X
    BY <1>3, <1>5, CapType DEF TypeInv
  <2>2. Cardinality(AllStores) <= Cap + Cardinality(X)
    BY <1>8
  <2> HIDE DEF X
  <2>3. Cardinality(AllStores') <= Cap + Cardinality(X)
    BY <2>1, <2>2, Bounded
  <2>4. QED
    BY <1>2, <2>3 DEF GlobalBound, X, Cap
<1>9. QED
  BY <1>2, <1>6, <1>7, <1>8 DEF GlobalInv, GlobalBound

\* A run that is done found the cap respected by its count, or had passed every
\* row: all that is left then is its own entry and what others are charged for.
LEMMA GlobalEvictedAll ==
    ASSUME TypeInv, FiniteInv, GlobalInv, NEW p \in Runs, EvictGlobalDone(p),
           NEW Q \in SUBSET EvictingGlobally'
    PROVE  GlobalBound(Q)'
<1>1. /\ UNCHANGED <<invoked, entries, sha, total>> /\ pc' = [pc EXCEPT ![p] = "reopen"]
      /\ pc[p] = "evictGlobal" /\ ~OverCap(p) /\ todo' = [todo EXCEPT ![p] = {}]
  BY DEF EvictGlobalDone, Goto, env, files
<1>2. AllStores' = AllStores
  BY <1>1 DEF AllStores, Exists
<1>3. Unswept' = Unswept \ {p} /\ EvictingGlobally' = EvictingGlobally \ {p}
  BY <1>1 DEF Unswept, EvictingGlobally, TypeInv, TypeOK
<1>4. p \in EvictingGlobally
  BY <1>1 DEF EvictingGlobally
<1> DEFINE R == Q \cup {p}
           X == Unswept' \ Q
<1>5. R \in SUBSET EvictingGlobally /\ X = Unswept \ R /\ p \notin Q
  BY <1>3, <1>4
<1>6. GlobalBound(R)
  BY <1>5 DEF GlobalInv
<1>7. CASE Cardinality(AllStores) <= Cap + Cardinality(Unswept \ R)
  BY <1>2, <1>5, <1>7 DEF GlobalBound, Cap
<1>8. ASSUME NEW q \in Q, Counts(q, R) PROVE Counts(q, Q)'
  <2>1. todo'[q] = todo[q] /\ KeysOf(q)' = KeysOf(q) /\ Key(q)' = Key(q) /\ total'[q] = total[q]
    BY <1>1, <1>5 DEF EvictingGlobally, KeysOf, Key, RepoOf, VariantOf, TypeInv, TypeOK
  <2>2. QED
    BY <1>2, <1>5, <1>8, <2>1 DEF Counts
<1>9. CASE Counts(p, R)
  <2> DEFINE A == AllStores
             K == KeysOf(p)
             k == Key(p)
  <2>1. IsFiniteSet(A) /\ IsFiniteSet(K) /\ IsFiniteSet(X) /\ Cardinality(K) <= Cardinality(todo[p])
    <3>1. IsFiniteSet(todo[p]) /\ IsFiniteSet(Unswept)
      BY Finitely DEF FiniteInv
    <3>2. X \in SUBSET Unswept
      BY <1>5
    <3>3. QED
      BY <3>1, <3>2, KeysFinite, FS_Subset DEF KeysOf, TypeInv
  <2>2. /\ Cardinality(A \ K) + Cardinality(todo[p]) <= total[p] + Cardinality(X)
        /\ Cardinality((A \ K) \ {k}) <= Cardinality(X)
    BY <1>5, <1>9 DEF Counts
  <2>3. /\ IsFiniteSet(A \ K) /\ IsFiniteSet(A \cap K) /\ IsFiniteSet((A \ K) \ {k})
        /\ Cardinality(A \cap K) <= Cardinality(K)
    BY <2>1, FS_Subset
  <2>4. Cardinality(A \ K) = Cardinality(A) - Cardinality(A \cap K)
    BY <2>1, FS_Difference
  <2>5. Cardinality(A \ K) <= Cardinality((A \ K) \ {k}) + 1
    <3>1. /\ Cardinality((A \ K) \ {k}) =
                IF k \in A \ K THEN Cardinality(A \ K) - 1 ELSE Cardinality(A \ K)
          /\ Cardinality(A \ K) \in Nat
      BY <2>3, FS_RemoveElement, FS_CardinalityType
    <3>2. QED
      BY <3>1
  <2>6. /\ Cardinality(A) \in Nat /\ Cardinality(A \ K) \in Nat /\ Cardinality(A \cap K) \in Nat
        /\ Cardinality(K) \in Nat /\ Cardinality((A \ K) \ {k}) \in Nat /\ Cardinality(X) \in Nat
        /\ Cardinality(todo[p]) \in Nat /\ total[p] \in Nat /\ Cap \in Nat \ {0}
        /\ GLOBAL_CACHE_MAX \in Nat /\ GLOBAL_CACHE_MAX <= Cap
    BY <2>1, <2>3, FS_CardinalityType, CountTypes, CapType, CacheAssumption
  <2>7. CASE total[p] <= GLOBAL_CACHE_MAX
    <3> HIDE DEF A, K, k, X
    <3>1. Cardinality(A) <= Cap + Cardinality(X)
      BY <2>1, <2>2, <2>3, <2>4, <2>6, <2>7
    <3>2. QED
      BY <1>2, <3>1 DEF GlobalBound, A, X, Cap
  <2>8. CASE todo[p] = {}
    <3>1. A \cap K = {}
      BY <2>8 DEF KeysOf
    <3>2. Cardinality(A \cap K) = 0
      BY <3>1, FS_EmptySet
    <3> HIDE DEF A, K, k, X
    <3>3. Cardinality(A) <= Cap + Cardinality(X)
      BY <2>2, <2>4, <2>5, <2>6, <3>2
    <3>4. QED
      BY <1>2, <3>3 DEF GlobalBound, A, X, Cap
  <2>9. QED
    BY <1>1, <2>6, <2>7, <2>8 DEF OverCap
<1>10. QED
  BY <1>5, <1>6, <1>7, <1>8, <1>9 DEF GlobalBound

LEMMA GlobalStep == ASSUME TypeInv, FiniteInv, GlobalInv, [Next]_vars PROVE GlobalInv'
<1> SUFFICES ASSUME NEW Q \in SUBSET EvictingGlobally' PROVE GlobalBound(Q)'
  BY DEF GlobalInv
<1>0. FiniteInv'
  BY FiniteStep
<1>1. CASE Environment \/ UNCHANGED vars
  <2>1. /\ AllStores' \subseteq AllStores /\ UNCHANGED <<invoked, sha, todo, total>>
        /\ \A q \in Runs : pc'[q] = pc[q] \/ pc'[q] = "killed"
    BY <1>1, EnvironmentEffect
  <2>2. EvictingGlobally' \subseteq EvictingGlobally /\ Unswept \subseteq Unswept'
    BY <2>1 DEF EvictingGlobally, Unswept
  <2>3. \A q \in Q : todo'[q] = todo[q] /\ total'[q] = total[q] /\ Key(q)' = Key(q)
    BY <2>1 DEF Key, RepoOf, VariantOf
  <2>4. QED
    BY <1>0, <2>1, <2>2, <2>3, GlobalKept
<1>2. ASSUME NEW p \in Runs, Run(p) PROVE GlobalBound(Q)'
  <2>0. /\ invoked' = invoked
        /\ \A q \in Runs \ {p} :
              pc'[q] = pc[q] /\ todo'[q] = todo[q] /\ total'[q] = total[q] /\ sha'[q] = sha[q]
        /\ pc'[p] # "killed" /\ pc[p] # "killed"
    BY <1>2, OneRun
  <2>1. CASE PruneGlobal(p) \/ EvictGlobal(p) \/ EvictGlobalDone(p)
    BY <1>0, <2>1, GlobalListed, GlobalEvicted, GlobalEvictedAll
  <2>2. ASSUME pc'[p] # "evictGlobal"
        PROVE  /\ EvictingGlobally' \subseteq EvictingGlobally /\ p \notin EvictingGlobally'
               /\ \A q \in Q : todo'[q] = todo[q] /\ total'[q] = total[q] /\ Key(q)' = Key(q)
    BY <2>0, <2>2 DEF EvictingGlobally, Key, RepoOf, VariantOf
  <2>3. CASE PruneRepo(p) \/ EvictRepo(p) \/ EvictRepoDone(p) \/ SweepGlobal(p)
    <3>1. AllStores' \subseteq AllStores
      BY <2>3 DEF PruneRepo, EvictRepo, EvictRepoDone, SweepGlobal, Delete, files,
                  AllStores, Exists, TypeInv, TypeOK
    <3>2. /\ pc[p] \in {"pruneRepo", "evictRepo", "sweepGlobal"}
          /\ pc'[p] \in {"evictRepo", "sweepGlobal", "pruneGlobal"}
      BY <2>3 DEF PruneRepo, EvictRepo, EvictRepoDone, SweepGlobal, Goto, TypeInv, TypeOK
    <3>3. Unswept \subseteq Unswept'
      BY <2>0, <3>2 DEF Unswept
    <3>4. QED
      BY <1>0, <2>2, <3>1, <3>2, <3>3, GlobalKept
  <2>4. CASE /\ pc[p] \notin Pruning /\ pc'[p] \notin Pruning
             /\ AllStores' \subseteq AllStores /\ UNCHANGED <<todo, total>>
    <3>1. Unswept \subseteq Unswept' /\ pc'[p] # "evictGlobal"
      BY <2>0, <2>4 DEF Unswept, Pruning
    <3>2. QED
      BY <1>0, <2>2, <2>4, <3>1, GlobalKept
  <2>5. CASE /\ pc[p] \notin Pruning /\ pc'[p] = "pruneRepo"
             /\ AllStores' \subseteq AllStores \cup {Key(p)} /\ UNCHANGED <<todo, total, sha>>
    <3>1. Unswept \cup {p} \subseteq Unswept' /\ p \notin Unswept
      BY <2>0, <2>5 DEF Unswept, Pruning
    <3>2. p \notin Q
      BY <2>2, <2>5
    <3>3. QED
      BY <1>0, <2>2, <2>5, <3>1, <3>2, GlobalPublished
  <2>6. QED
    BY <1>2, <2>1, <2>3, <2>4, <2>5, StoresOfRun
<1>3. QED
  BY <1>1, <1>2 DEF Next

LEMMA CapsInvHolds == Spec => []CapsInv
<1>1. Init => CapsInv
  <2> SUFFICES ASSUME Init PROVE CapsInv
    OBVIOUS
  <2>1. Started = {} /\ \A p \in Runs : todo[p] = {}
    BY DEF Init, Started
  <2>2. AllStores = {} /\ \A r \in Repos : Stores(r) = {}
    BY DEF Init, AllStores, Stores, Exists
  <2>3. Unswept = {} /\ \A r \in Repos : Charged(r) = {}
    BY DEF Init, Unswept, Charged, Unpruned, KilledIn
  <2>4. FiniteInv
    BY <2>1, FS_EmptySet DEF FiniteInv
  <2>5. \A S : Cardinality({} \ S) = 0
    BY FS_EmptySet
  <2>6. RepoInv
    BY <2>2, <2>3, <2>5, CacheAssumption DEF RepoInv, RepoBound
  <2>7. GlobalInv
    BY <2>2, <2>3, <2>5, FS_EmptySet, CapType DEF GlobalInv, GlobalBound
  <2>8. QED
    BY <2>4, <2>6, <2>7 DEF CapsInv
<1>2. TypeInv /\ CapsInv /\ [Next]_vars => CapsInv'
  BY FiniteStep, RepoStep, GlobalStep DEF CapsInv
<1>3. QED
  BY <1>1, <1>2, TypeInvHolds, PTL DEF Spec

\* However many runs publish, prune, evict each other's entries, die or lose
\* power, a directory exceeds its cap by no more than the entries whose own run
\* has not pruned yet or never will, and the cache root likewise.
THEOREM CapsRespected == Spec => []CapsHold
<1>1. CapsInv => CapsHold
  <2> SUFFICES ASSUME CapsInv PROVE CapsHold
    OBVIOUS
  <2>1. ASSUME NEW r \in Repos
        PROVE  Cardinality(Stores(r)) <= MAX_REPO_CACHE_ENTRIES + Cardinality(Charged(r))
    <3>1. RepoBound(r, {})
      BY DEF CapsInv, RepoInv
    <3>2. Stores(r) \ Pending({}) = Stores(r) /\ Charged(r) \ {} = Charged(r)
      BY DEF Pending
    <3>3. QED
      BY <3>1, <3>2 DEF RepoBound
  <2>2. Cardinality(AllStores) <= Cap + Cardinality(Unswept)
    <3>1. GlobalBound({})
      BY DEF CapsInv, GlobalInv
    <3>2. Unswept \ {} = Unswept
      OBVIOUS
    <3>3. QED
      BY <3>1, <3>2 DEF GlobalBound
  <2>3. QED
    BY <2>1, <2>2 DEF CapsHold, Charged, Cap
<1>2. QED
  BY <1>1, CapsInvHolds, PTL
=============================================================================
