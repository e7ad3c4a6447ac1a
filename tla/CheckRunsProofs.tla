--------------------------- MODULE CheckRunsProofs ---------------------------
(***************************************************************************)
(* What holds of any number of runs, gates, values and thresholds, with    *)
(* any number of kills, failing writes and edits.                          *)
(***************************************************************************)
EXTENDS CheckRuns, FiniteSetTheorems, SequenceTheorems, TLAPS

TypeInv == TypeOK

Records == UNION {[gs -> Verdicts] : gs \in SUBSET Gates}

-----------------------------------------------------------------------------
(* Types.                                                                  *)

LEMMA GatesOfType == ASSUME TypeInv, NEW r \in Runs PROVE GatesOf(r) \subseteq Gates
  BY RunsAssumption DEF TypeInv, TypeOK, GatesOf

LEMMA MetricsType ==
    ASSUME NEW gs \in SUBSET Gates, NEW seen \in Readings(gs)
    PROVE  observed_metrics(gs, seen) \in Tables
<1> DEFINE ms == {m \in gs \cap Metrics : m = "code_health_min" => seen.rows = "scored"}
<1>1. seen.value \in [gs -> Values] /\ ms \in SUBSET Metrics /\ ms \subseteq gs
  BY DEF Readings
<1>2. observed_metrics(gs, seen) = [m \in ms |-> seen.value[m]]
  BY DEF observed_metrics
<1> HIDE DEF ms
<1>3. [m \in ms |-> seen.value[m]] \in [ms -> Values]
  BY <1>1
<1>4. QED
  BY <1>1, <1>2, <1>3 DEF Tables

LEMMA RecordsType ==
    ASSUME NEW gs \in SUBSET Gates, NEW seen
    PROVE  [g \in gs |-> Recorded(g, seen)] \in Records
<1>1. \A g : Recorded(g, seen) \in Verdicts
  BY DEF Recorded, Concluded, Verdicts
<1>2. [g \in gs |-> Recorded(g, seen)] \in [gs -> Verdicts]
  BY <1>1
<1>3. QED
  BY <1>2 DEF Records

LEMMA RecordsDomain == ASSUME NEW f \in Records PROVE DOMAIN f \subseteq Gates
  BY DEF Records

LEMMA NoFloorsType == NoFloors \in Tables
<1>1. NoFloors \in [{} -> Values] /\ {} \in SUBSET Metrics
  BY DEF NoFloors
<1>2. QED
  BY <1>1 DEF Tables

LEMMA FileTypes ==
    /\ Absent \in Files /\ Part \in Files
    /\ File("empty", NoFloors) \in Files /\ File("stale", NoFloors) \in Files
    /\ \A t \in Tables : File("table", t) \in Files
    /\ \A t : File("table", t).kind = "table" /\ File("table", t).floors = t
    /\ Absent.kind = "absent" /\ Part.kind = "part"
  BY NoFloorsType DEF Absent, Part, File, Files

LEMMA ViolationsType ==
    ASSUME NEW gs \in SUBSET Gates, NEW seen, NEW b
    PROVE  Violations(gs, seen, b) \subseteq Gates \cup {"scan_coverage"}
  BY DEF Violations

LEMMA NextOfSet == ASSUME NEW gs, gs # {} PROVE Next1(gs) \in gs
  BY DEF Next1

LEMMA InitType == Init => TypeInv
<1> SUFFICES ASSUME Init PROVE TypeInv
  OBVIOUS
<1>1. mode \in [Runs -> Modes] /\ config \in Configs /\ 0 \in 0 .. MaxMishaps /\ 0 \in 0 .. MaxEdits
  BY RunsAssumption DEF Init
<1>2. baseline \in Files /\ tmp \in [Pids -> [owner : Runs \cup {"nobody"}, file : Files]]
  BY FileTypes DEF Init
<1>3. Absent \in {f \in Files : f.kind \in {"absent", "stale", "table"}}
  BY FileTypes
<1>4. snap \in [Runs -> {f \in Files : f.kind \in {"absent", "stale", "table"}}]
  BY <1>3 DEF Init
<1>5. observed \in [Runs -> Tables] /\ recs \in [Runs -> Records]
  <2>1. NoFloors \in [{} -> Verdicts] /\ {} \in SUBSET Gates
    BY DEF NoFloors
  <2>2. NoFloors \in Records
    BY <2>1 DEF Records
  <2>3. QED
    BY <2>2, NoFloorsType DEF Init
<1>6. /\ pc \in [Runs -> Stages] /\ left \in [Runs -> SUBSET (Gates \cup {"ratchet"})]
      /\ violations \in [Runs -> SUBSET (Gates \cup {"scan_coverage"})]
  BY DEF Init, Stages
<1>7. QED
  BY <1>1, <1>2, <1>4, <1>5, <1>6 DEF TypeInv, TypeOK, Init, Records

\* A run that goes on to a stage of its own.
LEMMA GotoType ==
    ASSUME TypeInv, NEW r \in Runs, NEW stage \in Stages, Goto(r, stage)
    PROVE  /\ pc' \in [Runs -> Stages] /\ pc'[r] = stage
           /\ \A s \in Runs : s # r => pc'[s] = pc[s]
  BY DEF TypeInv, TypeOK, Goto

LEMMA EvaluateType == ASSUME TypeInv, NEW r \in Runs, Evaluate(r) PROVE TypeInv'
<1>1. GatesOf(r) \in SUBSET Gates
  BY GatesOfType
<1>2. left' \in [Runs -> SUBSET (Gates \cup {"ratchet"})]
  BY <1>1 DEF Evaluate, TypeInv, TypeOK
<1>3. PICK seen \in Readings(GatesOf(r)) :
          IF mode[r] = "ratchet"
          THEN /\ observed' = [observed EXCEPT ![r] = observed_metrics(GatesOf(r), seen)]
               /\ Goto(r, "snapshot")
               /\ UNCHANGED <<recs, violations>>
          ELSE LET met == [seen EXCEPT !.thin = mode[r] = "check" /\ @] IN
               /\ recs' = [recs EXCEPT ![r] = [g \in GatesOf(r) |-> Recorded(g, met)]]
               /\ violations' = [violations EXCEPT ![r] =
                                    Violations(GatesOf(r), met, config.fail_on_degraded)]
               /\ Goto(r, "ledger")
               /\ UNCHANGED observed
  BY DEF Evaluate
<1>4. UNCHANGED <<config, mode, snap, files, torn, edits>>
  BY DEF Evaluate
<1>5. CASE mode[r] = "ratchet"
  <2>1. observed' \in [Runs -> Tables]
    BY <1>1, <1>3, <1>5, MetricsType DEF TypeInv, TypeOK
  <2>2. pc' \in [Runs -> Stages]
    BY <1>3, <1>5, GotoType DEF Stages
  <2>3. QED
    BY <1>2, <1>3, <1>4, <1>5, <2>1, <2>2 DEF TypeInv, TypeOK, files
<1>6. CASE mode[r] # "ratchet"
  <2> DEFINE met == [seen EXCEPT !.thin = mode[r] = "check" /\ @]
             new == [g \in GatesOf(r) |-> Recorded(g, met)]
             vs == Violations(GatesOf(r), met, config.fail_on_degraded)
  <2>1. /\ recs' = [recs EXCEPT ![r] = new] /\ violations' = [violations EXCEPT ![r] = vs]
        /\ Goto(r, "ledger") /\ UNCHANGED observed
    BY <1>3, <1>6
  <2>2. vs \subseteq Gates \cup {"scan_coverage"}
    BY <1>1, ViolationsType
  <2>3. new \in Records
    BY <1>1, RecordsType
  <2> HIDE DEF met, new, vs
  <2>4. recs' \in [Runs -> Records]
    BY <2>1, <2>3 DEF TypeInv, TypeOK, Records
  <2>5. violations' \in [Runs -> SUBSET (Gates \cup {"scan_coverage"})]
    BY <2>1, <2>2 DEF TypeInv, TypeOK
  <2>6. pc' \in [Runs -> Stages]
    BY <2>1, GotoType DEF Stages
  <2>7. QED
    BY <1>2, <1>4, <2>1, <2>4, <2>5, <2>6 DEF TypeInv, TypeOK, files, Records
<1>7. QED
  BY <1>5, <1>6

\* Steps that only change a run's stage.
LEMMA StageType ==
    ASSUME TypeInv, NEW r \in Runs, NEW stage \in Stages, Goto(r, stage),
           UNCHANGED <<config, mode, run, files, torn, edits>>
    PROVE  TypeInv'
<1>1. pc' \in [Runs -> Stages]
  BY GotoType
<1>2. QED
  BY <1>1 DEF TypeInv, TypeOK, run, files

LEMMA LedgerType ==
    ASSUME TypeInv, NEW r \in Runs, AppendRecord(r) \/ AppendFails(r) \/ AppendsDone(r)
    PROVE  TypeInv'
<1>1. CASE AppendRecord(r)
  BY <1>1, RunsAssumption DEF AppendRecord, TypeInv, TypeOK
<1>2. CASE AppendFails(r)
  <2>1. torn' \in 0 .. MaxMishaps
    BY <1>2, RunsAssumption DEF AppendFails, TypeInv, TypeOK
  <2>2. left' \in [Runs -> SUBSET (Gates \cup {"ratchet"})]
    BY <1>2 DEF AppendFails, TypeInv, TypeOK
  <2>3. QED
    BY <1>2, <2>1, <2>2 DEF AppendFails, TypeInv, TypeOK
<1>3. CASE AppendsDone(r)
  <2>1. skipped_gate_violations(recs[r], config.fail_on_skipped) \subseteq Gates
    BY RecordsDomain DEF skipped_gate_violations, TypeInv, TypeOK, Records
  <2>2. violations' \in [Runs -> SUBSET (Gates \cup {"scan_coverage"})]
    BY <1>3, <2>1 DEF AppendsDone, TypeInv, TypeOK
  <2>3. pc' \in [Runs -> Stages]
    BY <1>3, GotoType DEF AppendsDone, Stages
  <2>4. QED
    BY <1>3, <2>2, <2>3 DEF AppendsDone, TypeInv, TypeOK, files
<1>4. QED
  BY <1>1, <1>2, <1>3

LEMMA ReadSnapshotType == ASSUME TypeInv, NEW r \in Runs, ReadSnapshot(r) PROVE TypeInv'
<1>1. baseline \in {f \in Files : f.kind \in {"absent", "stale", "table"}}
  BY DEF ReadSnapshot, TypeInv, TypeOK, Files
<1>2. snap' \in [Runs -> {f \in Files : f.kind \in {"absent", "stale", "table"}}]
  BY <1>1 DEF ReadSnapshot, TypeInv, TypeOK
<1>3. left' \in [Runs -> SUBSET (Gates \cup {"ratchet"})]
  BY DEF ReadSnapshot, TypeInv, TypeOK
<1>4. pc' \in [Runs -> Stages]
  <2>1. (IF baseline.kind = "table" THEN "ledger" ELSE "create") \in Stages
    BY DEF Stages
  <2>2. QED
    BY <2>1, GotoType DEF ReadSnapshot
<1>5. QED
  BY <1>2, <1>3, <1>4 DEF ReadSnapshot, TypeInv, TypeOK, files

LEMMA PidType == ASSUME NEW r \in Runs PROVE TmpOf(r) \in Pids
  BY RunsAssumption DEF TmpOf

LEMMA UnlinkType ==
    ASSUME TypeInv, NEW p \in Pids
    PROVE  Unlink(p) \in [Pids -> [owner : Runs \cup {"nobody"}, file : Files]]
<1>1. [owner |-> "nobody", file |-> Absent] \in [owner : Runs \cup {"nobody"}, file : Files]
  BY FileTypes
<1>2. QED
  BY <1>1 DEF Unlink, TypeInv, TypeOK

\* A failing step is charged to the mishaps, unless the files made it fail.
LEMMA MishapCount ==
    ASSUME TypeInv, NEW r \in Runs,
           RenameRefused(r) \/ torn' = torn \/ (torn < MaxMishaps /\ torn' = torn + 1)
    PROVE  torn' \in 0 .. MaxMishaps
  BY RunsAssumption DEF TypeInv, TypeOK, RenameRefused

LEMMA PublishType == ASSUME TypeInv, NEW r \in Runs, Publish(r) PROVE TypeInv'
<1> DEFINE Slots == [owner : Runs \cup {"nobody"}, file : Files]
<1>1. TmpOf(r) \in Pids /\ tmp \in [Pids -> Slots] /\ baseline \in Files
  BY PidType DEF TypeInv, TypeOK
<1>2. CASE CreateTmp(r)
  <2>1. [owner |-> r, file |-> Part] \in Slots
    BY FileTypes
  <2>2. tmp' \in [Pids -> Slots] /\ pc' \in [Runs -> Stages]
    BY <1>1, <1>2, <2>1, GotoType DEF CreateTmp, Stages
  <2>3. QED
    BY <1>2, <2>2 DEF CreateTmp, TypeInv, TypeOK, run
<1>3. CASE FillTmp(r)
  <2>1. File("table", observed[r]) \in Files
    BY FileTypes DEF TypeInv, TypeOK
  <2>2. tmp' \in [Pids -> Slots]
    BY <1>1, <1>3, <2>1 DEF FillTmp
  <2>3. pc' \in [Runs -> Stages]
    BY <1>3, GotoType DEF FillTmp, Stages
  <2>4. QED
    BY <1>3, <2>2, <2>3 DEF FillTmp, TypeInv, TypeOK, run
<1>4. CASE WriteFails(r)
  <2>1. tmp' \in [Pids -> Slots] /\ pc' \in [Runs -> Stages]
    <3>1. tmp' \in [Pids -> Slots]
      BY <1>1, <1>4, UnlinkType DEF WriteFails
    <3>2. Goto(r, "error") /\ "error" \in Stages
      BY <1>4 DEF WriteFails, Stages, Over
    <3>3. QED
      BY <3>1, <3>2, GotoType
  <2>2. torn' \in 0 .. MaxMishaps
    BY <1>4, RunsAssumption DEF WriteFails, TypeInv, TypeOK
  <2>3. QED
    BY <1>4, <2>1, <2>2 DEF WriteFails, TypeInv, TypeOK, run
<1>5. CASE Rename(r)
  <2>1. tmp' \in [Pids -> Slots] /\ baseline' \in Files
    BY <1>1, <1>5, UnlinkType DEF Rename
  <2>2. AfterWrite(r) \in Stages
    BY DEF AfterWrite, Stages, Over
  <2>3. pc' \in [Runs -> Stages]
    BY <1>5, <2>2, GotoType DEF Rename
  <2>4. QED
    BY <1>5, <2>1, <2>3 DEF Rename, TypeInv, TypeOK, run
<1>6. CASE RemoveTarget(r)
  <2>1. pc' \in [Runs -> Stages] /\ baseline' \in Files
    BY <1>6, FileTypes, GotoType DEF RemoveTarget, Stages
  <2>2. QED
    BY <1>6, <2>1 DEF RemoveTarget, TypeInv, TypeOK, run
<1>7. CASE RenameFails(r)
  <2>1. pc' \in [Runs -> Stages]
    BY <1>7, GotoType DEF RenameFails, Stages
  <2>2. torn' \in 0 .. MaxMishaps
    <3>1. RenameRefused(r)
      BY <1>7 DEF RenameFails
    <3>2. QED
      BY <3>1, MishapCount
  <2>3. QED
    BY <1>7, <2>1, <2>2 DEF RenameFails, TypeInv, TypeOK, run
<1>8. CASE GiveUp(r)
  <2>1. tmp' \in [Pids -> Slots]
    BY <1>1, <1>8, UnlinkType DEF GiveUp
  <2>2. Goto(r, "error") /\ "error" \in Stages
    BY <1>8 DEF GiveUp, Stages, Over
  <2>3. pc' \in [Runs -> Stages]
    BY <2>2, GotoType
  <2>4. torn' \in 0 .. MaxMishaps
    <3>1. RenameRefused(r) \/ torn' = torn \/ (torn < MaxMishaps /\ torn' = torn + 1)
      BY <1>8 DEF GiveUp
    <3>2. QED
      BY <3>1, MishapCount
  <2>5. QED
    BY <1>8, <2>1, <2>3, <2>4 DEF GiveUp, TypeInv, TypeOK, run
<1>9. QED
  BY <1>2, <1>3, <1>4, <1>5, <1>6, <1>7, <1>8 DEF Publish

LEMMA KillType == ASSUME TypeInv, NEW r \in Runs, Kill(r) PROVE TypeInv'
<1>1. torn' \in 0 .. MaxMishaps
  BY RunsAssumption DEF Kill, TypeInv, TypeOK
<1>2. pc' \in [Runs -> Stages]
  BY GotoType DEF Kill, Stages, Over
<1>3. QED
  BY <1>1, <1>2 DEF Kill, TypeInv, TypeOK, run

LEMMA EditType == ASSUME TypeInv, EditBaseline PROVE TypeInv'
<1>1. baseline' \in Files
  BY FileTypes DEF EditBaseline
<1>2. edits' \in 0 .. MaxEdits
  BY RunsAssumption DEF EditBaseline, TypeInv, TypeOK
<1>3. QED
  BY <1>1, <1>2 DEF EditBaseline, TypeInv, TypeOK, run

LEMMA TypeStep == ASSUME TypeInv, [Next]_vars PROVE TypeInv'
<1>1. ASSUME NEW r \in Runs, PassVacuously(r) \/ EvaluateFails(r) \/ EmitFails(r) \/ ReadSnapshotFails(r)
      PROVE  TypeInv'
  BY <1>1, StageType DEF PassVacuously, EvaluateFails, EmitFails, ReadSnapshotFails, Stages, Over
<1>2. ASSUME NEW r \in Runs, Emit(r) PROVE TypeInv'
  <2>1. PICK stage \in {"passed", "failed", "create"} : Goto(r, stage)
    BY <1>2 DEF Emit
  <2>2. stage \in Stages /\ UNCHANGED <<config, mode, run, files, torn, edits>>
    BY <1>2 DEF Emit, Stages, Over
  <2>3. QED
    BY <2>1, <2>2, StageType
<1>3. CASE UNCHANGED vars
  BY <1>3 DEF TypeInv, TypeOK, vars, run, files
<1>4. ASSUME NEW r \in Runs, Step(r) PROVE TypeInv'
  BY <1>1, <1>2, <1>4, EvaluateType, LedgerType, ReadSnapshotType, PublishType DEF Step
<1>5. QED
  BY <1>3, <1>4, KillType, EditType DEF Next

LEMMA TypeInvHolds == Spec => []TypeInv
  BY InitType, TypeStep, PTL DEF Spec

\* Types of the files, stages, snapshots and verdicts (ratchet.rs: a destroyed
\* baseline is an error, never a table without floors).
THEOREM TypeCorrect == Spec => []TypeOK
<1>1. TypeInv => TypeOK
  BY DEF TypeInv
<1>2. QED
  BY <1>1, TypeInvHolds, PTL

-----------------------------------------------------------------------------
(* Verdicts.  Between the evaluation and the exit, the violations of a run  *)
(* that is not a ratchet account for every verdict that must not pass.      *)

Judged(r) ==
    \A g \in DOMAIN recs[r] :
       \/ recs[r][g] \in {"passed", "skipped"}
       \/ recs[r][g] = "degraded" /\ ~config.fail_on_degraded

NoneSkipped(r) ==
    \A g \in DOMAIN recs[r] : config.fail_on_skipped => recs[r][g] # "skipped"

VerdictInv ==
    \A r \in Runs :
       /\ pc[r] = "idle" => recs[r] = NoFloors
       /\ pc[r] \in {"snapshot", "create", "fill", "rename", "remove", "replace"} => mode[r] = "ratchet"
       /\ pc[r] \in {"ledger", "emit"} /\ mode[r] # "ratchet" /\ violations[r] = {} => Judged(r)
       /\ pc[r] = "emit" /\ mode[r] # "ratchet" /\ violations[r] = {} => NoneSkipped(r)
       /\ pc[r] = "passed" /\ mode[r] # "ratchet" => Judged(r) /\ NoneSkipped(r)

\* evaluate_all_gates: no violation, no verdict that must not pass.
LEMMA NoViolationsNoFailure ==
    ASSUME NEW gs, NEW seen, NEW b \in BOOLEAN, Violations(gs, seen, b) = {}, NEW g \in gs
    PROVE  \/ Recorded(g, seen) \in {"passed", "skipped"}
           \/ Recorded(g, seen) = "degraded" /\ ~b
<1>1. Concluded(g, seen) \in {"skipped", "degraded", "failed", "passed"}
  BY DEF Concluded
<1>2. Concluded(g, seen) # "failed"
  BY DEF Violations
<1>3. b => Concluded(g, seen) # "degraded" /\ ~ degrade_complexity_derived(g, seen)
  BY DEF Violations
<1>4. Recorded(g, seen) = "degraded" =>
        degrade_complexity_derived(g, seen) \/ Concluded(g, seen) = "degraded"
  BY DEF Recorded
<1>5. Recorded(g, seen) \in {"degraded", Concluded(g, seen)}
  BY DEF Recorded
<1>6. QED
  BY <1>1, <1>2, <1>3, <1>4, <1>5

\* A step of one run leaves what is said of the others.
LEMMA OthersVerdicts ==
    ASSUME TypeInv, VerdictInv, NEW r \in Runs, UNCHANGED <<config, mode>>,
           \A s \in Runs : s # r => pc'[s] = pc[s] /\ recs'[s] = recs[s] /\ violations'[s] = violations[s],
           /\ pc'[r] = "idle" => recs'[r] = NoFloors
           /\ pc'[r] \in {"snapshot", "create", "fill", "rename", "remove", "replace"} => mode[r] = "ratchet"
           /\ pc'[r] \in {"ledger", "emit"} /\ mode[r] # "ratchet" /\ violations'[r] = {} => Judged(r)'
           /\ pc'[r] = "emit" /\ mode[r] # "ratchet" /\ violations'[r] = {} => NoneSkipped(r)'
           /\ pc'[r] = "passed" /\ mode[r] # "ratchet" => Judged(r)' /\ NoneSkipped(r)'
    PROVE  VerdictInv'
<1>1. \A s \in Runs : s # r => (Judged(s)' <=> Judged(s)) /\ (NoneSkipped(s)' <=> NoneSkipped(s))
  BY DEF Judged, NoneSkipped
<1>2. QED
  BY <1>1 DEF VerdictInv

\* Of a run whose verdicts stay as they are.
LEMMA SameVerdicts ==
    ASSUME NEW r \in Runs, UNCHANGED <<config, recs>>
    PROVE  (Judged(r)' <=> Judged(r)) /\ (NoneSkipped(r)' <=> NoneSkipped(r))
  BY DEF Judged, NoneSkipped

\* A step that leaves the verdicts and goes on to a stage that asks no more.
LEMMA StageVerdicts ==
    ASSUME TypeInv, VerdictInv, NEW r \in Runs, NEW stage \in Stages, Goto(r, stage),
           UNCHANGED <<config, mode, recs, violations>>,
           stage # "idle",
           stage \in {"snapshot", "create", "fill", "rename", "remove", "replace"} => mode[r] = "ratchet",
           stage \in {"ledger", "emit", "passed"} => mode[r] = "ratchet"
    PROVE  VerdictInv'
<1>1. pc'[r] = stage /\ \A s \in Runs : s # r => pc'[s] = pc[s]
  BY GotoType
<1>2. QED
  BY <1>1, OthersVerdicts

LEMMA EvaluateVerdicts == ASSUME TypeInv, VerdictInv, NEW r \in Runs, Evaluate(r) PROVE VerdictInv'
<1>1. UNCHANGED <<config, mode>>
  BY DEF Evaluate
<1>2. CASE mode[r] = "ratchet"
  <2>1. Goto(r, "snapshot") /\ UNCHANGED <<recs, violations>>
    BY <1>2 DEF Evaluate
  <2>2. QED
    BY <1>1, <1>2, <2>1, StageVerdicts DEF Stages
<1>3. CASE mode[r] # "ratchet"
  <2>1. PICK seen \in Readings(GatesOf(r)) :
          LET met == [seen EXCEPT !.thin = mode[r] = "check" /\ @] IN
               /\ recs' = [recs EXCEPT ![r] = [g \in GatesOf(r) |-> Recorded(g, met)]]
               /\ violations' = [violations EXCEPT ![r] =
                                    Violations(GatesOf(r), met, config.fail_on_degraded)]
               /\ Goto(r, "ledger")
    BY <1>3 DEF Evaluate
  <2> DEFINE met == [seen EXCEPT !.thin = mode[r] = "check" /\ @]
             new == [g \in GatesOf(r) |-> Recorded(g, met)]
  <2>2. /\ recs' = [recs EXCEPT ![r] = new] /\ Goto(r, "ledger")
        /\ violations' = [violations EXCEPT ![r] =
                             Violations(GatesOf(r), met, config.fail_on_degraded)]
    BY <2>1
  <2>3. DOMAIN new = GatesOf(r) /\ \A g \in GatesOf(r) : new[g] = Recorded(g, met)
    OBVIOUS
  <2>4. config.fail_on_degraded \in BOOLEAN
    BY RunsAssumption DEF TypeInv, TypeOK
  <2> HIDE DEF met, new
  <2>5. pc'[r] = "ledger" /\ \A s \in Runs : s # r => pc'[s] = pc[s]
    BY <2>2, GotoType DEF Stages
  <2>7. ASSUME violations'[r] = {} PROVE Judged(r)'
    <3>1. Violations(GatesOf(r), met, config.fail_on_degraded) = {}
      BY <2>2, <2>7 DEF TypeInv, TypeOK
    <3>2. \A g \in GatesOf(r) : \/ new[g] \in {"passed", "skipped"}
                                \/ new[g] = "degraded" /\ ~config.fail_on_degraded
      BY <2>3, <2>4, <3>1, NoViolationsNoFailure
    <3>3. recs'[r] = new
      BY <2>2 DEF TypeInv, TypeOK
    <3>4. QED
      BY <1>1, <2>3, <3>2, <3>3 DEF Judged
  <2>8. \A s \in Runs : s # r => recs'[s] = recs[s] /\ violations'[s] = violations[s]
    BY <2>2 DEF TypeInv, TypeOK
  <2>9. QED
    BY <1>1, <1>3, <2>5, <2>7, <2>8, OthersVerdicts
<1>4. QED
  BY <1>2, <1>3

LEMMA LedgerVerdicts ==
    ASSUME TypeInv, VerdictInv, NEW r \in Runs, AppendRecord(r) \/ AppendFails(r) \/ AppendsDone(r)
    PROVE  VerdictInv'
<1>1. CASE AppendRecord(r) \/ AppendFails(r)
  <2>1. UNCHANGED <<config, mode, pc, recs, violations>>
    BY <1>1 DEF AppendRecord, AppendFails
  <2>2. QED
    BY <2>1, SameVerdicts DEF VerdictInv
<1>2. CASE AppendsDone(r)
  <2>1. /\ pc[r] = "ledger" /\ Goto(r, "emit") /\ UNCHANGED <<config, mode, recs>>
        /\ violations' = [violations EXCEPT ![r] =
                             @ \cup skipped_gate_violations(recs[r], config.fail_on_skipped)]
    BY <1>2 DEF AppendsDone
  <2>2. pc'[r] = "emit" /\ \A s \in Runs : s # r => pc'[s] = pc[s]
    BY <2>1, GotoType DEF Stages
  <2>3. /\ violations'[r] = violations[r] \cup skipped_gate_violations(recs[r], config.fail_on_skipped)
        /\ \A s \in Runs : s # r => violations'[s] = violations[s]
    BY <2>1 DEF TypeInv, TypeOK
  <2>4. mode[r] # "ratchet" /\ violations'[r] = {} => Judged(r)'
    BY <2>1, <2>3, SameVerdicts DEF VerdictInv
  <2>5. violations'[r] = {} => NoneSkipped(r)'
    BY <2>1, <2>3 DEF NoneSkipped, skipped_gate_violations
  <2>6. QED
    BY <2>1, <2>2, <2>3, <2>4, <2>5, OthersVerdicts
<1>3. QED
  BY <1>1, <1>2

LEMMA EmitVerdicts == ASSUME TypeInv, VerdictInv, NEW r \in Runs, Emit(r) PROVE VerdictInv'
<1>1. UNCHANGED <<config, mode, recs, violations>> /\ pc[r] = "emit"
  BY DEF Emit, run
<1>2. CASE mode[r] = "ratchet"
  <2>1. PICK stage \in {"passed", "failed", "create"} : Goto(r, stage)
    BY <1>2 DEF Emit
  <2>2. stage \in Stages /\ stage # "idle"
    BY DEF Stages, Over
  <2>3. QED
    BY <1>1, <1>2, <2>1, <2>2, StageVerdicts
<1>3. CASE mode[r] # "ratchet" /\ violations[r] = {}
  <2>1. Goto(r, "passed") /\ "passed" \in Stages
    <3>1. "passed" \in Stages
      BY DEF Stages, Over
    <3>2. QED
      BY <1>3, <3>1 DEF Emit
  <2>2. pc'[r] = "passed" /\ \A s \in Runs : s # r => pc'[s] = pc[s]
    BY <2>1, GotoType
  <2>3. Judged(r)' /\ NoneSkipped(r)'
    BY <1>1, <1>3, SameVerdicts DEF VerdictInv
  <2>4. QED
    BY <1>1, <2>2, <2>3, OthersVerdicts
<1>4. CASE mode[r] # "ratchet" /\ violations[r] # {}
  <2>1. Goto(r, "failed") /\ "failed" \in Stages
    BY <1>4 DEF Emit, Stages, Over
  <2>2. QED
    BY <1>1, <2>1, StageVerdicts
<1>5. QED
  BY <1>2, <1>3, <1>4

LEMMA PublishVerdicts ==
    ASSUME TypeInv, VerdictInv, NEW r \in Runs, Publish(r) \/ ReadSnapshot(r) PROVE VerdictInv'
<1>1. UNCHANGED <<config, mode, recs, violations>> /\ mode[r] = "ratchet"
  BY DEF VerdictInv, Publish, ReadSnapshot, CreateTmp, FillTmp, WriteFails, Rename, RemoveTarget,
         RenameFails, GiveUp, run
<1>2. PICK stage \in {"create", "ledger", "fill", "rename", "remove", "replace", "passed", "error"} :
        Goto(r, stage)
  BY DEF Publish, ReadSnapshot, CreateTmp, FillTmp, WriteFails, Rename, RemoveTarget,
         RenameFails, GiveUp, AfterWrite
<1>3. QED
  BY <1>1, <1>2, StageVerdicts DEF Stages, Over

LEMMA VerdictStep == ASSUME TypeInv, VerdictInv, [Next]_vars PROVE VerdictInv'
<1>1. ASSUME NEW r \in Runs, EvaluateFails(r) \/ EmitFails(r) \/ ReadSnapshotFails(r) \/ Kill(r)
      PROVE  VerdictInv'
  <2>1. UNCHANGED <<config, mode, recs, violations>>
    BY <1>1 DEF EvaluateFails, EmitFails, ReadSnapshotFails, Kill, run
  <2>2. PICK stage \in {"error", "killed"} : Goto(r, stage)
    BY <1>1 DEF EvaluateFails, EmitFails, ReadSnapshotFails, Kill
  <2>3. QED
    BY <2>1, <2>2, StageVerdicts DEF Stages, Over
<1>2. ASSUME NEW r \in Runs, PassVacuously(r) PROVE VerdictInv'
  <2>1. /\ UNCHANGED <<config, mode, recs, violations>> /\ pc[r] = "idle"
        /\ Goto(r, "passed") /\ "passed" \in Stages
    BY <1>2 DEF PassVacuously, run, Stages, Over
  <2>2. pc'[r] = "passed" /\ \A s \in Runs : s # r => pc'[s] = pc[s]
    BY <2>1, GotoType
  <2>3. recs'[r] = NoFloors /\ DOMAIN NoFloors = {}
    BY <2>1 DEF VerdictInv, NoFloors
  <2>4. Judged(r)' /\ NoneSkipped(r)'
    BY <2>3 DEF Judged, NoneSkipped
  <2>5. QED
    BY <2>1, <2>2, <2>4, OthersVerdicts
<1>3. CASE EditBaseline \/ UNCHANGED vars
  <2>1. UNCHANGED <<config, mode, pc, recs, violations>>
    BY <1>3 DEF EditBaseline, vars, run
  <2>2. QED
    BY <2>1, SameVerdicts DEF VerdictInv
<1>4. ASSUME NEW r \in Runs, Step(r) PROVE VerdictInv'
  BY <1>1, <1>2, <1>4, EvaluateVerdicts, LedgerVerdicts, EmitVerdicts, PublishVerdicts DEF Step
<1>5. QED
  BY <1>1, <1>3, <1>4 DEF Next

\* A gate never goes green on blindness: whatever a repository, a policy and a
\* set of gates bring together, and whatever else runs.
THEOREM Green == Spec => []GreenMeansJudged
<1>1. Init => VerdictInv
  BY DEF Init, VerdictInv
<1>2. TypeInv /\ VerdictInv => GreenMeansJudged
  <2> SUFFICES ASSUME TypeInv, VerdictInv, NEW r \in Runs, pc[r] = "passed", mode[r] # "ratchet",
                      NEW g \in DOMAIN recs[r]
               PROVE  \/ recs[r][g] = "passed"
                      \/ recs[r][g] = "degraded" /\ ~config.fail_on_degraded
                      \/ recs[r][g] = "skipped" /\ ~config.fail_on_skipped
    BY DEF GreenMeansJudged
  <2>1. QED
    BY DEF VerdictInv, Judged, NoneSkipped
<1>3. QED
  BY <1>1, <1>2, VerdictStep, TypeInvHolds, PTL DEF Spec

-----------------------------------------------------------------------------
(* The baseline.  A run's temporary name is its own, so that what it renames *)
(* is what it has written, and that is what the comparison has passed.       *)

PublishInv ==
    /\ baseline # Part
    /\ \A r \in Runs :
          /\ pc[r] = "fill" => tmp[PidOf[r]].owner = r
          /\ pc[r] \in {"rename", "remove", "replace"} =>
                tmp[PidOf[r]].file = File("table", observed[r])
          /\ pc[r] \in {"create", "fill", "rename", "remove", "replace"} /\ snap[r].kind = "table" =>
                Regressions(snap[r].floors, observed[r]) = {}

Publishing == {"create", "fill", "rename", "remove", "replace"}

\* A step of one run leaves what is said of the others, who have other names.
LEMMA OthersFiles ==
    ASSUME TypeInv, PublishInv, NEW r \in Runs,
           \A s \in Runs : s # r => /\ pc'[s] = pc[s] /\ observed'[s] = observed[s] /\ snap'[s] = snap[s]
                                    /\ tmp'[PidOf[s]] = tmp[PidOf[s]],
           baseline' # Part,
           /\ pc'[r] = "fill" => tmp'[PidOf[r]].owner = r
           /\ pc'[r] \in {"rename", "remove", "replace"} => tmp'[PidOf[r]].file = File("table", observed'[r])
           /\ pc'[r] \in Publishing /\ snap'[r].kind = "table" =>
                Regressions(snap'[r].floors, observed'[r]) = {}
    PROVE  PublishInv'
  BY DEF PublishInv, Publishing

\* A step outside of the publication.
LEMMA StageFiles ==
    ASSUME TypeInv, PublishInv, NEW r \in Runs, NEW stage \in Stages \ Publishing, Goto(r, stage),
           UNCHANGED <<baseline, tmp>>,
           \A s \in Runs : s # r => observed'[s] = observed[s] /\ snap'[s] = snap[s]
    PROVE  PublishInv'
<1>1. pc'[r] = stage /\ \A s \in Runs : s # r => pc'[s] = pc[s]
  BY GotoType
<1>2. baseline' # Part
  BY DEF PublishInv
<1>3. QED
  BY <1>1, <1>2, OthersFiles DEF Publishing

LEMMA Kinds ==
    /\ \A t : File("table", t) # Part /\ File("table", t) # Absent
    /\ Absent # Part /\ File("empty", NoFloors) # Part /\ File("stale", NoFloors) # Part
<1>1. \A k, t : File(k, t).kind = k
  BY DEF File
<1>2. QED
  BY <1>1 DEF Part, Absent

LEMMA OtherNames ==
    ASSUME NEW r \in Runs, NEW s \in Runs, s # r
    PROVE  PidOf[s] # PidOf[r] /\ PidOf[s] \in Pids /\ PidOf[r] \in Pids /\ TmpOf(r) = PidOf[r]
  BY RunsAssumption DEF TmpOf

\* Steps that touch a temporary file touch the run's own.
LEMMA OwnTmp ==
    ASSUME TypeInv, NEW r \in Runs,
           \/ \E slot : tmp' = [tmp EXCEPT ![TmpOf(r)] = slot]
           \/ \E file : tmp' = [tmp EXCEPT ![TmpOf(r)].file = file]
    PROVE  \A s \in Runs : s # r => tmp'[PidOf[s]] = tmp[PidOf[s]]
  BY OtherNames DEF TypeInv, TypeOK

LEMMA PublishFiles == ASSUME TypeInv, PublishInv, NEW r \in Runs, Publish(r) PROVE PublishInv'
<1>1. UNCHANGED run
  BY DEF Publish, CreateTmp, FillTmp, WriteFails, Rename, RemoveTarget, RenameFails, GiveUp
<1>2. observed' = observed /\ snap' = snap
  BY <1>1 DEF run
<1>3. TmpOf(r) = PidOf[r] /\ PidOf[r] \in Pids /\ tmp \in [Pids -> [owner : Runs \cup {"nobody"}, file : Files]]
  BY RunsAssumption DEF TmpOf, TypeInv, TypeOK
<1>4. CASE CreateTmp(r)
  <2>1. pc'[r] = "fill" /\ \A s \in Runs : s # r => pc'[s] = pc[s]
    BY <1>4, GotoType DEF CreateTmp, Stages
  <2>2. tmp'[PidOf[r]].owner = r
    BY <1>3, <1>4 DEF CreateTmp
  <2>3. \A s \in Runs : s # r => tmp'[PidOf[s]] = tmp[PidOf[s]]
    BY <1>4, OwnTmp DEF CreateTmp
  <2>4. baseline' # Part /\ (snap[r].kind = "table" => Regressions(snap[r].floors, observed[r]) = {})
    BY <1>4 DEF CreateTmp, PublishInv
  <2>5. QED
    BY <1>2, <2>1, <2>2, <2>3, <2>4, OthersFiles
<1>5. CASE FillTmp(r)
  <2>1. pc'[r] = "rename" /\ \A s \in Runs : s # r => pc'[s] = pc[s]
    BY <1>5, GotoType DEF FillTmp, Stages
  <2>2. tmp' = [tmp EXCEPT ![TmpOf(r)].file = File("table", observed[r])]
    BY <1>3, <1>5 DEF FillTmp, PublishInv
  <2>3. tmp'[PidOf[r]].file = File("table", observed[r])
    BY <1>3, <2>2
  <2>4. \A s \in Runs : s # r => tmp'[PidOf[s]] = tmp[PidOf[s]]
    BY <2>2, OwnTmp
  <2>5. baseline' # Part /\ (snap[r].kind = "table" => Regressions(snap[r].floors, observed[r]) = {})
    BY <1>5 DEF FillTmp, PublishInv
  <2>6. QED
    BY <1>2, <2>1, <2>3, <2>4, <2>5, OthersFiles
<1>6. CASE WriteFails(r) \/ GiveUp(r)
  <2>1. Goto(r, "error") /\ "error" \in Stages /\ baseline' = baseline
    BY <1>6 DEF WriteFails, GiveUp, Stages, Over
  <2>2. pc'[r] = "error" /\ \A s \in Runs : s # r => pc'[s] = pc[s]
    BY <2>1, GotoType
  <2>3. \A s \in Runs : s # r => tmp'[PidOf[s]] = tmp[PidOf[s]]
    BY <1>6, OwnTmp DEF WriteFails, GiveUp, Unlink
  <2>4. QED
    BY <1>2, <2>1, <2>2, <2>3, OthersFiles DEF Publishing, PublishInv
<1>7. CASE Rename(r)
  <2>1. PICK stage \in {"passed", "ledger"} : Goto(r, stage)
    BY <1>7 DEF Rename, AfterWrite
  <2>2. pc'[r] = stage /\ \A s \in Runs : s # r => pc'[s] = pc[s]
    BY <2>1, GotoType DEF Stages, Over
  <2>3. \A s \in Runs : s # r => tmp'[PidOf[s]] = tmp[PidOf[s]]
    BY <1>7, OwnTmp DEF Rename, Unlink
  <2>4. baseline' = File("table", observed[r])
    BY <1>3, <1>7 DEF Rename, PublishInv
  <2>5. QED
    BY <1>2, <2>2, <2>3, <2>4, Kinds, OthersFiles DEF Publishing
<1>8. CASE RenameFails(r) \/ RemoveTarget(r)
  <2>1. PICK stage \in {"remove", "replace"} : Goto(r, stage)
    BY <1>8 DEF RenameFails, RemoveTarget
  <2>2. pc'[r] = stage /\ \A s \in Runs : s # r => pc'[s] = pc[s]
    BY <2>1, GotoType DEF Stages
  <2>3. tmp' = tmp /\ baseline' \in {baseline, Absent} /\ pc[r] \in {"rename", "remove"}
    BY <1>8 DEF RenameFails, RemoveTarget
  <2>4. /\ tmp[PidOf[r]].file = File("table", observed[r])
        /\ snap[r].kind = "table" => Regressions(snap[r].floors, observed[r]) = {}
    BY <2>3 DEF PublishInv
  <2>5. baseline' # Part
    BY <2>3, Kinds DEF PublishInv
  <2>6. QED
    BY <1>2, <2>2, <2>3, <2>4, <2>5, OthersFiles
<1>9. QED
  BY <1>4, <1>5, <1>6, <1>7, <1>8 DEF Publish

LEMMA PublishStep == ASSUME TypeInv, PublishInv, [Next]_vars PROVE PublishInv'
<1>1. ASSUME NEW r \in Runs,
             PassVacuously(r) \/ EvaluateFails(r) \/ EmitFails(r) \/ ReadSnapshotFails(r) \/ Kill(r)
      PROVE  PublishInv'
  <2>1. UNCHANGED <<baseline, tmp, observed, snap>>
    BY <1>1 DEF PassVacuously, EvaluateFails, EmitFails, ReadSnapshotFails, Kill, run, files
  <2>2. PICK stage \in {"passed", "error", "killed"} : Goto(r, stage)
    BY <1>1 DEF PassVacuously, EvaluateFails, EmitFails, ReadSnapshotFails, Kill
  <2>3. stage \in Stages \ Publishing
    BY DEF Stages, Over, Publishing
  <2>4. QED
    BY <2>1, <2>2, <2>3, StageFiles
<1>2. ASSUME NEW r \in Runs, Evaluate(r) PROVE PublishInv'
  <2>1. UNCHANGED <<baseline, tmp, snap>> /\ \A s \in Runs : s # r => observed'[s] = observed[s]
    BY <1>2 DEF Evaluate, files, TypeInv, TypeOK
  <2>2. PICK stage \in {"snapshot", "ledger"} : Goto(r, stage)
    BY <1>2 DEF Evaluate
  <2>3. stage \in Stages \ Publishing
    BY DEF Stages, Publishing
  <2>4. QED
    BY <2>1, <2>2, <2>3, StageFiles
<1>3. ASSUME NEW r \in Runs, AppendRecord(r) \/ AppendFails(r) PROVE PublishInv'
  <2>1. UNCHANGED <<pc, baseline, tmp, observed, snap>>
    BY <1>3 DEF AppendRecord, AppendFails
  <2>2. QED
    BY <2>1 DEF PublishInv
<1>4. ASSUME NEW r \in Runs, AppendsDone(r) PROVE PublishInv'
  <2>1. UNCHANGED <<baseline, tmp, observed, snap>> /\ Goto(r, "emit")
    BY <1>4 DEF AppendsDone, files
  <2>2. "emit" \in Stages \ Publishing
    BY DEF Stages, Publishing
  <2>3. QED
    BY <2>1, <2>2, StageFiles
<1>5. ASSUME NEW r \in Runs, Emit(r) PROVE PublishInv'
  <2>1. UNCHANGED <<baseline, tmp, observed, snap>>
    BY <1>5 DEF Emit, run, files
  <2>2. CASE Goto(r, "passed") \/ Goto(r, "failed")
    <3>1. "passed" \in Stages \ Publishing /\ "failed" \in Stages \ Publishing
      BY DEF Stages, Over, Publishing
    <3>2. QED
      BY <2>1, <2>2, <3>1, StageFiles
  <2>3. CASE Goto(r, "create") /\ Regressions(snap[r].floors, observed[r]) = {}
    <3>1. pc'[r] = "create" /\ \A s \in Runs : s # r => pc'[s] = pc[s]
      BY <2>3, GotoType DEF Stages
    <3>2. baseline' # Part
      BY <2>1 DEF PublishInv
    <3>3. QED
      BY <2>1, <2>3, <3>1, <3>2, OthersFiles
  <2>4. QED
    BY <1>5, <2>2, <2>3 DEF Emit
<1>6. ASSUME NEW r \in Runs, ReadSnapshot(r) PROVE PublishInv'
  <2>1. UNCHANGED <<baseline, tmp, observed>> /\ snap' = [snap EXCEPT ![r] = baseline]
    BY <1>6 DEF ReadSnapshot, files
  <2>2. snap'[r] = baseline /\ \A s \in Runs : s # r => snap'[s] = snap[s]
    BY <2>1 DEF TypeInv, TypeOK
  <2>3. CASE baseline.kind = "table"
    <3>1. Goto(r, "ledger") /\ "ledger" \in Stages \ Publishing
      BY <1>6, <2>3 DEF ReadSnapshot, Stages, Publishing
    <3>2. QED
      BY <2>1, <2>2, <3>1, StageFiles
  <2>4. CASE baseline.kind # "table"
    <3>1. Goto(r, "create") /\ "create" \in Stages
      BY <1>6, <2>4 DEF ReadSnapshot, Stages
    <3>2. pc'[r] = "create" /\ \A s \in Runs : s # r => pc'[s] = pc[s]
      BY <3>1, GotoType
    <3>3. baseline' # Part
      BY <2>1 DEF PublishInv
    <3>4. QED
      BY <2>1, <2>2, <2>4, <3>2, <3>3, OthersFiles
  <2>5. QED
    BY <2>3, <2>4
<1>7. CASE EditBaseline
  <2>1. baseline' # Part
    BY <1>7, Kinds DEF EditBaseline
  <2>2. UNCHANGED <<pc, tmp, observed, snap>>
    BY <1>7 DEF EditBaseline, run
  <2>3. QED
    BY <2>1, <2>2 DEF PublishInv
<1>8. CASE UNCHANGED vars
  BY <1>8 DEF PublishInv, vars, run, files
<1>9. ASSUME NEW r \in Runs, Step(r) PROVE PublishInv'
  BY <1>1, <1>2, <1>3, <1>4, <1>5, <1>6, <1>9, PublishFiles DEF Step
<1>10. QED
  BY <1>1, <1>7, <1>8, <1>9 DEF Next

LEMMA PublishInvHolds == Spec => []PublishInv
<1>1. Init => PublishInv
  BY Kinds DEF Init, PublishInv
<1>2. QED
  BY <1>1, PublishStep, TypeInvHolds, PTL DEF Spec

\* No interrupted or concurrent write ever publishes a torn baseline, however
\* many runs write at once (atomic_publish): temporary names are per process.
THEOREM BaselineWhole == Spec => []BaselineIsWhole
<1>1. PublishInv => BaselineIsWhole
  BY DEF PublishInv, BaselineIsWhole
<1>2. QED
  BY <1>1, PublishInvHolds, PTL

\* What a step of another run, or an edit, leaves of this one.
LEMMA OthersStage ==
    ASSUME TypeInv, NEW r \in Runs, NEW s \in Runs, s # r, Step(s) \/ Kill(s)
    PROVE  pc'[r] = pc[r]
<1>1. PICK stage \in Stages : Goto(s, stage) \/ pc' = pc
  BY DEF Step, Kill, Publish, PassVacuously, EvaluateFails, Evaluate, AppendRecord,
     AppendFails, AppendsDone, EmitFails, Emit, ReadSnapshotFails, ReadSnapshot, CreateTmp,
     FillTmp, WriteFails, Rename, RemoveTarget, RenameFails, GiveUp, AfterWrite, Stages, Over
<1>2. QED
  BY <1>1, GotoType

\* The ratchet only tightens what it has read, for all metrics and thresholds,
\* whatever renames and removals fail and whoever else writes: what it renames
\* is what its comparison has passed, and the comparison forbids every looser
\* or missing floor.
THEOREM Tightens == Spec => TightensWhatItRead
<1>1. ASSUME TypeInv, PublishInv, [Next]_vars, NEW r \in Runs,
             pc[r] \in {"rename", "remove", "replace"}, pc'[r] # pc[r], snap[r].kind = "table"
      PROVE  \/ baseline'.kind = "table" /\ AtLeastAsTight(baseline'.floors, snap[r].floors)
             \/ pc'[r] # "passed" /\ baseline' \in {baseline, Absent}
  <2>1. CASE Rename(r)
    <3>1. /\ baseline' = File("table", observed[r])
          /\ Regressions(snap[r].floors, observed[r]) = {}
      BY <1>1, <2>1, OtherNames, RunsAssumption DEF Rename, PublishInv, TmpOf
    <3>2. AtLeastAsTight(observed[r], snap[r].floors)
      BY <3>1 DEF Regressions, AtLeastAsTight
    <3>3. QED
      BY <3>1, <3>2, FileTypes
  <2>2. CASE RenameFails(r) \/ RemoveTarget(r) \/ GiveUp(r) \/ Kill(r)
    <3>1. PICK stage \in {"remove", "replace", "error", "killed"} : Goto(r, stage)
      BY <2>2 DEF RenameFails, RemoveTarget, GiveUp, Kill
    <3>2. pc'[r] = stage
      BY <1>1, <3>1, GotoType DEF Stages, Over
    <3>3. baseline' \in {baseline, Absent}
      BY <2>2 DEF RenameFails, RemoveTarget, GiveUp, Kill
    <3>4. QED
      BY <3>2, <3>3
  <2>3. ASSUME Step(r) PROVE Rename(r) \/ RenameFails(r) \/ RemoveTarget(r) \/ GiveUp(r)
    BY <1>1, <2>3 DEF Step, Publish, PassVacuously, EvaluateFails, Evaluate, AppendRecord,
       AppendFails, AppendsDone, EmitFails, Emit, ReadSnapshotFails, ReadSnapshot, CreateTmp,
       FillTmp, WriteFails
  <2>4. ~ EditBaseline /\ ~ UNCHANGED vars
    BY <1>1 DEF EditBaseline, vars
  <2>5. QED
    BY <1>1, <2>1, <2>2, <2>3, <2>4, OthersStage DEF Next
<1>2. TypeInv /\ PublishInv /\ [Next]_vars =>
        [\A r \in Runs :
           pc[r] \in {"rename", "remove", "replace"} /\ pc'[r] # pc[r] /\ snap[r].kind = "table" =>
              \/ baseline'.kind = "table" /\ AtLeastAsTight(baseline'.floors, snap[r].floors)
              \/ pc'[r] # "passed" /\ baseline' \in {baseline, Absent}]_vars
  BY <1>1
<1>3. QED
  BY <1>2, TypeInvHolds, PublishInvHolds, PTL DEF Spec, TightensWhatItRead

-----------------------------------------------------------------------------
(* The ledger.  A record's body is never the last piece; a half line costs  *)
(* the record that follows it, so that a mishap is charged for one record,  *)
(* already lost or still to come.                                           *)

Pieces == {Newline} \cup [piece : {"body", "half"}, run : Runs, gate : Gates \cup {"ratchet"}]

EndsInHalf == ledger # <<>> /\ ledger[Len(ledger)].piece = "half"

Lost == logged \ ReadBack

LedgerInv ==
    /\ ledger \in Seq(Pieces)
    /\ \A i \in 1 .. Len(ledger) :
          ledger[i].piece = "body" => i < Len(ledger) /\ ledger[i + 1] = Newline
    /\ IsFiniteSet(logged)
    /\ Cardinality(Lost) + (IF EndsInHalf THEN 1 ELSE 0) <= torn

LEMMA PieceTypes ==
    /\ \A r \in Runs, g \in Gates \cup {"ratchet"} :
          /\ Body(r, g) \in Pieces /\ Half(r, g) \in Pieces
          /\ Body(r, g).piece = "body" /\ Body(r, g).run = r /\ Body(r, g).gate = g
          /\ Half(r, g).piece = "half" /\ Half(r, g) # Newline
    /\ Newline \in Pieces /\ Newline.piece = "newline"
    /\ \A p \in Pieces : p.piece \in {"body", "half"} \/ p = Newline
<1>1. \A r, g : Half(r, g).piece = "half" /\ Newline.piece = "newline"
  BY DEF Half, Newline
<1>2. QED
  BY <1>1 DEF Pieces, Body, Half, Newline

LEMMA NextPiece ==
    ASSUME TypeInv, NEW r \in Runs, left[r] # {}
    PROVE  Next1(left[r]) \in Gates \cup {"ratchet"}
  BY NextOfSet DEF TypeInv, TypeOK

\* What can be read back can be after a write.
LEMMA StillReadBack ==
    ASSUME LedgerInv, NEW s \in Seq(Pieces), ledger' = ledger \o s
    PROVE  ReadBack \subseteq ReadBack'
<1> SUFFICES ASSUME NEW i \in DOMAIN ledger, ledger[i].piece = "body", i = 1 \/ ledger[i - 1] = Newline
             PROVE  <<ledger[i].run, ledger[i].gate>> \in ReadBack'
  BY DEF ReadBack
<1>1. i \in 1 .. Len(ledger) /\ i < Len(ledger) /\ ledger[i + 1] = Newline
  BY DEF LedgerInv
<1>2. /\ Len(ledger') = Len(ledger) + Len(s) /\ DOMAIN ledger' = 1 .. Len(ledger')
      /\ \A j \in 1 .. Len(ledger) : ledger'[j] = ledger[j]
  BY DEF LedgerInv
<1>3. /\ i \in DOMAIN ledger' /\ ledger'[i] = ledger[i] /\ ledger'[i + 1] = Newline
      /\ i = 1 \/ ledger'[i - 1] = Newline
  BY <1>1, <1>2 DEF LedgerInv
<1>4. QED
  BY <1>3 DEF ReadBack

LEMMA TwoMore ==
    ASSUME NEW S, NEW t \in Seq(S), NEW a \in S, NEW b \in S
    PROVE  LET u == t \o <<a, b>> IN
           /\ u \in Seq(S) /\ Len(t) \in Nat /\ Len(u) = Len(t) + 2
           /\ \A j \in 1 .. Len(t) : u[j] = t[j]
           /\ u[Len(t) + 1] = a /\ u[Len(t) + 2] = b
<1> DEFINE s == <<a, b>>
           u == t \o s
<1>1. s \in Seq(S) /\ Len(s) = 2 /\ s[1] = a /\ s[2] = b /\ Len(t) \in Nat
  OBVIOUS
<1> HIDE DEF s
<1>2. /\ u \in Seq(S) /\ Len(u) = Len(t) + Len(s)
      /\ \A i \in 1 .. Len(t) + Len(s) : u[i] = IF i <= Len(t) THEN t[i] ELSE s[i - Len(t)]
  BY <1>1, ConcatProperties
<1> HIDE DEF u
<1>3. u[Len(t) + 1] = s[1] /\ u[Len(t) + 2] = s[2] /\ \A j \in 1 .. Len(t) : u[j] = t[j]
  BY <1>1, <1>2
<1>4. QED
  BY <1>1, <1>2, <1>3 DEF s, u

LEMMA RecordStep ==
    ASSUME TypeInv, LedgerInv, NEW r \in Runs, AppendRecord(r) PROVE LedgerInv'
<1> DEFINE g == Next1(left[r])
           s == <<Body(r, g), Newline>>
           n == Len(ledger)
<1>1. g \in Gates \cup {"ratchet"}
  BY NextPiece DEF AppendRecord
<1>2. /\ ledger' = ledger \o s /\ logged' = logged \cup {<<r, g>>} /\ torn' = torn
  BY DEF AppendRecord
<1>3. /\ Body(r, g) \in Pieces /\ Newline \in Pieces /\ Newline.piece = "newline"
      /\ Body(r, g).piece = "body" /\ Body(r, g).run = r /\ Body(r, g).gate = g
  BY <1>1, PieceTypes
<1>4. s \in Seq(Pieces) /\ Len(s) = 2 /\ s[1] = Body(r, g) /\ s[2] = Newline
  BY <1>3
<1> HIDE DEF g, s
<1>5. /\ ledger \in Seq(Pieces) /\ ledger' \in Seq(Pieces) /\ n \in Nat /\ Len(ledger') = n + 2
      /\ \A j \in 1 .. n : ledger'[j] = ledger[j]
      /\ ledger'[n + 1] = Body(r, g) /\ ledger'[n + 2] = Newline
  <2>1. ledger \in Seq(Pieces) /\ ledger' = ledger \o <<Body(r, g), Newline>>
    BY <1>2 DEF LedgerInv, s
  <2>2. QED
    BY <1>3, <2>1, TwoMore
<1>6. \A i \in 1 .. n : ledger[i].piece = "body" => i < n /\ ledger[i + 1] = Newline
  BY DEF LedgerInv
<1> HIDE DEF n
<1>7. \A i \in 1 .. Len(ledger') :
         ledger'[i].piece = "body" => i < Len(ledger') /\ ledger'[i + 1] = Newline
  <2> SUFFICES ASSUME NEW i \in 1 .. n + 2, ledger'[i].piece = "body"
               PROVE  i < n + 2 /\ ledger'[i + 1] = Newline
    BY <1>5
  <2>1. CASE i \in 1 .. n
    BY <1>5, <1>6, <2>1
  <2>2. CASE i = n + 1
    BY <1>5, <2>2
  <2>3. CASE i = n + 2
    BY <1>3, <1>5, <2>3
  <2>4. QED
    BY <1>5, <2>1, <2>2, <2>3
<1>8. ~EndsInHalf'
  BY <1>3, <1>5 DEF EndsInHalf
<1>9. Lost' \subseteq Lost \cup {<<r, g>>}
  BY <1>2, <1>4, StillReadBack DEF Lost
<1>10. ~EndsInHalf => <<r, g>> \in ReadBack'
  <2> SUFFICES ASSUME ~EndsInHalf PROVE <<r, g>> \in ReadBack'
    OBVIOUS
  <2>1. n = 0 \/ ledger[n] = Newline
    <3>1. CASE n # 0
      <4>1. n \in 1 .. n /\ ledger # <<>> /\ ledger[n] \in Pieces
        BY <1>5, <3>1 DEF n
      <4>2. ledger[n].piece # "half" /\ ledger[n].piece # "body"
        BY <1>5, <1>6, <4>1 DEF EndsInHalf, n
      <4>3. QED
        BY <4>1, <4>2, PieceTypes
    <3>2. QED
      BY <3>1
  <2>2. n + 1 = 1 \/ ledger'[(n + 1) - 1] = Newline
    BY <1>5, <2>1
  <2>3. n + 1 \in DOMAIN ledger' /\ ledger'[(n + 1) + 1] = Newline
    BY <1>5
  <2>4. QED
    BY <1>3, <1>5, <2>2, <2>3 DEF ReadBack
<1>11. /\ IsFiniteSet(logged') /\ IsFiniteSet(Lost) /\ IsFiniteSet(Lost')
       /\ Cardinality(Lost) \in Nat /\ Cardinality(Lost') \in Nat
  <2>1. IsFiniteSet(logged) /\ IsFiniteSet(logged')
    BY <1>2, FS_AddElement DEF LedgerInv
  <2>2. QED
    BY <2>1, FS_Subset, FS_CardinalityType DEF Lost
<1>12. Cardinality(Lost') <= Cardinality(Lost) + (IF EndsInHalf THEN 1 ELSE 0)
  <2>1. CASE EndsInHalf
    <3>1. /\ IsFiniteSet(Lost \cup {<<r, g>>})
          /\ Cardinality(Lost \cup {<<r, g>>}) <= Cardinality(Lost) + 1
          /\ Cardinality(Lost \cup {<<r, g>>}) \in Nat
      <4>1. /\ IsFiniteSet(Lost \cup {<<r, g>>})
            /\ Cardinality(Lost \cup {<<r, g>>}) =
                 IF <<r, g>> \in Lost THEN Cardinality(Lost) ELSE Cardinality(Lost) + 1
        BY <1>11, FS_AddElement
      <4>2. QED
        BY <1>11, <4>1
    <3>2. Cardinality(Lost') <= Cardinality(Lost \cup {<<r, g>>})
      BY <1>9, <3>1, FS_Subset
    <3>3. QED
      BY <1>11, <2>1, <3>1, <3>2
  <2>2. CASE ~EndsInHalf
    <3>1. Lost' \subseteq Lost
      BY <1>9, <1>10, <2>2 DEF Lost
    <3>2. QED
      BY <1>11, <2>2, <3>1, FS_Subset
  <2>3. QED
    BY <2>1, <2>2
<1>13. Cardinality(Lost') + (IF EndsInHalf' THEN 1 ELSE 0) <= torn'
  BY <1>2, <1>8, <1>11, <1>12 DEF LedgerInv, TypeInv, TypeOK
<1>14. QED
  BY <1>5, <1>7, <1>11, <1>13 DEF LedgerInv

\* A mishap writes half a line, or nothing.
LEMMA MishapStep ==
    ASSUME TypeInv, LedgerInv, NEW r \in Runs, left[r] # {} \/ ledger' = ledger,
           ledger' \in {ledger, Append(ledger, Half(r, Next1(left[r])))},
           logged' = logged, torn' = torn + 1
    PROVE  LedgerInv'
<1>1. torn \in Nat
  BY DEF TypeInv, TypeOK
<1>2. IsFiniteSet(Lost) /\ Cardinality(Lost) \in Nat
  BY FS_Subset, FS_CardinalityType DEF LedgerInv, Lost
<1>3. CASE ledger' = ledger
  <2>1. Lost' = Lost /\ EndsInHalf' = EndsInHalf
    BY <1>3 DEF Lost, ReadBack, EndsInHalf
  <2>2. QED
    BY <1>1, <1>2, <1>3, <2>1 DEF LedgerInv
<1>4. CASE ledger' # ledger
  <2> DEFINE h == Half(r, Next1(left[r]))
  <2>1. h \in Pieces /\ h.piece = "half" /\ h # Newline
    BY <1>4, NextPiece, PieceTypes
  <2>2. ledger' = Append(ledger, h)
    BY <1>4
  <2> HIDE DEF h
  <2>3. /\ ledger \in Seq(Pieces) /\ ledger' \in Seq(Pieces) /\ Len(ledger') = Len(ledger) + 1
        /\ \A j \in 1 .. Len(ledger) : ledger'[j] = ledger[j]
        /\ ledger'[Len(ledger) + 1] = h /\ Len(ledger) \in Nat
    BY <2>1, <2>2 DEF LedgerInv
  <2>4. \A i \in 1 .. Len(ledger') :
           ledger'[i].piece = "body" => i < Len(ledger') /\ ledger'[i + 1] = Newline
    <3> SUFFICES ASSUME NEW i \in 1 .. Len(ledger) + 1, ledger'[i].piece = "body"
                 PROVE  i < Len(ledger) + 1 /\ ledger'[i + 1] = Newline
      BY <2>3
    <3>1. i \in 1 .. Len(ledger)
      BY <2>1, <2>3
    <3>2. i < Len(ledger) /\ ledger[i + 1] = Newline
      BY <2>3, <3>1 DEF LedgerInv
    <3>3. QED
      BY <2>3, <3>1, <3>2
  <2>5. ReadBack \subseteq ReadBack'
    <3>1. ledger' = ledger \o <<h>> /\ <<h>> \in Seq(Pieces)
      BY <2>1, <2>2, <2>3
    <3>2. QED
      BY <3>1, StillReadBack
  <2>6. Lost' \subseteq Lost
    BY <2>5 DEF Lost
  <2>7. Cardinality(Lost') <= Cardinality(Lost) /\ Cardinality(Lost') \in Nat
    BY <1>2, <2>6, FS_Subset, FS_CardinalityType
  <2>8. QED
    BY <1>1, <1>2, <2>3, <2>4, <2>7 DEF LedgerInv
<1>5. QED
  BY <1>3, <1>4

LEMMA LedgerStep == ASSUME TypeInv, LedgerInv, [Next]_vars PROVE LedgerInv'
<1>1. CASE UNCHANGED <<ledger, logged, torn>>
  BY <1>1 DEF LedgerInv, Lost, ReadBack, EndsInHalf
<1>2. ASSUME NEW r \in Runs, AppendFails(r) PROVE LedgerInv'
  BY <1>2, MishapStep DEF AppendFails
<1>3. ASSUME NEW r \in Runs, Kill(r) PROVE LedgerInv'
  BY <1>3, MishapStep DEF Kill
<1>4. ASSUME NEW r \in Runs, WriteFails(r) \/ RenameFails(r) \/ GiveUp(r) PROVE LedgerInv'
  <2>1. ledger' = ledger /\ logged' = logged /\ torn' \in {torn, torn + 1}
    BY <1>4 DEF WriteFails, RenameFails, GiveUp, RenameRefused
  <2>2. QED
    BY <1>1, <2>1, MishapStep
<1>5. ASSUME NEW r \in Runs, Step(r) PROVE LedgerInv'
  BY <1>1, <1>2, <1>4, <1>5, RecordStep DEF Step, PassVacuously, EvaluateFails, Evaluate, AppendsDone,
     EmitFails, Emit, ReadSnapshotFails, ReadSnapshot, Publish, CreateTmp, FillTmp, Rename,
     RemoveTarget, files
<1>6. EditBaseline \/ UNCHANGED vars => UNCHANGED <<ledger, logged, torn>>
  BY DEF EditBaseline, vars, files
<1>7. QED
  BY <1>1, <1>3, <1>5, <1>6 DEF Next

\* Records of parallel runs never share a line, and a torn write costs at most
\* one record besides its own (ledger.rs, write contract).
THEOREM TearsAreCheap == Spec => []TearCostsOneRecord
<1>1. Init => LedgerInv
  <2> SUFFICES ASSUME Init PROVE LedgerInv
    OBVIOUS
  <2>1. ledger = <<>> /\ logged = {} /\ torn = 0
    BY DEF Init
  <2>2. ledger \in Seq(Pieces) /\ Len(ledger) = 0 /\ ~EndsInHalf
    BY <2>1 DEF EndsInHalf
  <2>3. Lost = {}
    BY <2>1 DEF Lost
  <2>4. QED
    BY <2>1, <2>2, <2>3, FS_EmptySet DEF LedgerInv
<1>2. TypeInv /\ LedgerInv => TearCostsOneRecord
  <2> SUFFICES ASSUME TypeInv, LedgerInv PROVE Cardinality(Lost) <= torn
    BY DEF TearCostsOneRecord, Lost
  <2>1. IsFiniteSet(Lost) /\ Cardinality(Lost) \in Nat /\ torn \in Nat
    BY FS_Subset, FS_CardinalityType DEF LedgerInv, Lost, TypeInv, TypeOK
  <2>2. QED
    BY <2>1 DEF LedgerInv
<1>3. QED
  BY <1>1, <1>2, LedgerStep, TypeInvHolds, PTL DEF Spec

=============================================================================
