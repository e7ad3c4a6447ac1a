------------------------------ MODULE CheckRuns ------------------------------
(***************************************************************************)
(* Runs of `codelore check`, `check --ratchet` and `gate` in one           *)
(* repository (cli/check.rs, cli/gate.rs): each evaluates its gates,       *)
(* appends a record per gate to the gate-run ledger, and the ratchet       *)
(* compares with, initializes or tightens the committed baseline.  Nothing *)
(* locks the ledger or the baseline.  Any evaluation may meet any reading: *)
(* commits happen between two runs.                                        *)
(***************************************************************************)
EXTENDS GateVerdicts, Sequences

CONSTANTS Runs,
          Configs,       \* [gates, fail_on_degraded, fail_on_skipped, replaces]; see Init
          ModeSets,      \* the commands the runs may be, as functions from Runs
          Pids, PidOf,   \* the process identifier of each run
          MaxMishaps,    \* kills, failing writes, renames and removals
          MaxEdits       \* edits of the baseline by the user, or by git

Modes == {"check", "ratchet", "gate"}

ASSUME RunsAssumption ==
    /\ Configs \subseteq [gates : SUBSET Gates, fail_on_degraded : BOOLEAN,
                          fail_on_skipped : BOOLEAN, replaces : BOOLEAN]
    /\ ModeSets \subseteq [Runs -> Modes]
    /\ PidOf \in [Runs -> Pids]
    /\ \A r, s \in Runs : PidOf[r] = PidOf[s] => r = s
    /\ MaxMishaps \in Nat /\ MaxEdits \in Nat

VARIABLES config,      \* the thresholds file, and whether rename replaces its target
          baseline,    \* .codelore-ratchet.toml
          tmp,         \* its temporary siblings, by name
          ledger,      \* gate_runs.jsonl, as the pieces written to it
          mode, pc,
          recs,        \* [gate -> verdict]: the run's ledger records
          violations,  \* what makes it exit 1
          observed,    \* the ratchet's metrics
          snap,        \* the baseline as the run read it
          left,        \* gates whose record is still to be appended
          logged,      \* <<run, gate>>: appends that returned without an error
          torn, edits  \* mishaps and edits so far

run == <<recs, violations, observed, snap, left>>
files == <<baseline, tmp, ledger, logged>>
vars == <<config, mode, pc, run, files, torn, edits>>

Over == {"passed", "failed", "error", "killed"}
Stages == Over \cup {"idle", "snapshot", "ledger", "emit", "create", "fill", "rename",
                  "remove", "replace"}

\* a file by its kind: "empty" is destroyed, "stale" of another schema, "part" torn
File(kind, floors) == [kind |-> kind, floors |-> floors]
Absent == File("absent", NoFloors)
Part == File("part", NoFloors)
Files == [kind : {"absent", "empty", "stale", "part", "table"}, floors : Tables]

\* Mutant: a temporary name without the process identifier
SharedTmp(r) == CHOOSE p \in Pids : TRUE

TmpOf(r) == PidOf[r]

\* a piece of the ledger: a record's body, its first half, or a newline
Body(r, g) == [piece |-> "body", run |-> r, gate |-> g]
Half(r, g) == [piece |-> "half", run |-> r, gate |-> g]
Newline == [piece |-> "newline"]

Init ==
    /\ config \in Configs
    /\ mode \in ModeSets
    /\ baseline = Absent
    /\ tmp = [p \in Pids |-> [owner |-> "nobody", file |-> Absent]]
    /\ ledger = <<>> /\ logged = {}
    /\ pc = [r \in Runs |-> "idle"]
    /\ recs = [r \in Runs |-> NoFloors]
    /\ violations = [r \in Runs |-> {}]
    /\ observed = [r \in Runs |-> NoFloors]
    /\ snap = [r \in Runs |-> Absent]
    /\ left = [r \in Runs |-> {}]
    /\ torn = 0 /\ edits = 0

-----------------------------------------------------------------------------
Goto(r, stage) == pc' = [pc EXCEPT ![r] = stage]

GatesOf(r) == IF mode[r] = "gate" THEN config.gates \cap DiffGates ELSE config.gates \ DiffGates

\* without a threshold a run passes at once, and `gate` passes a clean tree
PassVacuously(r) ==
    /\ pc[r] = "idle"
    /\ IF config.gates = {} THEN mode[r] # "ratchet" ELSE mode[r] = "gate"
    /\ Goto(r, "passed")
    /\ UNCHANGED <<config, mode, run, files, torn, edits>>

\* the repository, its HEAD, the thresholds, the ingest or an analysis
EvaluateFails(r) ==
    /\ pc[r] = "idle"
    /\ Goto(r, "error")
    /\ UNCHANGED <<config, mode, run, files, torn, edits>>

\* evaluate_all_gates, or evaluate_gate_thresholds over the change set: the
\* ratchet takes its metrics from it, the others their verdict
Evaluate(r) ==
    /\ pc[r] = "idle"
    /\ config.gates # {} \/ mode[r] = "ratchet"
    /\ left' = [left EXCEPT ![r] = GatesOf(r)]
    /\ \E seen \in Readings(GatesOf(r)) :
          IF mode[r] = "ratchet"
          THEN /\ observed' = [observed EXCEPT ![r] = observed_metrics(GatesOf(r), seen)]
               /\ Goto(r, "snapshot")
               /\ UNCHANGED <<recs, violations>>
          ELSE LET met == [seen EXCEPT !.thin = mode[r] = "check" /\ @] IN
               /\ recs' = [recs EXCEPT ![r] = [g \in GatesOf(r) |-> Recorded(g, met)]]
               /\ violations' = [violations EXCEPT ![r] =
                                    Violations(GatesOf(r), met, config.fail_on_degraded)]
               /\ Goto(r, "ledger")
               /\ UNCHANGED observed
    /\ UNCHANGED <<config, mode, snap, files, torn, edits>>

-----------------------------------------------------------------------------
(* append_gate_runs: one write per record, `body` and newline in one buffer; *)
(* a failing write is dropped with a warning and the next one follows.       *)

\* the order is the order of evaluation, the same in every run
Next1(gs) == CHOOSE g \in gs : TRUE

\* Mutant: body and newline in two writes
AppendRecordInTwo(r) ==
    /\ pc[r] = "ledger" /\ left[r] # {}
    /\ IF "newline" \in left[r]
       THEN /\ ledger' = Append(ledger, Newline)
            /\ left' = [left EXCEPT ![r] = @ \ {"newline"}]
            /\ UNCHANGED logged
       ELSE LET g == Next1(left[r]) IN
            /\ ledger' = Append(ledger, Body(r, g))
            /\ logged' = logged \cup {<<r, g>>}
            /\ left' = [left EXCEPT ![r] = (@ \ {g}) \cup {"newline"}]
    /\ UNCHANGED <<config, mode, pc, recs, violations, observed, snap, baseline, tmp, torn, edits>>

AppendRecord(r) ==
    /\ pc[r] = "ledger" /\ left[r] # {}
    /\ LET g == Next1(left[r]) IN
          /\ ledger' = ledger \o <<Body(r, g), Newline>>
          /\ logged' = logged \cup {<<r, g>>}
          /\ left' = [left EXCEPT ![r] = @ \ {g}]
    /\ UNCHANGED <<config, mode, pc, recs, violations, observed, snap, baseline, tmp, torn, edits>>

\* the write fails before its first byte or leaves half a line behind, or the
\* file cannot be opened at all
AppendFails(r) ==
    /\ pc[r] = "ledger" /\ left[r] # {}
    /\ torn < MaxMishaps /\ torn' = torn + 1
    /\ \/ LET g == Next1(left[r]) IN
             /\ ledger' \in {ledger, Append(ledger, Half(r, g))}
             /\ left' = [left EXCEPT ![r] = @ \ {g}]
       \/ ledger' = ledger /\ left' = [left EXCEPT ![r] = {}]
    /\ UNCHANGED <<config, mode, pc, recs, violations, observed, snap, baseline, tmp, logged, edits>>

\* fail_on_skipped comes after the ledger, so that its records stay honest
AppendsDone(r) ==
    /\ pc[r] = "ledger" /\ left[r] = {}
    /\ violations' = [violations EXCEPT ![r] =
                         @ \cup skipped_gate_violations(recs[r], config.fail_on_skipped)]
    /\ Goto(r, "emit")
    /\ UNCHANGED <<config, mode, recs, observed, snap, left, files, torn, edits>>

\* the document on stdout (SARIF, or `gate`'s JSON); writing it may fail
EmitFails(r) ==
    /\ pc[r] = "emit"
    /\ Goto(r, "error")
    /\ UNCHANGED <<config, mode, run, files, torn, edits>>

\* emit, then report: by the violations, or by the comparison with the baseline
Emit(r) ==
    /\ pc[r] = "emit"
    /\ Goto(r, IF mode[r] # "ratchet" THEN IF violations[r] = {} THEN "passed" ELSE "failed"
               ELSE IF snap[r].kind # "table" THEN "passed"
               ELSE IF Regressions(snap[r].floors, observed[r]) # {} THEN "failed" ELSE "create")
    /\ UNCHANGED <<config, mode, run, files, torn, edits>>

-----------------------------------------------------------------------------
(* The ratchet's baseline: read_snapshot, then write_snapshot, at once when  *)
(* there is none and after the ledger and the document when it held.         *)

ReadSnapshotFails(r) ==
    /\ pc[r] = "snapshot" /\ baseline.kind \in {"empty", "part"}
    /\ Goto(r, "error")
    /\ UNCHANGED <<config, mode, run, files, torn, edits>>

\* Mutant: a destroyed file parses to a table without floors
ReadSnapshotAnyway(r) ==
    /\ pc[r] = "snapshot"
    /\ snap' = [snap EXCEPT ![r] = baseline]
    /\ left' = [left EXCEPT ![r] = @ \cup {"ratchet"}]
    /\ Goto(r, IF baseline.kind = "table" THEN "ledger" ELSE "create")
    /\ UNCHANGED <<config, mode, recs, violations, observed, files, torn, edits>>

\* a record of the comparison joins the gates'
ReadSnapshot(r) ==
    /\ pc[r] = "snapshot" /\ baseline.kind \notin {"empty", "part"}
    /\ snap' = [snap EXCEPT ![r] = baseline]
    /\ left' = [left EXCEPT ![r] = @ \cup {"ratchet"}]
    /\ Goto(r, IF baseline.kind = "table" THEN "ledger" ELSE "create")
    /\ UNCHANGED <<config, mode, recs, violations, observed, files, torn, edits>>

\* atomic_publish: remove what holds the temporary name, create it
CreateTmp(r) ==
    /\ pc[r] = "create"
    /\ tmp' = [tmp EXCEPT ![TmpOf(r)] = [owner |-> r, file |-> Part]]
    /\ Goto(r, "fill")
    /\ UNCHANGED <<config, mode, run, baseline, ledger, logged, torn, edits>>

\* the bytes go to the file created, whose name another may have taken over
FillTmp(r) ==
    /\ pc[r] = "fill"
    /\ tmp' = IF tmp[TmpOf(r)].owner = r
              THEN [tmp EXCEPT ![TmpOf(r)].file = File("table", observed[r])]
              ELSE tmp
    /\ Goto(r, "rename")
    /\ UNCHANGED <<config, mode, run, baseline, ledger, logged, torn, edits>>

Unlink(p) == [tmp EXCEPT ![p] = [owner |-> "nobody", file |-> Absent]]

\* creating or filling it fails
WriteFails(r) ==
    /\ pc[r] \in {"create", "fill"}
    /\ torn < MaxMishaps /\ torn' = torn + 1
    /\ tmp' = Unlink(TmpOf(r))
    /\ Goto(r, "error")
    /\ UNCHANGED <<config, mode, run, baseline, ledger, logged, edits>>

\* a run that initialized goes on to the ledger, one that tightened is done
AfterWrite(r) == IF snap[r].kind = "table" THEN "passed" ELSE "ledger"

\* the first rename, or the one after the target's removal
Rename(r) ==
    /\ pc[r] \in {"rename", "replace"}
    /\ tmp[TmpOf(r)].file # Absent
    /\ config.replaces \/ baseline = Absent
    /\ baseline' = tmp[TmpOf(r)].file
    /\ tmp' = Unlink(TmpOf(r))
    /\ Goto(r, AfterWrite(r))
    /\ UNCHANGED <<config, mode, run, ledger, logged, torn, edits>>

\* a rename fails: the temporary file is gone, the file system does not rename
\* over a target, or any other error
RenameRefused(r) ==
    \/ /\ tmp[TmpOf(r)].file = Absent \/ (~config.replaces /\ baseline # Absent)
       /\ torn' = torn
    \/ torn < MaxMishaps /\ torn' = torn + 1

\* whatever the first rename failed of
RenameFails(r) ==
    /\ pc[r] = "rename" /\ RenameRefused(r)
    /\ Goto(r, "remove")
    /\ UNCHANGED <<config, mode, run, baseline, tmp, ledger, logged, edits>>

\* a target that exists is removed, for one more rename
RemoveTarget(r) ==
    /\ pc[r] = "remove" /\ baseline # Absent
    /\ baseline' = Absent
    /\ Goto(r, "replace")
    /\ UNCHANGED <<config, mode, run, tmp, ledger, logged, torn, edits>>

\* there is no target, its removal fails, or the second rename does
GiveUp(r) ==
    /\ \/ pc[r] = "remove" /\ baseline = Absent /\ torn' = torn
       \/ pc[r] = "remove" /\ torn < MaxMishaps /\ torn' = torn + 1
       \/ pc[r] = "replace" /\ RenameRefused(r)
    /\ tmp' = Unlink(TmpOf(r))
    /\ Goto(r, "error")
    /\ UNCHANGED <<config, mode, run, baseline, ledger, logged, edits>>

-----------------------------------------------------------------------------
Kill(r) ==
    /\ pc[r] \notin Over \cup {"idle"}
    /\ torn < MaxMishaps /\ torn' = torn + 1
    /\ ledger' \in {ledger} \cup
          (IF pc[r] = "ledger" /\ left[r] # {} THEN {Append(ledger, Half(r, Next1(left[r])))} ELSE {})
    /\ Goto(r, "killed")
    /\ UNCHANGED <<config, mode, run, baseline, tmp, logged, edits>>

\* relax, opt out of a metric, delete, destroy, or check out another version
\* (of interest only to a ratchet)
EditBaseline ==
    /\ \E r \in Runs : mode[r] = "ratchet"
    /\ edits < MaxEdits /\ edits' = edits + 1
    /\ baseline' \in {Absent, File("empty", NoFloors), File("stale", NoFloors)}
                     \cup {File("table", t) : t \in Tables}
    /\ UNCHANGED <<config, mode, pc, run, tmp, ledger, logged, torn>>

Publish(r) ==
    \/ CreateTmp(r) \/ FillTmp(r) \/ WriteFails(r)
    \/ Rename(r) \/ RenameFails(r) \/ RemoveTarget(r) \/ GiveUp(r)

Step(r) ==
    \/ PassVacuously(r) \/ EvaluateFails(r) \/ Evaluate(r)
    \/ AppendRecord(r) \/ AppendFails(r) \/ AppendsDone(r) \/ EmitFails(r) \/ Emit(r)
    \/ ReadSnapshotFails(r) \/ ReadSnapshot(r) \/ Publish(r)

Next == EditBaseline \/ \E r \in Runs : Step(r) \/ Kill(r)

Spec == Init /\ [][Next]_vars

-----------------------------------------------------------------------------
(* Properties.                                                             *)

\* Types.  A run only ever holds a snapshot that was a whole baseline or none:
\* a destroyed file is an error, never a table without floors (ratchet.rs).
TypeOK ==
    /\ config \in Configs
    /\ mode \in [Runs -> Modes] /\ pc \in [Runs -> Stages]
    /\ baseline \in Files
    /\ tmp \in [Pids -> [owner : Runs \cup {"nobody"}, file : Files]]
    /\ snap \in [Runs -> {f \in Files : f.kind \in {"absent", "stale", "table"}}]
    /\ recs \in [Runs -> UNION {[gs -> Verdicts] : gs \in SUBSET Gates}]
    /\ observed \in [Runs -> Tables]
    /\ left \in [Runs -> SUBSET (Gates \cup {"ratchet"})]
    /\ violations \in [Runs -> SUBSET (Gates \cup {"scan_coverage"})]
    /\ torn \in 0 .. MaxMishaps /\ edits \in 0 .. MaxEdits

\* A gate never goes green on blindness (README.md, "a gate must not go green
\* on blindness"): when `check` or `gate` passes, every configured gate was
\* judged and passed, or was not judged and the policy for that is off.
GreenMeansJudged ==
    \A r \in Runs : pc[r] = "passed" /\ mode[r] # "ratchet" =>
        \A g \in DOMAIN recs[r] :
            \/ recs[r][g] = "passed"
            \/ recs[r][g] = "degraded" /\ ~config.fail_on_degraded
            \/ recs[r][g] = "skipped" /\ ~config.fail_on_skipped

\* An interrupted or concurrent write never publishes a torn baseline
\* (write_snapshot through atomic_publish).
BaselineIsWhole == baseline # Part

\* The ratchet only tightens: whatever a run that publishes meets on the way,
\* a failing rename, another run or an edit, it leaves a baseline that forbids
\* everything the one it has read forbade, or it does not pass and leaves the
\* file as it found it or none (run_ratchet_evaluation, atomic_publish).
TightensWhatItRead ==
    [][\A r \in Runs :
         pc[r] \in {"rename", "remove", "replace"} /\ pc'[r] # pc[r] /\ snap[r].kind = "table" =>
            \/ baseline'.kind = "table" /\ AtLeastAsTight(baseline'.floors, snap[r].floors)
            \/ pc'[r] # "passed" /\ baseline' \in {baseline, Absent}]_vars

\* read_gate_runs: a body alone on its line
ReadBack == {<<ledger[i].run, ledger[i].gate>> : i \in
    {i \in DOMAIN ledger : /\ ledger[i].piece = "body"
                           /\ i = 1 \/ ledger[i - 1] = Newline
                           /\ i = Len(ledger) \/ ledger[i + 1] = Newline}}

\* Records of parallel runs never share a line, and a torn write costs at most
\* one record besides its own (ledger.rs, write contract).
TearCostsOneRecord == Cardinality(logged \ ReadBack) <= torn

=============================================================================
