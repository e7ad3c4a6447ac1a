---------------------------- MODULE GateVerdicts ----------------------------
(***************************************************************************)
(* How `codelore check` and `codelore gate` turn measurements into         *)
(* verdicts, and how the ratchet compares them with a baseline: the pure   *)
(* part of cli/check.rs, cli/gate.rs and quality_gates/.  Values are whole *)
(* numbers; a reading is one evaluation of the whole repository.           *)
(***************************************************************************)
EXTENDS Integers, FiniteSets

CONSTANTS Gates,      \* the gates of the instance, by their names in Gates and DiffGates
          MaxValue,   \* measured values are 0 .. MaxValue
          Bound       \* the configured threshold of each gate

Values == 0 .. MaxValue

ASSUME VerdictAssumption == MaxValue \in Nat /\ Bound \in [Gates -> Values]

\* evaluated by `gate` on a working-tree change set; the others by `check`
DiffGates == {"delta_code_health_min", "delta_code_health_min_per_file",
              "new_file_health_min", "no_new_cycles"}

\* a `_min` gate fails below its threshold, every other gate above it
HigherBetter == {"code_health_min", "code_familiarity_min", "born_health_min",
                 "touched_no_degradation"} \cup (DiffGates \ {"no_new_cycles"})

\* skipped when what they compare with is missing: the sidecar, a calibration
\* artifact, a baseline before the window, a median, a per-file delta
SideInput == {"max_findings_in_hot_files", "corpus_percentile_max", "hotspot_anchored_max",
              "born_health_min", "touched_no_degradation",
              "delta_code_health_min", "delta_code_health_min_per_file"}

COMPLEXITY_DERIVED_GATES ==
    {"cognitive_max", "hotspot_score_max", "hotspot_anchored_max", "code_health_min",
     "max_dependency_cycles", "max_propagation_cost", "max_red_effort_pct",
     "code_familiarity_min", "max_findings_in_hot_files", "corpus_percentile_max"}

\* the ratchet's metrics, each named after the gate that measures it
RATCHET_METRICS == {"code_health_min", "max_red_effort_pct", "max_dependency_cycles"}
Metrics == Gates \cap RATCHET_METRICS

Verdicts == {"passed", "failed", "skipped", "degraded"}

(***************************************************************************)
(* What an evaluation of gates gs meets: each one's value, the side inputs that are  *)
(* there, whether code health had rows (or none, over a tree with or       *)
(* without source), whether the HEAD scan is thin, and whether a change    *)
(* set still has changes once its report is built.                         *)
(***************************************************************************)
Readings(gs) == [value: [gs -> Values], input: SUBSET (gs \cap SideInput),
                 rows: {"scored", "blind", "nosource"}, thin: BOOLEAN, changes: BOOLEAN]

Fails(g, seen) ==
    /\ g = "code_health_min" => seen.rows = "scored"
    /\ IF g \in HigherBetter THEN seen.value[g] < Bound[g] ELSE seen.value[g] > Bound[g]

\* (the pair under [new_code] shares one skipped record, named new_code)
Skips(g, seen) ==
    \/ g \in SideInput /\ g \notin seen.input
    \/ g = "corpus_percentile_max" /\ seen.rows # "scored"
    \/ g \in DiffGates \ {"delta_code_health_min"} /\ ~seen.changes

\* the verdict of a gate's own evaluator
Concluded(g, seen) ==
    IF Skips(g, seen) THEN "skipped"
    ELSE IF g = "code_health_min" /\ seen.rows = "blind" THEN "degraded"
    ELSE IF Fails(g, seen) THEN "failed" ELSE "passed"

degrade_complexity_derived(g, seen) ==
    seen.thin /\ g \in COMPLEXITY_DERIVED_GATES /\ Concluded(g, seen) # "skipped"

\* the verdict in the ledger record
Recorded(g, seen) ==
    IF degrade_complexity_derived(g, seen) THEN "degraded" ELSE Concluded(g, seen)

\* Mutant: the floor consumed below the early return of the code-health gate
ViolationsOfHealthOnly(gs, seen, fail_on_degraded) ==
    {g \in gs : Concluded(g, seen) = "failed"}
    \cup (IF fail_on_degraded /\ "code_health_min" \in gs
          THEN {g \in gs : Concluded(g, seen) = "degraded"}
               \cup {v \in {"scan_coverage"} : \E g \in gs : degrade_complexity_derived(g, seen)}
          ELSE {})

\* the violations of evaluate_all_gates over the configured gates gs; a gate
\* that failed keeps its violation when its record is degraded afterwards
Violations(gs, seen, fail_on_degraded) ==
    {g \in gs : Concluded(g, seen) = "failed"}
    \cup (IF fail_on_degraded
          THEN {g \in gs : Concluded(g, seen) = "degraded"}
               \cup {v \in {"scan_coverage"} : \E g \in gs : degrade_complexity_derived(g, seen)}
          ELSE {})

\* skipped_gate_violations
skipped_gate_violations(recs, fail_on_skipped) ==
    {g \in DOMAIN recs : fail_on_skipped /\ recs[g] = "skipped"}

-----------------------------------------------------------------------------
(* The ratchet: a table of floors is a function on some of the metrics.    *)

NoFloors == [m \in {} |-> 0]
Tables == UNION {[ms -> Values] : ms \in SUBSET Metrics}

\* metrics of the configured gates: health from the rows, if there are any;
\* the other two from the value of the gate's ledger record
observed_metrics(gs, seen) ==
    [m \in {m \in gs \cap Metrics : m = "code_health_min" => seen.rows = "scored"} |->
        seen.value[m]]

Worse(m, observed, floor) ==
    IF m \in HigherBetter THEN observed < floor ELSE observed > floor

\* Mutant: a metric that is not measured any more is not compared
RegressionsOfMeasured(floors, observed) ==
    {m \in DOMAIN floors \cap DOMAIN observed : Worse(m, observed[m], floors[m])}

\* a floor that is not measured any more is a regression; a metric without a
\* floor is not compared
Regressions(floors, observed) ==
    {m \in DOMAIN floors : m \notin DOMAIN observed \/ Worse(m, observed[m], floors[m])}

\* table new forbids everything table old forbids
AtLeastAsTight(new, old) ==
    \A m \in DOMAIN old : m \in DOMAIN new /\ ~Worse(m, new[m], old[m])
=============================================================================
