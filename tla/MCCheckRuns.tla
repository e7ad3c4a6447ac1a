----------------------------- MODULE MCCheckRuns -----------------------------
(* A small instance of CheckRuns. *)
EXTENDS CheckRuns, TLC

MCGates == {"code_health_min", "max_dependency_cycles", "corpus_percentile_max",
            "delta_code_health_min", "no_new_cycles"}
MCBound == [g \in MCGates |-> IF g \in HigherBetter THEN 1 ELSE 0]

Thresholds(gs, degraded, skipped, b) ==
    [gates |-> gs, fail_on_degraded |-> degraded, fail_on_skipped |-> skipped, replaces |-> b]

\* each gate alone under the policies that concern it, on either kind of file
\* system, and no gate at all
MCConfigs ==
    {Thresholds({"code_health_min"}, b, FALSE, TRUE) : b \in BOOLEAN}
    \cup {Thresholds({"corpus_percentile_max"}, TRUE, b, TRUE) : b \in BOOLEAN}
    \cup {Thresholds({"max_dependency_cycles"}, b, FALSE, b) : b \in BOOLEAN}
    \cup {Thresholds({"delta_code_health_min"}, TRUE, b, TRUE) : b \in BOOLEAN}
    \cup {Thresholds({"no_new_cycles"}, TRUE, TRUE, TRUE), Thresholds({}, TRUE, FALSE, TRUE)}

MCModeSets ==
    LET Pair(a, b) == {f \in [Runs -> {a, b}] : {f[r] : r \in Runs} = {a, b}} IN
    Pair("ratchet", "ratchet") \cup Pair("check", "ratchet") \cup Pair("check", "gate")

\* two ratchets look at no policy: one configuration of a kind is enough
RatchetConfigs ==
    {Thresholds({"code_health_min"}, TRUE, FALSE, TRUE),
     Thresholds({"max_dependency_cycles"}, FALSE, FALSE, FALSE), Thresholds({}, TRUE, FALSE, TRUE)}

MCInit == Init /\ ((\A r \in Runs : mode[r] = "ratchet") => config \in RatchetConfigs)
MCSpec == MCInit /\ [][Next]_vars

Symmetry == Permutations(Runs)
MCPidOf == [r \in Runs |-> r]
==============================================================================
