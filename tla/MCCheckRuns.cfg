SPECIFICATION MCSpec
CONSTANTS
    Gates <- MCGates
    MaxValue = 1
    Bound <- MCBound
    r1 = r1
    r2 = r2
    Runs = {r1, r2}
    Pids = {r1, r2}
    Configs <- MCConfigs
    ModeSets <- MCModeSets
    PidOf <- MCPidOf
    MaxMishaps = 1
    MaxEdits = 1
INVARIANTS TypeOK GreenMeansJudged BaselineIsWhole TearCostsOneRecord
PROPERTY TightensWhatItRead
SYMMETRY Symmetry
CHECK_DEADLOCK FALSE
