SPECIFICATION Spec
CONSTANTS
    Runs = {r1, r2}
    Repos = {a, b}
    Shas = {h1, h2}
    Variants = {v, w}
    MAX_REPO_CACHE_ENTRIES = 1
    GLOBAL_CACHE_MAX = 1
    STALE_TMP_AGE = 1
    MaxClock = 1
    MaxMoves = 1
    MaxMishaps = 1
    NoFile = NoFile
SYMMETRY Symmetry
INVARIANTS TypeOK NoTornEntry ServedDescribesHead CapsHold
CHECK_DEADLOCK FALSE
