SPECIFICATION FairSpec
CONSTANTS
    Runs = {r1, r2}
    Repos = {a}
    Shas = {h1}
    Variants = {v, w}
    MAX_REPO_CACHE_ENTRIES = 1
    GLOBAL_CACHE_MAX = 2
    STALE_TMP_AGE = 1
    MaxClock = 1
    MaxMoves = 0
    MaxMishaps = 1
    NoFile = NoFile
PROPERTY DamageHeals
CHECK_DEADLOCK FALSE
