SPECIFICATION Spec
CONSTANTS
    Paths = {f, g}
    Trees = {{}, {f}, {g}}
    Dates = {1, 2}
    MaxCommits = 4
INVARIANTS TypeOK WalkStoresEachCommitOnce HeadRevIsHead LinearScanIsComplete
CHECK_DEADLOCK FALSE
