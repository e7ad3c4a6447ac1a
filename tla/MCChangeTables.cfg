SPECIFICATION Spec
CONSTANTS
    Paths = {1, 2, 3}
    Dates = {1, 2}
    Groups <- MCGroups
    Units <- MCUnits
    MaxCommits = 4
    MaxChanges = 4
    MaxDepth = 2
INVARIANTS TypeOK LineageFollowsTheFile OneImagePerRow DerivedTablesAreFresh HunksKeepTheirChange
CHECK_DEADLOCK FALSE
