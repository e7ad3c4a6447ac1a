SPECIFICATION Spec
CONSTANTS
    Paths = {1, 2, 3}
    Dates = {1}
    Groups <- MCGroups
    Units <- MCUnits
    MaxCommits = 5
    MaxChanges = 5
    MaxDepth = 50
INVARIANT RenamedFilesAreFollowed
CHECK_DEADLOCK FALSE
