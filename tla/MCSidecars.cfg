SPECIFICATION SidecarsSpec
CONSTANTS
    Engines = {"semgrep", "codeql"}
    Paths = {"a", "b"}
    Lines = {1}
    Prints = {"x", "y"}
    None = None
    Files <- MCFiles
    Inputs <- MCInputs
    i1 = i1
    i2 = i2
    r1 = r1
    r2 = r2
    n1 = n1
    n2 = n2
    n3 = n3
    n4 = n4
    a1 = a1
    Ingests = {i1, i2}
    Readers = {r1, r2}
    Subjects = {"a", "b"}
    Sheets = {1, 2}
    Models = {"m", "n"}
    Prompts = {1}
    Checkers = {1, 2}
    Texts = {"short", "long"}
    Size <- MCSize
    Grounds <- MCGrounds
    Narrators = {n1, n2, n3, n4}
    Askers = {a1}
    Environments <- MCEnvironments
    MaxTime = 1
    MaxChanges = 1
    Scenes <- MCScenes
INVARIANTS TypesOK IngestedMeansStored ReportAddsUp ServedIsOfTheCall NoteNamesARealChange
PROPERTY ReplacesWholeEngines
SYMMETRY Symmetry
CHECK_DEADLOCK FALSE
