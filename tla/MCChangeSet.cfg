CONSTANTS
    a = a
    b = b
    bi = bi
    first = first
    second = second
    NoFile = NoFile
    NoPath = NoPath
    Gates = {first, second}
    Paths <- Files3
    Targets <- Names
    Order <- Meaning
    Bodies <- AllBodies
    Drafts <- Written
    Starts <- Scenes
SPECIFICATION Spec
INVARIANT TypeOK
PROPERTY NewlyCyclicAreFound ReportDescribesTheTree
CHECK_DEADLOCK FALSE
