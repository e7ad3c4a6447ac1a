SPECIFICATION AppendersSpec
CONSTANTS
    STANDARD_VECTOR_SIZE = 2
    Chunks = 2
    MaxCommits = 3
    MaxChanges = 6
    MaxHunks = 6
INVARIANTS AppendersTypeOK GuardedWritesFindTheirParents DoneMeansAllWritten
CHECK_DEADLOCK FALSE
