SPECIFICATION FairSpec
CONSTANTS
    NumOids = 4
    ChunkSize = 2
    WalkerCap = 1
    ChannelCap = 1
    NumPasses = 2
INVARIANTS TypeOK RowsAreWalkPrefix NoPartialSuccess
PROPERTIES Terminates ImplementsCommitLog
CHECK_DEADLOCK FALSE
