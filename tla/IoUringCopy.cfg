CONSTANTS
    Sizes = {0, 5}
    ChunkSize = 2
    QueueDepth = 2
    MaxCopies = 2
    MaxFaults = 1
    MaxEdits = 1
SPECIFICATION CopyFairSpec
INVARIANTS
    CopyIsFaithful
    BuffersExclusive
    RingCleanBetweenCopies
PROPERTIES
    CopyReturns
