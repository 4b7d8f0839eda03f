SPECIFICATION FairSpec
CONSTANTS
    Record <- MCRecord
    Mask <- MCMask
    PipeSize = 1
    MaxOutput = 1
    MaxFaults = 2
    QueueSize = 1
INVARIANTS
    TypeOK
    NobodyLeft
    SuccessMeansClean
PROPERTIES
    ImplementsFeed
    RelayReturns
CHECK_DEADLOCK FALSE
