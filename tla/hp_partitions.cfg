SPECIFICATION Spec
CONSTANTS
    Charts = 2
    Bytes <- EvenBytes
    EncodedBytes = 1
    PipelineBytes = 3
    QueueCapacity = 1
    PartitionCount = 2
    Policy = "PreferLocal"
    Bucket <- SpreadBuckets
    CpuWorkers = 1
    InputReaders = 2
    IoWorkers = 2
    ComputeBatch = 1
    WriteBatch = 1
    Faults = {"write"}
    Spurious = TRUE
INVARIANTS
    ClaimedOnce
    CreditConserved
    CompleteReturn
PROPERTIES
    ImplementsJob
CHECK_DEADLOCK FALSE
