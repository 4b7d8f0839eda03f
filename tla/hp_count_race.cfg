SPECIFICATION Spec
CONSTANTS
    Charts = 2
    Bytes <- EvenBytes
    EncodedBytes = 1
    PipelineBytes = 6
    QueueCapacity = 2
    PartitionCount = 1
    Policy = "Shared"
    Bucket <- SpreadBuckets
    CpuWorkers = 1
    InputReaders = 0
    IoWorkers = 1
    ComputeBatch = 1
    WriteBatch = 1
    Faults = {}
    Spurious = FALSE
INVARIANTS
    NeverBroken
CHECK_DEADLOCK FALSE
