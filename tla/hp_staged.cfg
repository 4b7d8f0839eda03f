SPECIFICATION Spec
CONSTANTS
    Charts = 3
    Bytes <- EvenBytes
    EncodedBytes = 1
    PipelineBytes = 4
    QueueCapacity = 2
    PartitionCount = 1
    Policy = "Strict"
    Bucket <- SpreadBuckets
    CpuWorkers = 2
    InputReaders = 1
    IoWorkers = 1
    ComputeBatch = 1
    WriteBatch = 1
    Faults = {"read"}
    Spurious = FALSE
INVARIANTS
    TypeOK
    SlotsConserved
    NeverBroken
PROPERTIES
    EveryChartWritten
    RunReturns
CHECK_DEADLOCK FALSE
