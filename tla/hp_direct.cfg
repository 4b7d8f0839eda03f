SPECIFICATION Spec
CONSTANTS
    Charts = 4
    Bytes <- OddBytes
    EncodedBytes = 1
    PipelineBytes = 3
    QueueCapacity = 2
    PartitionCount = 1
    Policy = "Strict"
    Bucket <- SpreadBuckets
    CpuWorkers = 2
    InputReaders = 0
    IoWorkers = 0
    ComputeBatch = 2
    WriteBatch = 2
    Faults = {"read", "kernel", "write"}
    Spurious = FALSE
INVARIANTS
    BudgetBound
PROPERTIES
    RunReturns
