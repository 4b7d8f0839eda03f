SPECIFICATION Spec
CONSTANTS
    Charts = 2
    Bytes <- EvenBytes
    EncodedBytes = 1
    PipelineBytes = 6
    QueueCapacity = 1
    PartitionCount = 1
    Policy = "Strict"
    Bucket <- SpreadBuckets
    CpuWorkers = 2
    InputReaders = 1
    IoWorkers = 0
    ComputeBatch = 1
    WriteBatch = 1
    Faults = {}
    Spurious = FALSE
PROPERTIES
    EveryChartWritten
CHECK_DEADLOCK FALSE
