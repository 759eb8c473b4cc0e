SPECIFICATION Spec
CONSTANTS
    StreamBatchRecords = 1
    StreamBatchBytes = 100
    StreamQueueCapacity = 1
    StreamWorkers = 2
    PoolThreads = 1
    MaxRecords = 3
    MaxChunks = 1
    Offset <- SmallSizes
INVARIANTS
    AtMostBatchInHand
