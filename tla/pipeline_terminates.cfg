SPECIFICATION FairSpec
CONSTANTS
    StreamBatchRecords = 0
    StreamBatchBytes = 0
    StreamQueueCapacity = 0
    StreamWorkers = 0
    PoolThreads = 2
    MaxRecords = 7
    MaxChunks = 2
    Offset <- SmallSizes
PROPERTIES
    Termination
