SPECIFICATION ContextSpec
CONSTANTS
    StreamBatchRecords = 2
    StreamBatchBytes = 4
    StreamQueueCapacity = 1
    StreamWorkers = 2
    PoolThreads = 1
    MaxRecords = 4
    MaxChunks = 2
    Offset <- MixedSizes
    Prefixes = {"p", "q"}
    Uris = {"u", "v"}
    Undeclared = "none"
    Opened <- TwoLevels
    Around <- OnThePath
    Declares <- Redeclared
INVARIANTS
    TypeOK
    ExactlyOnce
    NothingLost
    OkMeansAll
    ErrDeliversDispatched
    PanicSurfaces
    PromptStop
    MemoryBound
    ContextOfBatch
    OwnUnlessRedeclared
PROPERTIES
    ContractHolds
