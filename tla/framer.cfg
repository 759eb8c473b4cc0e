SPECIFICATION Spec
CONSTANTS
    RootName = "r"
    Prolog <- RootStart
    Docs <- FramerDocs
    MaxChunk = 3
INVARIANTS
    TypeOK
    NeededBytesKept
    DepthsFollowDocument
    CarryBounded
    OwnNamespacesCaptured
PROPERTY FramesRecords
