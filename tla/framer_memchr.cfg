SPECIFICATION JumpSpec
CONSTANTS
    RootName = "r"
    Prolog <- RootStart
    Docs <- JumpDocs
    MaxChunk = 3
INVARIANTS
    CarryBounded
    NothingLeftBehind
PROPERTY FramesRecords
