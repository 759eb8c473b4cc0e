SPECIFICATION Spec
CONSTANTS
    RootName = "r"
    Prolog <- RootStart
    Docs <- ScannerDocs
INVARIANTS
    IndexExact
    TypeOK
    DepthsFollowDocument
