SPECIFICATION Spec
CONSTANTS
    RootName = "r"
    Prolog <- RootStart
    Docs <- FramerDocs
    MaxChunk = 3
INVARIANT AncestorNamespacesCorrect
