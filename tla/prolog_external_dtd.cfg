SPECIFICATION Spec
CONSTANTS
    Docs <- RefusedDocs
    MaxChunk = 2
INVARIANT ExternalDtdRejected
