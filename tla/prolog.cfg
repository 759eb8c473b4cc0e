SPECIFICATION Spec
CONSTANTS
    Docs <- PrologDocs
    MaxChunk = 2
INVARIANTS
    VerdictFinal
    DecidesAtOnce
    PrologExact
    PrologsAgree
