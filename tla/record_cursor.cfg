SPECIFICATION Spec
CONSTANTS
    Sources <- SourceSet
    Shared <- SharedEntities
INVARIANTS
    TypeOK
    EventsExact
    LostOnlyBehindErrors
    StuckOnlyAtEmptyKey
    AttrsAgree
PROPERTY ReachesEnd
