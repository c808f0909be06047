CONSTANTS
    Schemas <- FlatSchemas
    Builds <- AllBuilds
SPECIFICATION FairSpec
INVARIANTS
    TypeOK
    ReadsInWriteOrder
    WholeGroup
    ElementsFit
PROPERTIES
    Usable
CHECK_DEADLOCK FALSE
