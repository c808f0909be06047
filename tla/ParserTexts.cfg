CONSTANTS
    Schemas <- Valid
    Texts <- AllTexts
SPECIFICATION Spec
INVARIANTS
    TypeOK
    Scoped
    RoundTrip
    EqualIffSame
    PrintShowsTree
PROPERTIES
    DeclarationsKept
    Terminates
CHECK_DEADLOCK FALSE
