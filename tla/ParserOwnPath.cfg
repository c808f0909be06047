CONSTANTS
    Schemas <- OwnPaths
    Texts <- TextsOf
SPECIFICATION Spec
INVARIANTS
    RoundTrip
CHECK_DEADLOCK FALSE
