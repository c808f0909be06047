CONSTANTS
    Schemas <- Scalars
    Texts <- TextsOf
SPECIFICATION Spec
INVARIANTS
    RoundTrip
CHECK_DEADLOCK FALSE
