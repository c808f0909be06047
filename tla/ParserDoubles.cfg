CONSTANTS
    Schemas <- Doubles
    Texts <- TextsOf
SPECIFICATION Spec
INVARIANTS
    RoundTrip
CHECK_DEADLOCK FALSE
