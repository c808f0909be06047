CONSTANTS
    Schemas <- Entries
    Texts <- TextsOf
SPECIFICATION Spec
INVARIANTS
    RoundTrip
CHECK_DEADLOCK FALSE
