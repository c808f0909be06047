CONSTANTS
    Schemas <- EarlyAttributes
    Texts <- TextsOf
SPECIFICATION Spec
INVARIANTS
    RoundTrip
CHECK_DEADLOCK FALSE
