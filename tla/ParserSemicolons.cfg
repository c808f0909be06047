CONSTANTS
    Schemas <- OptionalSemicolons
    Texts <- TextsOf
SPECIFICATION Spec
INVARIANTS
    RoundTrip
CHECK_DEADLOCK FALSE
