CONSTANTS
    Schemas <- Simple
    Builds <- NestedSpace
SPECIFICATION Spec
INVARIANTS
    Compiles
CHECK_DEADLOCK FALSE
