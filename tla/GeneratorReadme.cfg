CONSTANTS
    Schemas <- Simple
    Builds <- ReadmeBuild
SPECIFICATION Spec
INVARIANTS
    Compiles
CHECK_DEADLOCK FALSE
