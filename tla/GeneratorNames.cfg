CONSTANTS
    Schemas <- SameName
    Builds <- DefaultBuild
SPECIFICATION Spec
INVARIANTS
    Compiles
CHECK_DEADLOCK FALSE
