CONSTANTS
    Schemas <- DeepSchemas
    Builds <- DefaultBuild
SPECIFICATION Spec
INVARIANTS
    Compiles
CHECK_DEADLOCK FALSE
