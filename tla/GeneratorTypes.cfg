CONSTANTS
    Schemas <- OtherTypes
    Builds <- DefaultBuild
SPECIFICATION Spec
INVARIANTS
    ElementsFit
CHECK_DEADLOCK FALSE
