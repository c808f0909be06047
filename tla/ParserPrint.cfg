CONSTANTS
    Schemas <- Braces
    Texts <- TextsOf
SPECIFICATION Spec
INVARIANTS
    PrintsTree
CHECK_DEADLOCK FALSE
