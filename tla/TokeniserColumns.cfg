CONSTANTS
    MaxLength = 2
SPECIFICATION Spec
INVARIANTS
    ColumnAtEnd
CHECK_DEADLOCK FALSE
