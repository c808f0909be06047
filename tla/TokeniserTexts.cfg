CONSTANTS
    MaxLength = 6
SPECIFICATION Spec
INVARIANTS
    TypeOK
    Scanned
    TokensOfText
    LinesOfText
    FileWordsKept
    Splits
PROPERTIES
    Terminates
CHECK_DEADLOCK FALSE
