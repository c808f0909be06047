CONSTANTS
    Arrays <- MCArrays
    Type <- MCType
    Width <- MCWidth
    FileSizes <- MCFileSizes
    Path <- MCPath
    MaxInt = 12
    InPlace = 33
    Garbage = Garbage
SPECIFICATION Spec
INVARIANTS
    TypeOK
    RoundTrip
    ElementsKept
    PathKept
    FileRoundTrip
CHECK_DEADLOCK FALSE
