CONSTANTS
    Arrays <- MCArrays
    Type <- MCType
    Width <- MCWidth
    FileSizes <- MCFileSizes
    Path <- MCPath
    MaxInt = 12
    InPlace = 33
    Garbage = Garbage
SPECIFICATION Spec
INVARIANTS
    FileSupportsND
CHECK_DEADLOCK FALSE
