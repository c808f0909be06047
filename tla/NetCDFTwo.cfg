SPECIFICATION Spec
CONSTANTS
  Pipe = {p1, p2}
  f1 = f1
  f2 = f2
  v1 = v1
  v2 = v2
  File <- MCFile
  Variable <- MCVariable
  Has <- MCHas
  MaxId = 2
  MaxValue = 1
  NoFile = NoFile
  Client = "any"
PROPERTY NotOpenIsRejected
