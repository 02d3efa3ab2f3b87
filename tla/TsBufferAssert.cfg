CONSTANTS
  Tracks = {0, 1}
  Shapes <- MCShapes
  MaxBytes = 4
  Eof = Eof
  NoData = NoData

SPECIFICATION Spec

INVARIANTS
  BlocksStillThere

CHECK_DEADLOCK FALSE
