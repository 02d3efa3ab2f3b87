CONSTANTS
  Tracks = {0, 1}
  Shapes <- MCShapes
  MaxBytes = 4
  Eof = Eof
  NoData = NoData

SPECIFICATION Spec

INVARIANTS
  IteratorInPlace
  NeverOutOfRange

PROPERTIES
  SeenTracksKept
  ImplementsByteStream

CHECK_DEADLOCK FALSE
