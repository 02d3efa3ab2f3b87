CONSTANTS
  t1 = t1
  t2 = t2
  Tracks = {t1, t2}
  NoTrack = NoTrack
  Hole = Hole
  SeqMod = 6
  Window = 2
  Ids = {0, 1}
  Base <- MCBase

SPECIFICATION Spec

INVARIANTS
  TypeOK
  Aligned
  OneLap
  DrainFirst

PROPERTIES
  NothingDiscarded
  ReturnsRequiredOrLate
  UndefinedOnlyBySeek
