CONSTANTS
  t1 = t1
  t2 = t2
  t3 = t3
  Tracks = {t1, t2}
  NoTrack = NoTrack
  Hole = Hole
  SeqMod = 16
  Window = 2
  Sent = 5
  Ids <- MCIds
  Base <- NoWrapBase
  Ahead <- AheadExcess
  Losses <- OneLoss
  Dups = 1

SPECIFICATION ReorderSpec

INVARIANTS
  NothingLost

PROPERTIES
  FlagMeansMissing
  OutOfOrderOnlyBeyondWindow
