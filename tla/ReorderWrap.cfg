CONSTANTS
  t1 = t1
  t2 = t2
  t3 = t3
  Tracks = {t1, t2}
  NoTrack = NoTrack
  Hole = Hole
  SeqMod = 16
  Window = 2
  Sent = 4
  Ids <- MCIds
  Base <- WrapBase
  Ahead <- AheadOne
  Losses <- NoLosses
  Dups = 0

SPECIFICATION ReorderSpec

INVARIANTS
  NextRequired
