CONSTANTS
  Tracks = {0, 1}
  NoTrack = NoTrack
  Hole = Hole
  SeqMod = 4
  Window = 1
  Ids = {0}
  Base <- MCBase
  MaxOpens = 3
  SDPs <- MCSDPs

SPECIFICATION DemuxSpec

INVARIANTS
  ReadyInPlace
  SampleHasStream

CHECK_DEADLOCK FALSE
