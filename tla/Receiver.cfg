CONSTANTS
  t1 = t1
  t2 = t2
  Tracks = {t1, t2}
  NoTrack = NoTrack
  Hole = Hole
  NoHeader = NoHeader
  Video = t1
  BufSize = 2
  SeqMod = 32
  Window = 3
  Sent = 7
  Ids <- MCIds
  Base <- MCBase
  Ahead <- MCAhead
  Losses <- MCLosses
  Dups = 0
  Seeks = 1
  Streams <- MCStreams
  Parsed <- MCParsed

SPECIFICATION ReceiverSpec

INVARIANTS
  WholeFrames
  HeadersIntact
  NalusAreUnits

PROPERTIES
  GapsFlagged
  OnlyBrokenFramesDropped

CHECK_DEADLOCK FALSE
