CONSTANTS
  t1 = t1
  t2 = t2
  t3 = t3
  Tracks = {t1, t2, t3}
  NoTrack = NoTrack
  Hole = Hole
  SeqMod = 16
  Window = 3
  Sent = 6
  Ids <- MCIds
  Base <- WrapBase
  Ahead <- AheadOrderly
  Losses <- LossesOrderly
  Dups = 0

SPECIFICATION FairReorderSpec

INVARIANTS
  NextRequired

PROPERTIES
  ImplementsOrderedDelivery
  AllDelivered
