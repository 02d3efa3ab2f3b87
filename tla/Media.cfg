CONSTANTS
  MaxOpens = 3

SPECIFICATION FairSpec

INVARIANTS
  NullOnlyByCancel

PROPERTIES
  NoSuccessAfterClose
  InfoOfItsSource
  EveryOpenAnswered

CHECK_DEADLOCK FALSE
