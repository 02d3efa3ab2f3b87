CONSTANTS
  MaxMedia = 3
  MaxRequests = 2
  NoSession = NoSession
  Session = Session

SPECIFICATION FairSpec

INVARIANTS
  AnsweredOnce
  InStep
  LegalDialogue
  SuccessMeansPlaying

PROPERTIES
  ImplementsOpenOnce
  EventuallyAnswered

CHECK_DEADLOCK FALSE
