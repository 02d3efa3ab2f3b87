CONSTANTS
  MaxMedia = 1
  MaxRequests = 5
  NoSession = NoSession
  Session = Session

SPECIFICATION WfdFairSpec

INVARIANTS
  WfdAnsweredOnce
  WfdInStep
  WfdSuccessMeansPlaying

PROPERTIES
  WfdEventuallyAnswered

CHECK_DEADLOCK FALSE
