CONSTANTS
  MaxTurn = 2
  MaxSends <- MCSends
  Resets <- MCResets
  CancelAfter = 1
  LimitWaitMax = 1
  ResumeDelay = 1
  AckTimeout = 1
SPECIFICATION FairSpec
CHECK_DEADLOCK FALSE
INVARIANTS
  TypeOK
  AnswerOfOwnTurn
  NothingLeftRunning
  WaitingIsQuiet
  WaitWithinCap
  DeliveryRecorded
  CanceledOnRequest
PROPERTIES
  FirstStopNamesOutcome
  Implements
  TurnEnds
