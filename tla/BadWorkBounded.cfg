CONSTANTS
  MaxTurn = 2
  MaxSends <- MCSends
  Resets <- MCResets
  CancelAfter = 1
  LimitWaitMax = 1
  ResumeDelay = 1
  AckTimeout = 1
SPECIFICATION Spec
CHECK_DEADLOCK FALSE
INVARIANT WorkBounded
