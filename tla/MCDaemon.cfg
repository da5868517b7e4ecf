CONSTANTS
  Sessions = {s1, s2}
  Clients = {c1, c2, c3}
  s1 = s1
  s2 = s2
  c1 = c1
  c2 = c2
  c3 = c3
  Plans <- MCPlans
  None = None
  Signaled = {c3}
  Slots = 1
SPECIFICATION DaemonSpec
CHECK_DEADLOCK FALSE
INVARIANTS
  TypeOK
  ActiveHasOwner
  WaitersHaveTurn
  ListedTurnsEnd
  CanceledWasAsked
PROPERTIES
  ToldAfterRecorded
  ComesToRest
