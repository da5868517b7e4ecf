CONSTANTS
  Proc = {p1, p2}
  NoProc = NoProc
  MaxTurn = 2
SPECIFICATION FairSpec
CHECK_DEADLOCK FALSE
PROPERTY LostTurnEnds
