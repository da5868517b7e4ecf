CONSTANTS
  Proc = {p1, p2, p3}
  NoProc = NoProc
  MaxTurn = 2
SPECIFICATION Spec
CHECK_DEADLOCK FALSE
INVARIANT EndingIsItsTurns
