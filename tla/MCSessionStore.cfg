CONSTANTS
  Proc = {p1, p2, p3}
  NoProc = NoProc
  MaxTurn = 2
SPECIFICATION Spec
SYMMETRY Symmetry
CHECK_DEADLOCK FALSE
INVARIANTS
  TypeOK
  TimelyAnswerOfItsTurn
  SucceededAnswerKept
  OneDriver
  NoWholeOneShot
  DeliveredOnce
PROPERTIES
  Implements
  TimelyUnknown
  DeletedForGood
