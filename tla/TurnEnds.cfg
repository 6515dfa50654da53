CONSTANTS
  Turn = {1}
  NoTurn = NoTurn
  MaxAttempts = 4
SPECIFICATION Spec
CHECK_DEADLOCK FALSE
PROPERTY EveryTurnEnds
