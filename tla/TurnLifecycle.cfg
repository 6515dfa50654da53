CONSTANTS
  Turn = {1, 2}
  NoTurn = NoTurn
  MaxAttempts = 2
SPECIFICATION Safe
CHECK_DEADLOCK FALSE
INVARIANTS SlotFollowsPhase AgentIsGone CancelPreventsCommit
PROPERTIES ProgressIsCurrent ImplementsTurnContract
