SPECIFICATION Spec
CONSTANTS
  Process = {p1, p2}
  NoProcess = NoProcess
  Turn = {t1, t2}
  NoTurn = NoTurn
  MaxLaunches = 2
  MaxFaults = 2
INVARIANT WritersHoldLease
CHECK_DEADLOCK FALSE
