SPECIFICATION Spec
CONSTANTS
  Process = {p1, p2}
  NoProcess = NoProcess
  Turn = {t1, t2}
  NoTurn = NoTurn
  MaxLaunches = 4
  MaxFaults = 2
INVARIANTS OneTerminalRecord IntendedIsNotInterrupted ReadyIsSettled
CHECK_DEADLOCK FALSE
