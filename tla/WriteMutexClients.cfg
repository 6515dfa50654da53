CONSTANTS
  Permit = {p1, p2, p3}
  NoPermit = NoPermit
  MaxSteps = 4
SPECIFICATION Spec
INVARIANTS NoLostWakeup FifoOrder StepsAreSerial
PROPERTY EveryCallGranted
CHECK_DEADLOCK FALSE
