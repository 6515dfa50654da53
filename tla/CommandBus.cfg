SPECIFICATION Spec
CONSTANTS
  Clients = {u1, u2}
  Commands = {i1, i2}
  Capacity = 1
  Horizon = 1
  MaxTime = 2
  MaxBatches = 3
  MaxNested = 2
SYMMETRY Symmetry
INVARIANTS
  AtMostOnce
  RefusedOnlyWhenFull
  MirrorsCurrent
PROPERTIES
  StreamInOrder
CHECK_DEADLOCK FALSE
