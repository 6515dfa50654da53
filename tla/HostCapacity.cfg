SPECIFICATION Spec
CONSTANTS
  Keys = {k1, k2, k3}
  Pages = {p1}
  Sizes = {s1}
  Resizes = {}
  Records = {1, 2, 3}
  Hosts = {1, 2}
  MaxGlobalHosts = 2
  QueueCapacity = 1
  SpareCapacity = 1
  MaxRestarts = 1
  PromptReap = FALSE
SYMMETRY KeySymmetry
INVARIANTS LiveWithinCap QueueServed OpenMeansMapped
