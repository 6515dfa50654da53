SPECIFICATION Spec
CONSTANTS
  Keys = {k1}
  Pages = {p1, p2}
  Sizes = {s1}
  Resizes = {s2}
  Records = {1, 2}
  Hosts = {1, 2}
  MaxGlobalHosts = 2
  QueueCapacity = 1
  SpareCapacity = 2
  MaxRestarts = 1
  PromptReap = TRUE
INVARIANTS SwitchNotLost BufferedResizeKept
PROPERTIES EveryCloseEnds
