SPECIFICATION Spec
CONSTANTS
  Keys = {k1}
  Pages = {p1, p2}
  Sizes = {s1}
  Resizes = {s2}
  Records = {1, 2}
  Hosts = {1, 2, 3}
  MaxGlobalHosts = 1
  QueueCapacity = 1
  SpareCapacity = 0
  MaxRestarts = 1
  PromptReap = FALSE
PROPERTIES OwnFailureOnly
