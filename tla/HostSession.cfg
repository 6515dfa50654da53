SPECIFICATION Spec
CONSTANTS
  Pages = {p1, p2}
  FirstPage = p1
  NoPage = NoPage
  Ids = {1, 2, 3}
  Capacity = 2
  Unresponsive = 2
  Hostile = TRUE
INVARIANTS
  NoFalseViolation
  SidesAgree
  NothingOutlives
PROPERTIES
  EverythingReturns
  ImplementsContract
