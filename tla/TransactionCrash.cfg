CONSTANTS
  page = page
  page2 = page2
  chat = chat
  Outside = Outside
  NoTxn = NoTxn
  Txn = {1, 2}
  Target <- MCTarget
  Ops <- MCOps
  ReadScope <- MCReadScope
  EditImages <- MCEditImages
  MaxLaunches = 3
  MaxFaults = 0
  MaxEdits = 0
SPECIFICATION Spec
CHECK_DEADLOCK FALSE
INVARIANTS BlockedForCause
PROPERTIES IntentCommits EveryCallerLeaves ImplementsAtomicStore
