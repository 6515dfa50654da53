CONSTANTS
  page = page
  page2 = page2
  chat = chat
  Outside = Outside
  NoTxn = NoTxn
  Txn = {1, 2}
  Target <- MCTarget
  Ops <- MCOps
  ReadScope <- MCReadScope
  EditImages <- MCEditImages
  MaxLaunches = 2
  MaxFaults = 1
  MaxEdits = 1
SPECIFICATION Spec
CHECK_DEADLOCK FALSE
INVARIANTS WriteAhead AppendOnce IntentReplayable OneAtATime OpenMeansDecided AnswerIsDurable CommitsOverWhatItRead
PROPERTIES EditsSurvive
