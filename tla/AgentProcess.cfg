SPECIFICATION FairSpec
CONSTANTS
  Job = {j1, w1}
  WebJob = {w1}
  MaxSessions = 2
  RetryCap = 2
  MaxEvents = 1
  MaxWire = 3
  None = None
INVARIANTS JobsEndWithSession CancelReachesJob AnsweredOnce
PROPERTIES TriesAgain NothingLeft
CHECK_DEADLOCK FALSE
