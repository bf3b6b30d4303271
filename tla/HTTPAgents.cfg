SPECIFICATION FairSpec
CONSTANTS
  MaxLoops = 3
  MaxRequests = 2
  Job = {j1}
  Child = {j1}
  None = None
  MaxInflight = 1
  Attempts = 2
  MaxFlaps = 1
INVARIANTS EventsOfOneAttempt OneCaller LoopsAsConfigured
  
CHECK_DEADLOCK FALSE
