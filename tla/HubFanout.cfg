SPECIFICATION Spec
CONSTANTS
  a1 = a1
  s1 = s1
  s2 = s2
  j1 = j1
  j2 = j2
  c1 = c1
  c2 = c2
  None = None
  Agent = {a1}
  Session = {s1}
  SessionAgent <- Streams
  Job = {j1, c1, c2}
  CreatedAt <- Created
  Parent <- FanoutParent
  AgentOf <- FanoutAgentOf
  MaxInflight = 1
  ScanLimit = 3
  MaxErrors = 0
  MaxCrashes = 0
INVARIANTS SuccessHasEvidence ParentAfterChildren FinalAfterTerminal
SYMMETRY Siblings
CHECK_DEADLOCK FALSE
