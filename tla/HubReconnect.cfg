SPECIFICATION Spec
CONSTANTS
  a1 = a1
  s1 = s1
  s2 = s2
  j1 = j1
  j2 = j2
  c1 = c1
  c2 = c2
  None = None
  Agent = {a1}
  Session = {s1, s2}
  SessionAgent <- Streams
  Job = {j1}
  CreatedAt <- Created
  Parent <- PinnedParent
  AgentOf <- PinnedAgentOf
  MaxInflight = 1
  ScanLimit = 1
  MaxErrors = 1
  MaxCrashes = 0
INVARIANTS AtMostOneDispatch
CHECK_DEADLOCK FALSE
