SPECIFICATION Spec
CONSTANTS
  a1 = a1
  a2 = a2
  Nil = Nil
  MaxPort = 4
  Default <- CodeDefaults
  Agent = {a1, a2}
  Argument = {"protocol", "port", "method", "type", "count", "max_hops", "max_hop"}
  Value = {"icmp", "tcp", "GET", "HEAD", "A", "AAAA", "CNAME", "MX", "TXT", "NS"}
  AgentChoice <- Agents
  ConfigChoice <- Configs
  Scope <- Scopes
  Request <- Requests
  MaxEdits = 1
INVARIANTS PoliciesAreConjunction CreatedIsAllowed ShownIsAccepted AgentAgrees
CHECK_DEADLOCK FALSE
