SPECIFICATION Spec
CONSTANTS
  Request = {r1, r2}
  Op <- AllOps
  None = None
INVARIANTS EditsAreSerial AlwaysAToken Applied OneTransport
CHECK_DEADLOCK FALSE
