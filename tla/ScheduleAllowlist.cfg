SPECIFICATION Spec
CONSTANTS
  a1 = a1
  a2 = a2
  l1 = l1
  l2 = l2
  d1 = d1
  None = None
  Schedule = {s1}
  Label = {l1, l2}
  Agent = {a1, a2}
  Definition = {d1}
  Request <- OneTarget
  Manager = {m1}
  WholeRow = FALSE
  DueLimit = 1
  MaxTime = 4
  MaxEdits = 3
  MaxErrors = 0
  MaxCrashes = 0
INVARIANTS AllowlistStored
CHECK_DEADLOCK FALSE
