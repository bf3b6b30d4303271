SPECIFICATION FairSpec
CONSTANTS
  a1 = a1
  a2 = a2
  l1 = l1
  l2 = l2
  d1 = d1
  None = None
  Schedule = {s1, s2}
  Label = {l1, l2}
  Agent = {a1, a2}
  Definition = {d1}
  Request <- Mixed
  Manager = {m1}
  WholeRow = FALSE
  DueLimit = 1
  MaxTime = 3
  MaxEdits = 2
  MaxErrors = 1
  MaxCrashes = 1
INVARIANTS HistoryOfOneDefinition EditsKept DueWithFirstTarget RunsOnce
PROPERTIES DeletedStaysDeleted EveryDueTimeIsHandled
CHECK_DEADLOCK FALSE
