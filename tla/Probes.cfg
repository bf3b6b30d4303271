SPECIFICATION Spec
CONSTANTS
  Nil = Nil
  MaxPort = 4
  Default <- Defaults
  Job <- Jobs
INVARIANTS NotCutShort  EndsAtTarget EndsInTime
