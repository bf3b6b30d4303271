SPECIFICATION FairSpec
CONSTANTS
  None = None
  Writer = {w1, w2}
  Client = {c1}
  Capacity = 1
  MaxEvents = 2
  MaxErrors = 1
INVARIANTS NothingMissed InWriterOrder NoSendOnClosed
PROPERTIES Delivered Released
CHECK_DEADLOCK FALSE
