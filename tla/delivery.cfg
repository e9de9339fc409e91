CONSTANTS
  Listeners = {l1}
  MessageOf <- TwoSmall
  BatchSize = 2
  LargeLen = 4
  HostLen = 1
  ErrorRoom = 3
  MaxSize = 0
  Retries = 1
  FlushAfter = 2
  FreedLens = {0, 2}
  MaxNumber = 2
  Conns = {own, other}
  Own = own
  BacklogLimit = 1
  MaxFaults = 2
SPECIFICATION Spec
CHECK_DEADLOCK FALSE
INVARIANT StoredInOrderOnce
