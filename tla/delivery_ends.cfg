CONSTANTS
  Listeners = {l1}
  MessageOf <- AllKinds
  BatchSize = 2
  LargeLen = 4
  HostLen = 1
  ErrorRoom = 1
  MaxSize = 0
  Retries = 1
  FlushAfter = 2
  FreedLens = {2}
  MaxNumber = 2
  Conns = {own}
  Own = own
  BacklogLimit = 0
  MaxFaults = 1
SPECIFICATION Spec
CHECK_DEADLOCK FALSE
INVARIANT TypeOK
INVARIANT CountNeverAbove
PROPERTY LossesAreKnown
PROPERTY NothingGetsStuck
PROPERTY StopReturns
