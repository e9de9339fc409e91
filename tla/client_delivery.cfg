SPECIFICATION Spec
CONSTANTS
  Inits = {"connected", "refused", "nameless"}
  SyncRetries = 2
  QueueLimit = 1
  MaxNumber = 3
  MaxLives = 2
  MaxOutages = 1
  MaxFaults = 2
INVARIANTS TypeOK InOrder NoNeedlessRepeat
PROPERTIES LossesAreKnown NoWriteBeforeTransport ApiReturns QueueDrains
CHECK_DEADLOCK FALSE
