SPECIFICATION Spec
CONSTANTS
  Inits = {"connected", "refused", "foreign", "nameless"}
  SyncRetries = 2
  QueueLimit = 1
  MaxNumber = 2
  MaxLives = 1
  MaxOutages = 0
  MaxFaults = 0
PROPERTY ShutdownIsSafe
CHECK_DEADLOCK FALSE
