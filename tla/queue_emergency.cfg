CONSTANTS
  Kinds <- FourKinds
  Configs <- AnyConfig
  SizeLimit = 3
  TimeTrigger = 1
  MaxPushes = 5
  MaxChanges = 1
  MaxWait = 2
SPECIFICATION Spec
CHECK_DEADLOCK FALSE
INVARIANT TypeOK
INVARIANT SizeIsExact
INVARIANT ArrivalOrder
PROPERTY LimitKept
PROPERTY PriorityProtected
PROPERTY StopsAtLimit
PROPERTY NoHastyRemoval
