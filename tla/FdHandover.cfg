SPECIFICATION FairSpec
CONSTANTS
  NSockets = 7
  NWorkers = 2
  Tasks = {t1}
  PendingFdLimit = 2
  None = None
INVARIANTS OnePlace QueueAndFlag IdleHasNoSocket
PROPERTIES WaitingMeetsIdle
CHECK_DEADLOCK FALSE
