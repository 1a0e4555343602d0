SPECIFICATION FairSpec
CONSTANTS
  Fibers = {f1}
  Threads = {t1}
  None = None
  MaxTime = 1
  MaxWaits = 1
  MaxCancels = 0
CHECK_DEADLOCK FALSE
PROPERTY DeadlockReported
