SPECIFICATION FairSpec
CONSTANTS
  Fibers = {f1, f2}
  Threads = {t1}
  None = None
  MaxTime = 1
  MaxWaits = 3
  MaxCancels = 1
CHECK_DEADLOCK FALSE
INVARIANTS
  WaitsAccounted
  KickNotLost
  ReportIsDeadlock
PROPERTIES
  Served
