SPECIFICATION Spec
CONSTANTS
  Fibers = {f1, f2}
  Threads = {}
  None = None
  MaxTime = 1
  MaxWaits = 2
  MaxCancels = 1
CHECK_DEADLOCK FALSE
INVARIANT IoWaitersCountArmed
