SPECIFICATION Spec
CONSTANTS
  Root = root
  Fibers = {root, f1}
  Threads = {t1}
  Interpreted = {}
  None = None
  MaxOps = 3
  MaxResumes = 1
  MaxDepth = 1
CHECK_DEADLOCK FALSE
INVARIANT
  NoLostWake
