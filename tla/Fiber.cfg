SPECIFICATION Spec
CONSTANTS
  Root = root
  Fibers = {root, f1, f2}
  Threads = {t1}
  Interpreted = {f2}
  None = None
  MaxOps = 3
  MaxResumes = 1
  MaxDepth = 1
CHECK_DEADLOCK FALSE
INVARIANTS
  TypeOK
  QueuesSound
  JoinerNotStranded
  CancelSound
  PooledUnreachable
PROPERTIES
  TokenSpec
