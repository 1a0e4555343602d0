SPECIFICATION Spec
CONSTANTS
  FiberSet = {f1, f2}
  ThreadSet = {t1, t2}
  Values = {v1, v2, v3, v4}
  None = None
  Cap = 2
  Kinds = {"channel"}
  MaxCalls = 6
  MaxTries = 1
  MaxStrays = 1
CHECK_DEADLOCK FALSE
SYMMETRY Symmetry
INVARIANTS
  NobodyStranded
  LinesExact
PROPERTIES
  FifoSpec
