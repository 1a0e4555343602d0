SPECIFICATION PartsSpec
CONSTANTS
  Root = root
  Fibers = {root, f1, f2}
  Interpreted = {f2}
  None = None
  MaxDepth = 1
  f1 = f1
  t1 = t1
  f2 = f2
  j1 = j1
  j2 = j2
  FiberSet = {f1, f2}
  ThreadSet = {t1}
  Values = {v1, v2}
  Cap = 0
  Kinds = {"channel", "gate"}
  MaxCalls = 3
  MaxTries = 0
  Kids = {k1, k2}
  NoKid = NoKid
  MaxStrays = 1
  Joiners = {j1, j2}
  Nobody = Nobody
CHECK_DEADLOCK FALSE
INVARIANTS
  GroupKeepsChildren
  HandleKept
PROPERTIES
  ParkedCallsEnd
  GroupCallsEnd
  JoinsEnd
