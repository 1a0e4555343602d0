SPECIFICATION PartsSpec
CONSTANTS
  Nothing = Nothing
  Obj = {a, b, c}
  Fin = {a}
  Budget = 3
  SelfTouch = FALSE
  MaxEdges = 3
  Threads = {t1, t2, t3}
  MaxWalks = 2
  MaxRefs = 2
  MaxHandles = 1
  Referents <- WeakReferents
  None = None
  Hash <- WeakHash
  FirstCap = 4
  wa = wa
  wb = wb
  wc = wc
  wd = wd
  LinearMax = 2
  FirstIcap = 4
  Word = 2
  Reserves = {4}
  Reentrant = FALSE
  e1 = e1
  e2 = e2
  e3 = e3
  e4 = e4
  b1 = b1
  b2 = b2
  b3 = b3
  NoElem = NoElem
  MaxLen = 4
  MaxStore = 2
  Base = 2
  Crossover = 1
CHECK_DEADLOCK FALSE
SYMMETRY BoxesAlike
INVARIANTS
  CollectionExact
  SweepSafe
  ContainersExact
  RegistryExact
  PayloadsOwned
  CallsChecked
PROPERTIES
  WeakExact
