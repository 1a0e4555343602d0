SPECIFICATION PartsSpec
CONSTANTS
  Pollers = {p1, p2}
  Threads = {t1, t2}
  Slots = 1
  PipeCap = 1
  PipeSize = 1
  Jobs <- ChildJobs
  GenSpan = 8
  Nums = {1, 2}
  Timeouts = {0, 2, 9}
  Forever = 9
  t1 = t1
  t2 = t2
  p1 = p1
  p2 = p2
  Waiters = {w1, w2}
  Writers = {t1}
  LotCells = {c1, c2}
  FutexCells = {c3}
  NoCell = NoCell
  MaxStores = 2
  r1 = r1
  r2 = r2
  Runners = {r1, r2}
  MaxOutput = 1
  Names = {"a"}
  Default = "default"
  FirstCap = 2
  MaxMessage = 1
  MaxBytes = 2
  Talkers = {"client"}
  Hellos <- SessionHellos
  Protocols <- SessionProtocols
  Backends <- SessionBackends
  Producers = {p1, p2}
  Stoppers = {s1}
  Capacity = 1
  QueueCapacity = 2
  MaxRecords = 3
  Conns = {c1, c2}
  NoConn = NoConn
  MaxQueue = 2
  MaxOps = 1
  Main = Main
  Worker = Worker
  Sigs = {2, 15}
  Sources = {s1, s2}
  MaxRaised = 2
CHECK_DEADLOCK FALSE
INVARIANTS
  NobodySleepsThrough
  WakesArrive
  RunsClean
  PumpFaithful
  RecordsKept
  SignalsKept
  TlsObjectsKept
PROPERTIES
  WaitsEnd
