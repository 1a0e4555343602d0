SPECIFICATION PartsSpec
CONSTANTS
  Precision = 2
  MaxScale = 5
  Coeffs = {0, 1, 3, 5, 9, 10, 45, 50, 95, 99}
  Half = 4
  HalfBits = 2
  WideLimbs = 4
  Edges = {0, 1, 6, 7, 8, 9, 15}
  WideEdges = {0, 1, 15}
  Smalls = {0, 1, 3, 10, 15}
  Bytes = {31, 34, 35, 92, 128, 143, 144, 159, 160, 193, 194, 224, 237, 240, 244}
  MaxLen = 4
  Word = 3
  Bits = 11
  Numbers = {0, 1, 9, 10, 99, 100, 101, 999, 1000, 1023, 1024}
  Width = 4
  Fill = 0
  MaxDepth = 9
  Streams = {1, 3}
  HeaderLen = 2
  PrefixCap = 2
  PrefaceLen = 1
  MaxWire = 1
  MaxHeaders = 2
  Window = 1
  MaxWindow = 3
  MaxFrames = 3
  MaxOpen = 1
  MaxPiece = 3
  MaxBody = 2
  MaxFrame = 2
  MaxErrors = 1
  Spans = {"url", "value", "body"}
  Pauses = {"value", "."}
  MaxMessage = 3
  Deflate = {TRUE, FALSE}
  MaxSent = 1
  Backends = {"epoll", "kqueue", "wsapoll"}
  Socks = {s1, s2}
  Tokens = {1, 2}
  PeerStates = {{"room"}, {"data"}, {"data", "room", "fin"}, {"room", "fin"}}
  MaxEvents = {1, 2}
  Kinds = {"stream", "datagram", "listener"}
  Limits = {0, 2}
  MaxStolen = 2
  MaxData = 3
  Calls = {"connect", "listen", "bind"}
  Lists = {0, 1, 2, 3}
  Limit = 2
  BufMax = 2
  Chunk = 2
  Wanted = {1, 3}
  Nobody = Nobody
  MaxSize = 2
  MaxCalls = 4
  FileThreads = {"main", "worker"}
  Main = "main"
  Handles = {1, 2}
  Nums = {1, 2}
  Contents <- FileContents
  Payloads <- FilePayloads
  Positions <- FilePositions
  FdNums = {3, 4, 5}
  Heads <- StreamHeads
  Bodies <- StreamBodies
  KernelRoom = 3
CHECK_DEADLOCK FALSE
INVARIANTS
  JsonFaithful
  StreamsFaithful
  ReportsFaithful
  DecimalsExact
  Http2Faithful
  SocketsFaithful
  FilesRight
