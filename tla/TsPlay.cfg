SPECIFICATION Spec
CONSTANTS
  Files <- MCFiles
  Sizes <- MCSizes
  M2ts = 4
  Prefix = 1
  Chunk = 4
  MaxJumps = 1
  Carousel <- MCCarousel
  Cells = 5
  ShortHead = 2
  LongHead = 3
  Counter = 3
  MaxVersion = 1
  MaxFaults = 2
  MaxRestarts = 1
  PcrFiles <- MCPcrFiles
  PcrMax = 1000
  Second = 10
  Needed = 3
  RefOffset = 0
  Shifts = {7}
  MaxSeeks = 2
  ClockMax = 2000
  Sec = 10
  Window = 3
  WindowTime = 20
  Weight = 4
  Threshold = 10
  WrapThreshold = 4
  FirstClock = {0, 1985, 1995}
  Step = 4
  Jitters = {0, 3}
  Reorders <- MCReorders
  Jumps <- MCJumps
  MaxClock = 20
  MaxResets = 1
  Pats <- MCPats
  Pmts <- MCPmts
  Requests <- MCRequests
  Updating = FALSE
  MaxSenders = 4
  MaxStops = 1
  TsFiles <- MCTsFiles
  Video = 1
  Sparse = {3}
  Back = 4
  GapCheck = 2
  GapMargin = 1
  MaxLost = 2
  MaxTsSeeks = 2
  IoFiles <- MCIoFiles
  Sources <- MCSources
  HeadLen = 5
  TailLen = 3
  Enough = 2
  Stride = 2
  PcrCap = 6
  MaxIoSeeks = 2
  CapsPrograms <- MCCapsPrograms
  CapsModes <- MCCapsModes
  MaxPrograms = 4
  Pictures <- MCPictures
  PacketSizes = {5, 7, 19}
  Upstreams <- MCUpstreams
  MaxQueries = 2
INVARIANTS InputTrue ClockTrue PadsTrue PlayTrue
PROPERTIES OffsetsMove SectionsOnce PadsHandOver
CHECK_DEADLOCK FALSE
