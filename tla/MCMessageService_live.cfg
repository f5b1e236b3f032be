SPECIFICATION FairSpec
CONSTANTS
  NThreads = 2
  Conns = {1, 3}
  UdpSources = {}
  Cells = {c1, c2, c3}
  NoCell = NoCell
  PoolSize = 1
  MaxQueue = 6
  HighMark = 6
  MaxPackets = 2
  MaxUnloads = 1
CHECK_DEADLOCK FALSE
PROPERTIES
  UnloadReturns HandledEventually ImplementsChannels
INVARIANTS
  NothingLost
