SPECIFICATION Spec
CONSTANTS
  NThreads = 2
  Conns = {1}
  UdpSources = {}
  Cells = {c1, c2}
  NoCell = NoCell
  PoolSize = 1
  MaxQueue = 2
  HighMark = 3
  MaxPackets = 2
  MaxUnloads = 1
SYMMETRY CellSymmetry
CHECK_DEADLOCK FALSE
INVARIANTS
  UnloadQuiescent
