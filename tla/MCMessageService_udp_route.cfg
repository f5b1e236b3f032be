SPECIFICATION Spec
CONSTANTS
  NThreads = 2
  Conns = {1}
  UdpSources = {u1}
  Cells = {c1, c2, c3, c4}
  NoCell = NoCell
  PoolSize = 1
  MaxQueue = 2
  HighMark = 3
  MaxPackets = 3
  MaxUnloads = 0
SYMMETRY CellSymmetry
CHECK_DEADLOCK FALSE
INVARIANTS
  OneThreadPerConnection
