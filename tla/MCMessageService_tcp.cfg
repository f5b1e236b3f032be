SPECIFICATION Spec
CONSTANTS
  NThreads = 2
  Conns = {1, 3}
  UdpSources = {}
  Cells = {c1, c2, c3, c4, c5}
  NoCell = NoCell
  PoolSize = 1
  MaxQueue = 2
  HighMark = 2
  MaxPackets = 3
  MaxUnloads = 1
SYMMETRY CellSymmetry
CHECK_DEADLOCK FALSE
INVARIANTS
  TypeOK ServedInOrder OneThreadPerConnection AtMostOneStraggler OneHolder QueueBound
