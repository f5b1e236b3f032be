SPECIFICATION Spec
CONSTANTS
  x1 = x1
  x2 = x2
  y = y
  X = X
  Y = Y
  go = go
  stop = stop
  Threads = {t1, t2}
  Commands = {go, stop}
  Files = {x1, x2, y}
  NameOf <- MCNameOf
  CommandsOf <- MCCommandsOf
  NoName = NoName
  MaxLoads = 3
SYMMETRY ThreadSymmetry
CHECK_DEADLOCK FALSE
INVARIANTS
  TypeOK TablesAgree RegisteredOnce CallsLoaded
PROPERTIES
  HeardByAll
