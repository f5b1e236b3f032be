CONSTANTS
  Handlers = {h1}
  NoHandler = NoHandler
  Acceptor = Acceptor
  Timer = Timer
  Reactors = {r1}
  NoThread = NoThread
  NManagers = 1
  LimitSends = FALSE
  MaxConns = 3
  MaxPosts = 1
SPECIFICATION Spec
INVARIANT DeliveredToOwn
CHECK_DEADLOCK FALSE
