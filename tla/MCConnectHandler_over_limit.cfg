CONSTANTS
  Handlers = {h1}
  NoHandler = NoHandler
  Acceptor = Acceptor
  Timer = Timer
  Reactors = {r1}
  NoThread = NoThread
  NManagers = 1
  LimitSends = TRUE
  MaxConns = 1
  MaxPosts = 1
SPECIFICATION FairSpec
PROPERTY OverLimitIsClosed
CHECK_DEADLOCK FALSE
