CONSTANTS
  Handlers = {h1}
  NoHandler = NoHandler
  Acceptor = Acceptor
  Timer = Timer
  Reactors = {r1}
  NoThread = NoThread
  NManagers = 1
  LimitSends = FALSE
  MaxConns = 1
  MaxPosts = 0
SPECIFICATION FairSpec
PROPERTY AskedIsClosed
CHECK_DEADLOCK FALSE
