CONSTANTS
  Handlers = {h1, h2}
  NoHandler = NoHandler
  Acceptor = Acceptor
  Timer = Timer
  Reactors = {r1}
  NoThread = NoThread
  NManagers = 2
  LimitSends = TRUE
  MaxConns = 2
  MaxPosts = 1
SPECIFICATION Spec
SYMMETRY HandlerSymmetry
INVARIANT TypeOK
INVARIANT CountIsOperations
INVARIANT TableIsCurrentWhileClean
INVARIANT SendsToListed
INVARIANT EndIsTold
CHECK_DEADLOCK FALSE
