SPECIFICATION FairSpec
CONSTANTS
  Commands = {a, b}
  NoCommand = NoCommand
  TimeoutCount = 2
  CheckTimes = {1}
  StopTimes = {1, 2}
  Start = 2
  MaxTime = 5
  MaxResets = 1
  MaxMisreads = 1
CHECK_DEADLOCK FALSE
INVARIANTS
  TypeOK RingHoldsLates OneBanEach
PROPERTIES
  BannedWhenEarned BannedStaysOut BanEnds
