SPECIFICATION FairSpec
CONSTANTS
  Client = {c1, c2}
  NoClient = NoClient
  TicksPerSecond = 2
  MaxTime = 5
  MaxStarts = 2
INVARIANTS TimersSound LockShared SoonestArmed
PROPERTIES TimerEnds
CHECK_DEADLOCK FALSE
