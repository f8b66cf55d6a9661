SPECIFICATION Spec
CONSTANTS
  Client = {c1, c2}
  NoClient = NoClient
  TicksPerSecond = 2
  MaxTime = 5
  MaxStarts = 2
PROPERTY NotEarly
CHECK_DEADLOCK FALSE
