SPECIFICATION NiFairSpec
CONSTANTS
  MaxRequests = 2
  MaxRestarts = 1
INVARIANTS PayloadSound
PROPERTIES RequestEnds ModemHears
CHECK_DEADLOCK FALSE
