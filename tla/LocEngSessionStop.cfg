CONSTANTS
  MaxCalls = 2
  MaxFixes = 0
  MaxCrashes = 1
SPECIFICATION Spec
INVARIANT StopHeeded
CHECK_DEADLOCK FALSE
