CONSTANTS
  MaxCalls = 3
  MaxFixes = 1
  MaxCrashes = 1
SPECIFICATION Spec
INVARIANTS SessionSound StatusSettles
PROPERTIES RestartResumes
CHECK_DEADLOCK FALSE
