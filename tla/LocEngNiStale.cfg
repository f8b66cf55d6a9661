SPECIFICATION NiSpec
CONSTANTS
  MaxRequests = 2
  MaxRestarts = 0
INVARIANT AnswerIsUsers
CHECK_DEADLOCK FALSE
