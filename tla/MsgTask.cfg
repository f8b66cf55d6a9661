SPECIFICATION FairSpec
CONSTANTS
  Message = {m1, m2, m3}
  NoMessage = NoMessage
  Task = task
  MaxLength = 3
INVARIANTS DelegateShared NoLostWakeup TaskAlive FateKnown
PROPERTIES FifoSpec MessageHandled DestroyReturns
CHECK_DEADLOCK FALSE
