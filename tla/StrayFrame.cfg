SPECIFICATION Spec
CONSTANTS
  s1 = s1
  t1 = t1
  t2 = t2
  None = None
  Session <- MCSession
  Thread <- MCThread
  Main = t1
  MaxCalls = 1
  MaxQueue = 1
  MaxLives = 2
INVARIANT StrayDropped
CHECK_DEADLOCK FALSE
