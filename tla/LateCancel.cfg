SPECIFICATION Spec
CONSTANTS
  s1 = s1
  s2 = s2
  t1 = t1
  t2 = t2
  None = None
  Session <- MCSessions
  Thread <- MCTwoThreads
  Method <- MCOperations
  InRange <- MCSessions
  Disciplined = TRUE
  Sent <- MCNone
  MaxCalls = 2
  MaxQueue = 2
INVARIANT InstalledForDuration
CHECK_DEADLOCK FALSE
