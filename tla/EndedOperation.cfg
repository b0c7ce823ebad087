SPECIFICATION Spec
CONSTANTS
  s1 = s1
  s2 = s2
  t1 = t1
  t2 = t2
  None = None
  Session <- MCSessions
  Thread <- MCOneThread
  Method <- MCAuthenticate
  InRange <- MCSessions
  Disciplined = TRUE
  Sent <- MCVerdicts
  MaxCalls = 2
  MaxQueue = 2
INVARIANT EndedOpReachesNoOther
CHECK_DEADLOCK FALSE
