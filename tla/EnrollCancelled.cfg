SPECIFICATION FairSpec
CONSTANTS
  s1 = s1
  s2 = s2
  t1 = t1
  t2 = t2
  None = None
  Session <- MCSessions
  Thread <- MCOneThread
  Method <- MCEnroll
  InRange <- MCSessions
  Disciplined = TRUE
  Sent <- MCNone
  MaxCalls = 1
  MaxQueue = 2
PROPERTY EnrollConcludes
CHECK_DEADLOCK FALSE
