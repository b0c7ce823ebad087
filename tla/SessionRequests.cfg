SPECIFICATION Spec
CONSTANTS
  s1 = s1
  s2 = s2
  t1 = t1
  t2 = t2
  None = None
  Session <- MCSessions
  Thread <- MCTwoThreads
  Method <- AllMethods
  InRange <- MCOnlyFirst
  Disciplined = FALSE
  Sent <- MCAllEvents
  MaxCalls = 1
  MaxQueue = 2
INVARIANT TypeOK
INVARIANT UserSetRequestsAnswered
CHECK_DEADLOCK FALSE
