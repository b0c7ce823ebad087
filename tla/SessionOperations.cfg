SPECIFICATION Spec
CONSTANTS
  s1 = s1
  s2 = s2
  t1 = t1
  t2 = t2
  None = None
  Session <- MCSessions
  Thread <- MCTwoThreads
  Method <- MCOperations
  InRange <- MCSessions
  Disciplined = FALSE
  Sent <- MCProgress
  MaxCalls = 2
  MaxQueue = 2
SYMMETRY MCSymmetry
INVARIANT ResultMatchesOperation
INVARIANT NoSilentReturn
INVARIANT ClosedNotInstalled
INVARIANT SlotIsOfOperation
PROPERTY NoNewCallToClosed
CHECK_DEADLOCK FALSE
