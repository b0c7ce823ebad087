SPECIFICATION RoutingSpec
CONSTANTS
  s1 = s1
  s2 = s2
  None = None
  Session <- MCSession
  MaxCalls = 0
  MaxQueue = 2
  MaxLog = 2
INVARIANT RoutingTypeOK
PROPERTY ImplementsRouter
CHECK_DEADLOCK FALSE
