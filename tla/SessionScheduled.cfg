SPECIFICATION FairSpec
CONSTANTS
  s1 = s1
  s2 = s2
  t1 = t1
  t2 = t2
  None = None
  Session <- MCSessions
  Thread <- MCOneThread
  Method <- MCReported
  InRange <- MCSessions
  Disciplined = TRUE
  Sent <- MCVerdicts
  MaxCalls = 2
  MaxQueue = 3
INVARIANT InstalledForDuration
INVARIANT ReportUnderway
PROPERTY StartsForItsUser
PROPERTY AuthenticateConcludes
PROPERTY UncancelledEnrollConcludes
CHECK_DEADLOCK FALSE
