SPECIFICATION Spec
CONSTANTS
  v1 = v1
  c2 = c2
  Client <- MCClient
  View <- MCView
  Cookie <- MCCookie
  Listener <- MCListener
  MaxFrames = 2
  MaxLives = 2
INVARIANT NoFreedCookieRead
CHECK_DEADLOCK FALSE
