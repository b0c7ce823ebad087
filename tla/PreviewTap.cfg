SPECIFICATION FairSpec
CONSTANTS
  v1 = v1
  c2 = c2
  Client <- MCClient
  View <- MCView
  Cookie <- MCCookie
  Listener <- MCListener
  MaxFrames = 1
  MaxLives = 2
INVARIANT TypeOK
INVARIANT CookiesOwned
INVARIANT EntriesAreWatched
INVARIANT SubscribedIsBound
PROPERTY LossHasCause
PROPERTY DeadEventuallyRemoved
PROPERTY ImplementsListenerSet
CHECK_DEADLOCK FALSE
