CONSTANTS
  w1 = w1
  w2 = w2
  w3 = w3
  None = None
  Sockets <- MCSockets
  KeepAlive = TRUE
  MaxRecoveries = 1
CHECK_DEADLOCK FALSE
SPECIFICATION FairSpec
INVARIANTS OneSocket Watched AvailableIsReal
PROPERTY LostIsRetried
