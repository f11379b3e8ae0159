SPECIFICATION FairSpec
CONSTANTS
  k1 = k1
  k2 = k2
  a1 = a1
  a2 = a2
  main = main
  deferred = deferred
  None = None
  Keys <- TwoKeys
  ControlAddrs <- OneAddr
  Closers <- OneCloser
  MaxSessions = 1
  QueueSize = 1
  MaxCreated = 2
  MaxBroadcasts = 1
PROPERTIES
  WorkersEnd
  SilentRemoved
CHECK_DEADLOCK FALSE
