SPECIFICATION Spec
CONSTANTS
  k1 = k1
  k2 = k2
  a1 = a1
  a2 = a2
  main = main
  deferred = deferred
  None = None
  Keys <- TwoKeys
  ControlAddrs <- OneAddr
  Closers <- TwoClosers
  MaxSessions = 1
  QueueSize = 0
  MaxCreated = 2
  MaxBroadcasts = 2
SYMMETRY AddressSymmetry
INVARIANTS
  TypeOK
  CapacityRespected
  NothingAfterStop
  NoOrphan
  NoGhostInStats
  OneLateSend
  ClosedOnlyAfterCancel
CHECK_DEADLOCK FALSE
