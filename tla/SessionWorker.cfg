SPECIFICATION Spec
CONSTANTS
  K = 2
  N = 4
  GroupCount = 2
  SeqCount = 10
  QueueSize = 2
  MaxPackets = 6
INVARIANTS
  TypeOK
  ParityMatchesData
  SeqIncreases
  GroupNamesGeneration
PROPERTY ImplementsStream
CHECK_DEADLOCK FALSE
