SPECIFICATION FairSpec
CONSTANTS
  c1 = c1
  c2 = c2
  c3 = c3
  Consumers <- ThreeConsumers
  MaxSize = 2
  MaxPackets = 6
INVARIANTS
  HoldsNewestRun
  DeliversInOrder
  Conservation
  NoLostWakeup
PROPERTIES
  ImplementsBuffer
  QueuedLeaves
  CloseReleasesAll
CHECK_DEADLOCK FALSE
