SPECIFICATION FairSpec
CONSTANTS
  Modes = {TRUE, FALSE}
  Encrypted = TRUE
  K = 2
  N = 3
  GroupNums = {0, 1}
  Gens = {1, 2, 3}
  None = None
  Frames <- AnyFrames
  GroupTimeout = 1
INVARIANTS
  TypeOK
  RetainedIncomplete
  DisabledIsTransparent
PROPERTIES
  EarlyExitIsComplete
  GroupsExpire
