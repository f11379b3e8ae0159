SPECIFICATION Spec
CONSTANTS
  K = 2
  N = 3
  None = None
  EncryptionModes = {FALSE}
  GroupCount = 2
  GroupTimeout = 1
  MaxDelay = 1
  MaxRepeats = 0
  Paced = TRUE
  MaxSessions = 1
  MaxSlots = 6
PROPERTY LossReportsTrue
