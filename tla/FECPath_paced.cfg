SPECIFICATION Spec
CONSTANTS
  K = 2
  N = 3
  None = None
  EncryptionModes = {TRUE, FALSE}
  GroupCount = 1
  GroupTimeout = 1
  MaxDelay = 0
  MaxRepeats = 1
  Paced = TRUE
  MaxSessions = 2
  MaxSlots = 5
INVARIANTS
  TypeOK
  Genuine
  DataForwarded
  LostRecovered
