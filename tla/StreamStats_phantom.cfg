SPECIFICATION Spec
CONSTANTS
  K = 3
  N = 4
  Sims <- MCSims
  History = 1
  MaxGap = 4
  SeqSpace = 10
  Window = 2
  FECTest = FALSE
  Reconnects = FALSE
  Reach = 3
  MaxSlots = 8
  MaxTwice = 1
INVARIANT LossIsLoss
CHECK_DEADLOCK FALSE
