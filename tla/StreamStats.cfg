SPECIFICATION Spec
CONSTANTS
  K = 3
  N = 4
  Sims <- MCSims
  History = 1
  MaxGap = 4
  SeqSpace = 10
  Window = 2
  FECTest = TRUE
  Reconnects = TRUE
  Reach = 3
  MaxSlots = 14
  MaxTwice = 1
INVARIANTS TypeOK WindowTruthful LossBounded CountersAgree JudgedRight HistoryBounded
CHECK_DEADLOCK FALSE
