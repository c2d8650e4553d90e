SPECIFICATION FairSpec
CONSTANTS
  Modulus = 8
  WINDOW_SIZE = 3
  Data <- MCData
  Establish = 1
  AcceptNum = 6
  Resetters = {"client", "server"}
CHECK_DEADLOCK FALSE
INVARIANTS TypeOK OnlyResetsBreak
PROPERTIES CleanDropIsComplete ErrorIsNoticed FinishReturnsInTime
