SPECIFICATION FairSpec
CONSTANTS
  Modulus = 8
  WINDOW_SIZE = 3
  Data <- MCData
  Establish = 1
  AcceptNum = 6
  Resetters = {}
CHECK_DEADLOCK FALSE
PROPERTY FinishWriteReturns
