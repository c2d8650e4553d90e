SPECIFICATION FairSpec
CONSTANTS
  Modulus = 8
  WINDOW_SIZE = 4
  Data <- MCData
  StartNumbers <- MCStarts
  Stream <- MCStream2
  Lifetime = 4
  MaxInFlight = 3
  Resetters = {}
  MaxAcks = 3
  MaxUnsent = 2
  MaxUnread = 1
CHECK_DEADLOCK FALSE
PROPERTIES NoSpuriousReset EventuallyReceived FirstFinishReturns
