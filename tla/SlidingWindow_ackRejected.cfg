SPECIFICATION Spec
CONSTANTS
  Modulus = 6
  WINDOW_SIZE = 2
  Data <- MCData
  StartNumbers <- MCStarts
  Stream <- MCStream7
  Lifetime = 4
  MaxInFlight = 2
  Resetters = {}
  MaxAcks = 1
  MaxUnsent = 1
  MaxUnread = 0
CHECK_DEADLOCK FALSE
PROPERTY NoSpuriousReset
