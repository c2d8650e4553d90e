SPECIFICATION Spec
CONSTANTS
  Modulus = 7
  WINDOW_SIZE = 3
  Data <- MCData
  StartNumbers <- MCStarts
  Stream <- MCStream5
  Lifetime = 4
  MaxInFlight = 2
  Resetters = {"snd"}
  MaxAcks = 1
  MaxUnsent = 1
  MaxUnread = 0
CHECK_DEADLOCK FALSE
INVARIANTS TypeOK InOrderDelivery UnreceivedIsHeld NoPanic IInv
PROPERTIES FinishConfirmed ImplementsFifo
