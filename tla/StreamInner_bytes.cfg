SPECIFICATION Spec
CONSTANTS
  Modulus = 6
  WINDOW_SIZE = 2
  h1 = h1
  h2 = h2
  Data <- MCData
  Handles <- MCHandles
  Calls <- CallsBytes
  MaxCalls = 2
  MAX_DATA_LEN = 3
  BufferLens = {2}
  PeerStream <- PeerBytes
  Arriving = {"Sequential"}
  SendFails = FALSE
  MaxBytes = 8
CHECK_DEADLOCK FALSE
INVARIANTS WrittenInOrder ReadInOrder NothingAfterFinish
