SPECIFICATION Spec
CONSTANTS
  Modulus = 6
  WINDOW_SIZE = 2
  h1 = h1
  h2 = h2
  Data <- MCData
  Handles <- MCHandles
  Calls <- CallsFinishing
  MaxCalls = 1
  MAX_DATA_LEN = 1
  BufferLens = {1}
  PeerStream <- Peer3
  Arriving = {"Sequential"}
  SendFails = FALSE
  MaxBytes = 1
CHECK_DEADLOCK FALSE
INVARIANT ListenerNeverPanics
