SPECIFICATION FairSpec
CONSTANTS
  Modulus = 6
  WINDOW_SIZE = 2
  h1 = h1
  h2 = h2
  Data <- MCData
  Handles <- MCHandles
  Calls <- CallsBoth
  MaxCalls = 2
  MAX_DATA_LEN = 1
  BufferLens = {1}
  PeerStream <- Peer1
  Arriving = {"Reset", "Acknowledge", "Sequential"}
  SendFails = FALSE
  MaxBytes = 1
CHECK_DEADLOCK FALSE
PROPERTIES DroppedIsTold WorkerEnds ReadEnds
