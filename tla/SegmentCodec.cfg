SPECIFICATION Spec
CONSTANTS
  Byte <- MCByte
  MAX_SEGMENT_LEN = 4
INVARIANTS OnlyEncodingsAccepted EncodingsAreRead
