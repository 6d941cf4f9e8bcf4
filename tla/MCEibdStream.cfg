CONSTANTS
  B = 3
  Chunk = 4
  kMaxReadBufferSize = 13
  MaxSent = 3
  Messages <- SmallMessages
SPECIFICATION StreamFairSpec
INVARIANT BytesConserved
PROPERTY AllReceived
CHECK_DEADLOCK FALSE
