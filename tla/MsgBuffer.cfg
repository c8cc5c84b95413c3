CONSTANTS
  kBufferOffset = 2
  ExtLen = 2
  InitLens = {1, 2, 3}
  Byte = {CR, LF}
  CR = CR
  LF = LF
  Chunks <- ChunksMC
  MaxBytes = 4
SPECIFICATION Spec
INVARIANTS InBounds Contents
CHECK_DEADLOCK FALSE
