SPECIFICATION Spec
CONSTANTS
  NBuffers = 2
  AllocLen = 2
  Packets <- MCPackets
  decoder = decoder
  Word = 4
INVARIANTS
  BlocksOnlyIfNone
CHECK_DEADLOCK FALSE
