SPECIFICATION FairSpec
CONSTANTS
  NBuffers = 2
  AllocLen = 2
  Packets <- MCPackets
  decoder = decoder
  Word = 4
INVARIANTS
  TypeOK
  ChosenIsNotInFlight
  CutIsLossless
  StuckForAReason
PROPERTIES
  DoneOrFlagClearedLate
CHECK_DEADLOCK FALSE
