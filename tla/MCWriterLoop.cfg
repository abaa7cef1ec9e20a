SPECIFICATION FairSpec
CONSTANTS
  NBuffers = 2
  Frames = 4
  Audio = 2
  MaxQueue = 0
  NULL = NULL
INVARIANTS
  BuffersAccounted
  NoLostBufferWakeup
  BacklogBound
  BlockedOnlyWhenDrained
  StarvesForAReason
PROPERTIES
  EncodedIsWritten
  ExitsOrStarves
  WorkRunsOut
CHECK_DEADLOCK FALSE
