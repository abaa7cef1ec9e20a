SPECIFICATION Spec
CONSTANTS
  Videos = 2
  Audios = 1
  MaxQueue = 0
  NInBuffers = 2
  PipeRoom = 1
  NOutBuffers = 1
INVARIANTS
  AllVideoFed
CHECK_DEADLOCK FALSE
