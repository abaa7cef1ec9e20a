SPECIFICATION FairSpec
CONSTANTS
  Videos = 3
  Audios = 0
  MaxQueue = 0
  NInBuffers = 3
  PipeRoom = 1
  NOutBuffers = 1
PROPERTIES
  WriterStarts
CHECK_DEADLOCK FALSE
