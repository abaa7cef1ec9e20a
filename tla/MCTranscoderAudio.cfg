SPECIFICATION FairSpec
CONSTANTS
  Videos = 4
  Audios = 2
  MaxQueue = 0
  NInBuffers = 3
  PipeRoom = 1
  NOutBuffers = 1
PROPERTIES
  DemuxFinishes
CHECK_DEADLOCK FALSE
