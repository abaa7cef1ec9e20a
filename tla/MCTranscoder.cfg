SPECIFICATION FairSpec
CONSTANTS
  Videos = 4
  Audios = 2
  MaxQueue = 0
  NInBuffers = 2
  PipeRoom = 1
  NOutBuffers = 1
INVARIANTS
  QueueBound
  FedInOrder
  EosOnlyAtEnd
  StartedOnlyConfigured
  KnownStalls
PROPERTIES
  WorkRunsOut
  QueuedVideoIsFed
CHECK_DEADLOCK FALSE
