SPECIFICATION Spec
CONSTANTS
  MaxStreams = 3
  MaxQueue = 1
INVARIANTS
  UndefinedForAReason
  WriterRunsConfigured
  OutputMatchesInput
  StuckForAReason
CHECK_DEADLOCK FALSE
