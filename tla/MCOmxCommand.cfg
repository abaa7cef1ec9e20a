SPECIFICATION FairSpec
CONSTANTS
  Ports <- MCPorts
  NONE = NONE
INVARIANTS
  SlotIsOutstanding
  WaitedIsDone
  SleeperIsWoken
PROPERTIES
  SetupFinishes
CHECK_DEADLOCK FALSE
