SPECIFICATION Spec
CONSTANTS
  MaxPackets = 4
INVARIANTS
  NoEmptyWrite
CHECK_DEADLOCK FALSE
