SPECIFICATION Spec
CONSTANTS
  MaxPackets = 5
INVARIANTS
  OnlyWholeNals
  WrittenIffParametersKnown
  ExtradataIsLatest
  DataCustody
CHECK_DEADLOCK FALSE
