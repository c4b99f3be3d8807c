SPECIFICATION Spec
CONSTANTS
  Kinds = {"mute"}
  Limit = 5
  MaxClock = 12
PROPERTIES
  InitDiskReturns
CHECK_DEADLOCK FALSE
