SPECIFICATION Spec
CONSTANTS
  Word = 16
  Tick = 10
  Second = 10
  Durations <- AllDurations
  MaxTicks = 26
INVARIANTS
  ReadersAccurate
  SleepsLongEnough
PROPERTIES
  SleepEnds
CHECK_DEADLOCK FALSE
