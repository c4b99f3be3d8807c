SPECIFICATION Spec
CONSTANTS
  Commands = {"plain", "systime", "enablegraphics", "crashme"}
  MaxLost = 1
  FloppySectors = 1
  MaxNesting = 3
  MaxBurst = 3
INVARIANTS
  StackSound
  ServiceOwned
  NothingLeftInService
PROPERTIES
  EoiRetiresOwnLine
  LinesServed
CHECK_DEADLOCK FALSE
