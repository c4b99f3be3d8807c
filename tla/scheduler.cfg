SPECIFICATION Spec
CONSTANTS
  Blocks = {b1, b2, b3}
  NULL = NULL
  MaxPid = 5
INVARIANTS
  NoDanglingBlock
PROPERTIES
  EveryProcessRuns
  ImplementsReadyQueue
CHECK_DEADLOCK FALSE
