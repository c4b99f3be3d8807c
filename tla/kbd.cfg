SPECIFICATION Spec
CONSTANTS
  Chars = {"a", "b"}
  NUL = "nul"
  MaxInput = 4
  Desktop <- EnableGraphics
INVARIANTS
  NothingUnasked
PROPERTIES
  QuietLineDelivered
  EnterAnswered
CHECK_DEADLOCK FALSE
