SPECIFICATION TerminalSpec
CONSTANTS
  Chars = {"c"}
  ClearLine <- LineC
  Prompt = "$"
  Answer = "?"
  CR = "r"
  NL = "n"
  NUL = "0"
  Size = 8
  InputMax = 3
  Width = 2
  MaxLines = 2
INVARIANTS
  LineOnScreen
  ValidIsFresh
  DrawsTail
CHECK_DEADLOCK FALSE
