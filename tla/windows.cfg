SPECIFICATION Spec
CONSTANTS
  Visualiser = Visualiser
  Menu <- Programs
  Terminal = Terminal
  StartMenu = StartMenu
  Taskbar = Taskbar
  NULL = NULL
  MaxWindows = 3
  Blocks = {b1, b2, b3, b4}
SYMMETRY BlocksAlike
INVARIANTS
  ListIsExact
  TerminalTracked
  DragHoldsLive
PROPERTIES
  LaunchShows
  ClickOnce
