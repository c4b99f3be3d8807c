SPECIFICATION SpecPS2
CONSTANTS
  Kinds = {"floating", "silent", "packet", "ata", "mute"}
  Limit = 5
  MaxClock = 12
  Latching = {TRUE, FALSE}
  Slow = {"ack", "bat"}
INVARIANTS
  ReportIsTrue
  DialogueSound
PROPERTIES
  InitDiskEnds
  KeyboardLives
CHECK_DEADLOCK FALSE
