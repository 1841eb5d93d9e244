CONSTANTS
  Pkt = 2
  Size = 4
  Wrap = 8
  ReadMax = 2
  MidReadOpens = TRUE
  MaxUnits = 9
  MaxSessions = 1
SPECIFICATION Spec
INVARIANT
  RingNeverOverruns
