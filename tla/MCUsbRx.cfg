CONSTANTS
  Pkt = 2
  Size = 4
  Wrap = 8
  ReadMax = 2
  MidReadOpens = FALSE
  MaxUnits = 9
  MaxSessions = 1
SPECIFICATION FairSpec
INVARIANTS
  RingSound
  OnlySessionsLose
PROPERTIES
  ImplementsByteStream
  EndpointReopens
