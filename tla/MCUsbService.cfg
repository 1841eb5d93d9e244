CONSTANTS
  IdleLimit = 2
  BurstLimit = 4
  MaxWrites = 1
  DemotedWhileArming = FALSE
SPECIFICATION FairSpec
INVARIANTS
  TransportSound
  TogglesInStep
  ResponsesAsAsked
  NoEventSwallowed
PROPERTIES
  EventsServed
  MainLoopRuns
