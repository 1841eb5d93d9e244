CONSTANTS
  Half = 32
  SettleMs = 1
  AckMs = 2
  PowerOnMs = 6
  HostAckMs = 20
  ClockWraps = FALSE
SPECIFICATION Spec
INVARIANTS
  FiveVoltsAsAsked
  GuardedAccessIsWarm
  AnsweredInTime
