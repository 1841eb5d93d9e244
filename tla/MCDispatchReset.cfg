CONSTANTS
  PayloadMax = 2
  TransferMax = 3
  BatchMax = 1
  LkPayloadMax = 2
  RxMax = 3
  PayloadByte <- MCPayloadByte
  Sizes <- MCSizes
  Counts <- MCCounts
  Window = 2
  MaxCmds = 2
  QuickReset = TRUE
SPECIFICATION Spec
INVARIANT
  NoMixedCommand
