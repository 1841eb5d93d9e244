SPECIFICATION Spec
CONSTANTS
  OrHi <- MCOr
  LoSize = 8  HiSize = 8
  EepAt = 7
  M3dRegs <- MCRegs
  WinAt = 4
  EepAddrBits = 2  EepBits = 2  EepDummies = 2
  Sector = 2
  Unlock1 = 2  Unlock2 = 1
  CmdAA = 1  Cmd55 = 2  CmdA0 = 3
  BootReads <- MCBoot
  RtcData = 2  RtcDir = 3  RtcCtrl = 4  RtcBits = 2
  Kinds = {"agb_sram", "agb_flash", "agb_eep", "agb_3d", "agb_rtc", "dmg", "dmg_audio"}
  MaxAddr = 12
  Starts = {0, 6}
  Transfers = {4, 8}
  CartLatches = {4, 6}
  CartStep = 4
  ReplyBytes = 8
  BufferSize = 8
  Data = {0, 5}
  Pairs <- MCPairs
  Cmd25 = 4  Cmd29 = 5  Cmd20 = 6  Cmd90 = 7
  PollCap = 2
  RtcStatus <- MCStatus
  RtcDate <- MCDate
  DateBytes = 2
  PubGrain = 2
INVARIANTS
  NoContention
  AsAsked
  PinsSound
  NoBackPower
PROPERTIES
  StableInStrobe
