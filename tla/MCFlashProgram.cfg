CONSTANTS
  PayloadMax = 6
  Lengths = {5, 7}
  BufferSizes = {0, 1, 3}
  Methods = {1, 2, 3}
  Addresses = {0}
  RxMax = 2
  Blanks <- MCBlanks
  MaxBlocks = 2
SPECIFICATION FairSpec
INVARIANTS
  AckedIsProgrammed
  NotLeftInBypass
PROPERTIES
  StopsAfterTimeout
  ImplementsBlockWriter
  BlockEnds
