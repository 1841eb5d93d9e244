SPECIFICATION FairSpec
CONSTANTS
  Lengths = {1, 2}
  Addresses = {0, 7}
  MaxReads = 3
  Retries = 2
  Hp = 2
  MaxStalls = 2
  MaxCuts = 1
  MaxCalls = 3
INVARIANTS
  ReadExact
  
  MemoTrue
PROPERTIES
  AckIsOwn
  CallsEnd
CHECK_DEADLOCK FALSE
