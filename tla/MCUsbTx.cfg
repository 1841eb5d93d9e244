CONSTANTS
  Pkt = 2
  BufSize = 4
  LockChunk = 2
  Totals <- MCTotals
  Grains <- MCGrains
  Replies <- MCReplies
  MaxJobs = 2
SPECIFICATION Spec
INVARIANTS
  CreditExact
  RefillsTheFreedWindow
  StageNeverOverruns
  ParkedMeansTerminated
PROPERTIES
  ImplementsByteStream
  FinishedIsDelivered
