CONSTANTS
  Pkt = 2
  BufSize = 4
  LockChunk = 2
  Totals <- MCTotals
  Grains <- MCMisalignedGrains
  Replies <- MCReplies
  MaxJobs = 2
SPECIFICATION Spec
PROPERTIES
  NoStaleWindow
