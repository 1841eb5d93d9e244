CONSTANTS
  Pkt = 2
  BufSize = 2
  LockChunk = 2
  Totals = {5}
  Grains <- MCGrains
  Replies = {3}
  MaxJobs = 2
SPECIFICATION FairSpec
PROPERTIES
  ReadsEnd
  AllDelivered
