SPECIFICATION FairSpec
CONSTANTS
  BlockSize = 2
  MacSize = 1
  IdentLen = 2
  DataBlocks = 2
  HighWater = 4
  IovCount = 2
  SockCap = 4
  Window = 1
  Work <- MCWork
INVARIANTS FramesIntact RepliesBounded
PROPERTY AllDelivered
CHECK_DEADLOCK FALSE
