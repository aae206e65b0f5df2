SPECIFICATION FairSpec
CONSTANTS
  Loads <- MCLoads
  RecvWindow = 3
  MaxPacket = 2
  UintMax = 5
  NULL = NULL
INVARIANTS NoProtocolError OutputComplete ExitReported InputComplete
PROPERTIES ExitEndsSession
CHECK_DEADLOCK FALSE
