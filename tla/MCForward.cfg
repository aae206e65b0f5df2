SPECIFICATION FairSpec
CONSTANTS
  MaxChannels = 2
  Loads <- MCLoads
  RecvWindow = 3
  MaxPacket = 2
  UintMax = 5
  NULL = NULL
INVARIANTS NoProtocolError DeliveredInOrder EofAfterAllData FdsConsistent
PROPERTIES CloseCompletes StreamCompletes NothingLost ImplementsFlowControl
CHECK_DEADLOCK FALSE
