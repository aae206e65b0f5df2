SPECIFICATION Spec
CONSTANTS
  Loads <- MCPtyOutput
  RecvWindow = 2
  MaxPacket = 1
  UintMax = 5
  NULL = NULL
INVARIANT FlushingDrains
CHECK_DEADLOCK FALSE
