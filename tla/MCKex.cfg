SPECIFICATION FairSpec
CONSTANTS
  Modes <- MCModes
  MaxRekeys = 2
  MaxData = 2
INVARIANTS NoProtocolError DataInOrder NonceNeverReused
PROPERTIES KexCompletes QueueDrains
CHECK_DEADLOCK FALSE
