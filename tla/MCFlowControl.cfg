SPECIFICATION FairSpec
CONSTANTS
  Window = 7
  Extend = 2
  UintMax = 10
INVARIANTS WindowConserved GrantFitsBuffer NeverClamps
PROPERTY WindowReopens
CHECK_DEADLOCK FALSE
