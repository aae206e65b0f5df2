SPECIFICATION Spec
CONSTANTS
  Size = 4
  Byte = {b1, b2}
  Junk = Junk
INVARIANTS PositionsAgree TwoRoundsSuffice
PROPERTY ImplementsQueue
