SPECIFICATION Spec
CONSTANTS
  Algos = {a1, a2, a3}
  KexGuess2 = TRUE
  NULL = NULL
INVARIANT ChoiceAgreed
PROPERTY RekeyKeepsChoice
CHECK_DEADLOCK FALSE
