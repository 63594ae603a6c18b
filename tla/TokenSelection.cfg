\* Every sorted list of up to four values in 0..4, every amount up to 12.
SPECIFICATION Spec
CONSTANTS
  MaxTokens = 4
  MaxValue = 4
  MaxAmount = 12
INVARIANTS
  TypeOK
  NothingMissed
  ReturnsASelection
PROPERTIES
  Terminates
CHECK_DEADLOCK FALSE
