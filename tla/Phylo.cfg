\* Two philosophers at first, up to four.
CONSTANTS
  Amount = 2
  MinAmount = 2
  MaxAmount = 4
  CanFail = TRUE
CHECK_DEADLOCK FALSE
SPECIFICATION Spec
INVARIANT
  ForksShared
PROPERTIES
  NobodyStarves
