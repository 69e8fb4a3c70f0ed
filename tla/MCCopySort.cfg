SPECIFICATION Spec
CONSTANTS
  Term = {1, 2, 3}
  MaxLen = 6
INVARIANT
  MovesAll
CHECK_DEADLOCK FALSE
