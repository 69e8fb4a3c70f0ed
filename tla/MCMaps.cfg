SPECIFICATION MCSpec
CONSTANTS
  MaxLen = 5
  MaxArray = 3
  MaxSize = 4
  Term <- MCTerm
  Value <- MCValue
  MapValue <- MCMapValue
  Arrays <- MCArrays
  Compares <- MCCompares
INVARIANTS
  StaysInRange
  PairsKept
  AnswersLatest
  WalkVisitsAll
PROPERTIES
  Terminates
  MakesPromised
  ChangesOneKey
CHECK_DEADLOCK FALSE
