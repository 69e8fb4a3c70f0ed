SPECIFICATION CallSpec
CONSTANTS
  Source <- Samples
  Layouts <- AllLayouts
INVARIANTS
  FillsSize
  SameTerm
  LogRepairs
  CopiesOnce
  TakesFlatSize
PROPERTY
  Returns
CHECK_DEADLOCK FALSE
