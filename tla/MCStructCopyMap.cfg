SPECIFICATION StructSpec
CONSTANTS
  Source <- Samples
  Layouts <- MapLayouts
INVARIANT
  OriginalRepaired
CHECK_DEADLOCK FALSE
