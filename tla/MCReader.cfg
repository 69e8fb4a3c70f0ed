SPECIFICATION Spec
CONSTANTS
  Base = 4096
  IntBase = 1024
  CellBase = 1024
  MAX_NUM_LEN = 9
  MAX_ATOM_LEN = 8
  MAX_VAR_LEN = 4
  MAX_STRING_LEN = 6
  MAX_TUPLE_LEN = 3
  MAX_MAP_LEN = 3
  ENIF_IO_MAX_DEPTH = 3
  MaxOpens = 4
  Files <- MCFiles
  Later <- MCLater
  Opened <- TextStream
  ReadForm <- ScanForm
  Meaning <- Normal
CHECK_DEADLOCK FALSE
INVARIANTS
  LineTracks
  ClosesOnce

  
