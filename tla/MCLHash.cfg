SPECIFICATION MCSpec
CONSTANTS
  Key <- MCKey
  Item <- MCItem
  Hash <- MCHash
  SEGSZ = 2
  SEG_LEN = 3
  SEG_INCREAMENT = 1
  Thres = 1
  MinSlots = 0
INVARIANTS
  TypeOK
  Placed
  Interned
  Backed
  Counted
PROPERTY
  ImplementsKeyTable
