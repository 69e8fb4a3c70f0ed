SPECIFICATION Spec
CONSTANTS
  Base = 64
  IntBase = 16
  CellBase = 4
  Ints <- MCInts
  Uints <- MCUints
  Terms <- MCTerms
  Junk <- MCJunk
INVARIANT
  IdenticalIsSame
