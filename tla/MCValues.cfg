SPECIFICATION MCSpec
CONSTANTS
  Base = 8
  IntBase = 4
  CellBase = 4
  Ints <- Int64
  Uints <- Uint64
  Terms <- MCOther
  MaxDigits = 3
  NUM_TMP_DIGITS = 2
  Given <- MCGiven
  Unset = {0, 2}
  DigitAnd <- AndDigits
  DigitOr <- OrDigits
  DigitXor <- XorDigits
  Structs = {1, 2}
  GivenIolists <- MCIolists
  Gathered <- AllGathered
  Unread = {0, 3}
  MaxSize = 2
  MaxBlocks = 3
  MaxTerms = 2
CHECK_DEADLOCK FALSE
INVARIANTS
  RoundTrip
  OrdersTame
  IdentifiesTame
  AddSubExact
  BitsExact
  NumberRoundTrip
  OwnsItsBytes
  IolistExact
