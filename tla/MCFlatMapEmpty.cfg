SPECIFICATION Spec
CONSTANTS
  Key <- MCKey
  Value <- MCValue
  MaxSize = 4
  MaxArray = 3
INVARIANT
  KeysAreTuple
