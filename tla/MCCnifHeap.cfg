SPECIFICATION Spec
CONSTANTS
  Addr = {a1, a2, a3}
  NoFrag = NoFrag
  DEFAULT_FRAGMENT_SIZE = 2
  Request = {1, 2}
  MaxMarks = 2
SYMMETRY MCSymmetry
INVARIANTS
  TermsIntact
  TopInLast
  MarksReachable
  NoFragmentLeaks
