CONSTANTS
  A = A
  B = B
  L = L
  M = M
  Value <- MCValue
  ListValue <- MCListValue
  None = None
  Elem = Elem
  Twice = Twice
  MaxVisit = 5
SYMMETRY SameKind
SPECIFICATION Spec
INVARIANTS CommonInfoTypeOK SameEffect ReadsOwnVariable
PROPERTIES BodyKept
CHECK_DEADLOCK FALSE
