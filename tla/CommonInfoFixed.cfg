CONSTANTS
  no_ = no_
  other_ = other_
  m = m
  n = n
  s = s
  x = x
  y = y
  Name <- MCName
  None = None
  ListTable <- MCListTable
  SizeTable <- MCSizeTable
  Vector <- MCVector
  Key <- MCKey
  Keys <- MCKeys
  MaxVisit = 6
  MaxForms = 1
SYMMETRY Symmetric
SPECIFICATION Spec
INVARIANTS
  FixedTypeOK
  SameEffectPerName
  ConditionsWritten
  TablesHold
