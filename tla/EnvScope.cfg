CONSTANTS
  Token <- MCToken
  DigitToken <- MCDigit
  Enum <- MCEnum
  SourceVar <- OwnVar
  FieldEnum <- BranchFields
  RootEnum <- OneRoot
  SizeEnum <- Empty
  CommonEnum <- OneCommon
  ExistsEnum <- OneExists
  Constructs = {"loop", "ELSE", "ELSEIF", "prepare", "listMap", "intList", "include", "itemPos", "named"}
  None = None
  MaxDepth = 4
  MaxVisit = 5
SPECIFICATION Spec
INVARIANTS TypeOK UniqueNames CommonInfoLoopHoldsNoDef
PROPERTIES DefsStable ImplementsTable
CHECK_DEADLOCK FALSE
