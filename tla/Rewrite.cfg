CONSTANTS
  Token <- MCToken
  DigitToken <- MCDigit
  Enum <- MCEnum
  SourceVar <- OwnVar
  FieldEnum <- ShortFields
  RootEnum <- OneRoot
  SizeEnum <- OneField
  CommonEnum <- OneCommon
  ExistsEnum <- OneExists
  Constructs = {"loop", "ELSE", "ELSEIF", "prepare", "listMap", "intList", "delete", "include", "itemPos", "named"}
  None = None
  MaxDepth = 4
  MaxVisit = 5
SPECIFICATION RewriteSpec
INVARIANTS EveryUseDefined NoRedefinition
CHECK_DEADLOCK FALSE
