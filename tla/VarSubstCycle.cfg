SPECIFICATION Spec
CONSTANTS
  Ints = {"a", "b"}
  Items = {"e"}
  LoopVars = {"i", "j"}
  NameOrder <- MCNameOrder
  DeclRhs <- MCDeclRhs
  ItemRhs <- MCItemRhs
  AssignRhs <- MCAssignRhs
  UseRhs <- MCUseRhs
  MaxStatements = 3
  MaxOpen = 2
  MaxSize = 4
INVARIANT ParseEnds
