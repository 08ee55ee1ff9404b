SPECIFICATION Spec
CONSTANTS
  Names = {"a"}
  Fields = {f, g}
  NoField = none
  MaxDecls = 2
  MaxReads = 2
  MaxOpen = 3
  MaxItems = 6
SYMMETRY MCSymmetry
INVARIANTS
  ReadsDeclared
  ReadsKeepField
  TestsSeeDefinition
  DefinitionsMoveIn
