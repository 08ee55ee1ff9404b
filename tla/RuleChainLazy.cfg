SPECIFICATION Spec
CONSTANTS
  Vars = {"v"}
  MaxItems = 3
  MaxNodes = 6
  MaxDepth = 4
INVARIANT LazyRunsInScope
