SPECIFICATION Spec
CONSTANTS
  Names = {x, y}
  Libs = {}
  Kinds <- AllKinds
  MaxNodes = 6
  MaxDefs = 1
  Redefine = FALSE
  LexicalOnly = FALSE
INVARIANT
  UndeclaredRejected
CHECK_DEADLOCK FALSE
