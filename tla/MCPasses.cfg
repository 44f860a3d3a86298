SPECIFICATION Spec
CONSTANTS
  Names = {x, y, l}
  Libs = {l}
  Kinds <- AllKinds
  MaxNodes = 7
  MaxDefs = 2
  Redefine = FALSE
  LexicalOnly = FALSE
INVARIANTS
  TypeOK
  SemIsLexical
  CodegenIsLexical
  CodegenKnowsNames
  PassesAgree
CHECK_DEADLOCK FALSE
