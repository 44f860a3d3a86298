SPECIFICATION Spec
CONSTANTS
  MaxBlocks = 7
  MaxDepth = 3
  MaxClauses = 1
  ElseBranches = TRUE
  MaxNames = 1
INVARIANT
  PhisMatchPredecessors
CHECK_DEADLOCK FALSE
