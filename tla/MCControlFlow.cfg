SPECIFICATION Spec
CONSTANTS
  MaxBlocks = 9
  MaxDepth = 3
  MaxClauses = 2
  ElseBranches = FALSE
  MaxNames = 1
INVARIANTS
  TypeOK
  RegionsNested
  BlocksClosed
  PhisMatchPredecessors
  DefinitionsDominateUses
  ControlReachesEverything
CHECK_DEADLOCK FALSE
