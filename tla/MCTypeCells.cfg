SPECIFICATION FairSpec
CONSTANTS
  ArrayDims = {1}
  MaxCells = 6
  MaxStores = 2
  MaxPlaces = 1
  Cycles = FALSE
INVARIANTS
  TypeOK
  StoresFit
  AcceptedCompiles
PROPERTIES
  EqualForEver
  EveryWalkEnds
CHECK_DEADLOCK FALSE
