SPECIFICATION FairSpec
CONSTANTS
  ArrayDims = {1}
  MaxCells = 4
  MaxStores = 1
  MaxPlaces = 1
  Cycles = TRUE
PROPERTIES
  EveryWalkEnds
CHECK_DEADLOCK FALSE
