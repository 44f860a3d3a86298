SPECIFICATION Spec
CONSTANTS
  MaxWraps = 2
  MaxOperands = 3
INVARIANTS
  TypeOK
  ValuesHaveTheirTypes
  AcceptedIsWellFormed
  PointersHaveTheirTypes
CHECK_DEADLOCK FALSE
