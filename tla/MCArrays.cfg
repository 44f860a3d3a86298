SPECIFICATION Spec
CONSTANTS
  Values = {v}
  Unset = unset
  Shapes <- MCShapes
  Strings <- MCStrings
  MaxArrays = 2
  MaxWords = 15
INVARIANTS
  TypeOK
  LayoutRight
PROPERTIES
  Implements
CHECK_DEADLOCK FALSE
