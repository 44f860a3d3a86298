SPECIFICATION FairSpec
CONSTANT Half = 8
INVARIANTS
  TypeOK
  OperatorsMean
PROPERTIES
  CountsAsWritten
  EndsUnlessAtLimit
CHECK_DEADLOCK FALSE
