SPECIFICATION FairSpec
CONSTANT Inputs <- MCInputs
INVARIANTS
  TypeOK
  TokensOfLanguage
PROPERTIES
  ScanningEnds
CHECK_DEADLOCK FALSE
