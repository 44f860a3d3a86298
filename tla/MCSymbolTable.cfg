SPECIFICATION FairSpec
CONSTANTS
  Names <- MCNames
  Hash <- MCHash
  Buckets = {0, 1}
  Types = {t1, t2}
  MaxEntries = 3
  MaxDepth = 2
INVARIANTS
  InnermostWins
  NoDangling
  DeclFindsItsFunction
  NoInternalError
  Inductive
PROPERTIES
  Implements
  EveryCallReturns
CHECK_DEADLOCK FALSE
