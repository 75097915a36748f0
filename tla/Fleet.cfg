SPECIFICATION FairSpec
CONSTANTS
  Workers = {w1, w2}
  NGroups = 2
  NCores = 2
  BatchSize = 2
  MaxCounter = 4
  MaxSplits = 2
  MaxRepros = 1
  MaxLost = 2
CHECK_DEADLOCK FALSE
INVARIANTS
  TypeOK
  OwnBatchCompared
  NoLiveCoreDropped
  CountersAgree
  BatchLoggedOnce
PROPERTIES
  BatchEnds
