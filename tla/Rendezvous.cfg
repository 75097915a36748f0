SPECIFICATION FairSpec
CONSTANTS
  NumCpus <- MCNumCpus
  Expect = 2
  MaxExits = 2
CHECK_DEADLOCK FALSE
INVARIANTS
  TypeOK
  SameBinary
  CountIsComplete
PROPERTIES
  NobodyLeftWaiting
  CompleteStarts
