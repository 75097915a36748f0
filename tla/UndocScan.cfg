SPECIFICATION FairSpec
CONSTANTS
  Workers = {w1, w2, w3}
  Clients = {c1}
  Unknown <- MCUnknown
  Step = 2
  Until = 7
  Chunk = 2
  BufferLines = 2
  MaxCrashes = 1
CHECK_DEADLOCK FALSE
INVARIANTS
  TypeOK
  AnalysedInOrder
  NothingSkipped
  AnnouncedComplete
PROPERTIES
  ScanEnds
