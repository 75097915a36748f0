SPECIFICATION FairSpec
CONSTANTS
  Workers = {w1, w2}
  Requests <- MCRequests
  MaxTickets = 3
  MaxBatchN = 2
  MaxInFlight = 4
  S2CCapacity = 2
  C2SCapacity = 3
  ResultBytes = 1
  SingleStep = FALSE
CHECK_DEADLOCK FALSE
INVARIANTS
  TypeOK
  RightResults
  EntryNeverLost
  NoLostWakeup
  ClientNeverRefuses
  BuffersNeverJam
  ExecutedOnce
PROPERTIES
  EveryWaitEnds
  ImplementsService
