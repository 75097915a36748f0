SPECIFICATION Spec
CONSTANTS
  NClients = 3
  UntilSeqLen = 2
  Arch = "aarch64"
  Results <- BusResults
CHECK_DEADLOCK FALSE
INVARIANTS
  DisagreementRecorded
