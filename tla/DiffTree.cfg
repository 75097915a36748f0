SPECIFICATION Spec
CONSTANTS
  NClients = 3
  UntilSeqLen = 3
  Arch = "riscv64"
  Results <- RiscvResults
CHECK_DEADLOCK FALSE
INVARIANTS
  TypeOK
  SplitsAreExact
  IsolatedOnlyBySplit
