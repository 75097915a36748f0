SPECIFICATION FairSpec
CONSTANTS
  Archs = {"aarch64", "riscv64"}
  Inputs <- MCInputs
  Pages = {0, 1, 2, 3, 4}
  PageSize = 3
  Content <- MCContent
  Mappable = {1, 2, 3, 4}
  Writable = {1, 2}
  Scrap = 2
  NRegs = 2
  VecRegs = {1}
  VEC_REG_SIZE = 3
  Byte = 32
  WordBytes = 2
  IntBytes = 1
  SizeBytes = 1
  CHECK_MEM_CUT_AT = 2
  CHECK_MEM_MAX_NUMBER_MEM_CHANGES = 2
  Checksum <- MCChecksum
  ChecksumBasis = 1
  MaxTries = 3
  MaxInputs = 2
CHECK_DEADLOCK FALSE
INVARIANTS
  TypeOK
  FreshAlarm
  ResultIsOwn
  Aarch64Survives
PROPERTIES
  InputEnds
