SPECIFICATION Spec
CONSTANTS
  MAX_CPUS = 3
  midr_name_table <- MCNames
  PinTries = 2
  Machines <- MCMachines
  Bits = 3
  RangeLists <- MCRangeLists
  Valid = {3, 5}
  Slow = {3}
  MaxRuns = 2
  Tick = 4
  Text = 3
  Buffer = 2
  MaxFaults = 1
CHECK_DEADLOCK FALSE
INVARIANTS
  DiscoveryStored
