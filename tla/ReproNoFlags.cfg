SPECIFICATION FairSpec
CONSTANTS
  MAX_CPUS = 3
  midr_name_table <- MCNames
  PinTries = 2
  Half = 2
  Stream <- MCStream
  fuzzing_value_map_gp <- MCGp
  fuzzing_value_map_fp <- MCFp
  instructions <- MCInstructions
  NumGp = 2
  NumFp = 1
  NumVec = 1
  VecWords = 2
  Cases <- MCCases
  MAX_SEQ_LEN = 2
  MaxHotplug = 2
CHECK_DEADLOCK FALSE
PROPERTIES
  LoadsInTheEnd
