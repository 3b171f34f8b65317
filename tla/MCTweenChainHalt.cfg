SPECIFICATION ChainSpec
CONSTANTS
  StageLists <- SomeLists
  StepCounts = {0, 1, 2}
  UsizeMod = 16
  MaxCalls = 4
PROPERTIES HaltHalts
CHECK_DEADLOCK FALSE
