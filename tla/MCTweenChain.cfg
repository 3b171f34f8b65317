SPECIFICATION FairChainSpec
CONSTANTS
  StageLists <- SomeLists
  StepCounts = {0, 1, 2}
  UsizeMod = 16
  MaxCalls = 4
INVARIANTS StagesInOrder CompletedAfterAll
PROPERTIES ActiveEnds
CHECK_DEADLOCK FALSE
