SPECIFICATION FairSpec
CONSTANTS
  Timers = {t1, t2}
  None = None
  Delays = {0, 1}
  Loops <- SomeLoops
  MaxCalls = 4
INVARIANTS RegisteredOnce QuietWalkYieldsAll HarmOnlyByMeddling FiresAsAsked
PROPERTIES RunningFires
CHECK_DEADLOCK FALSE
