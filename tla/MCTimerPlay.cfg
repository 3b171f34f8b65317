SPECIFICATION Spec
CONSTANTS
  Timers = {t1}
  None = None
  Delays = {0}
  Loops <- OnlyForever
  MaxCalls = 3
PROPERTIES PlayUnpauses
CHECK_DEADLOCK FALSE
