SPECIFICATION FairAtomicSpec
CONSTANTS
  Threads = {t1, t2}
  Limit = 2
  Values <- MCValues
  Operations <- MCOperations
  InitialValue = 0
  NoAnswer = NoAnswer
PROPERTIES ImplementsCell LockIsTaken
CHECK_DEADLOCK FALSE
