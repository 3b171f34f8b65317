SPECIFICATION FairSpec
CONSTANTS
  Sounds = {s1}
  Musics = {m1, m2}
  Channels = {0}
  None = None
  MaxCycles = 1
INVARIANTS StreamOwned QueueValid
PROPERTIES DestroyKeepsOthers QueuedIsServed
CHECK_DEADLOCK FALSE
