SPECIFICATION FairSpec
CONSTANTS
  Sounds = {s1}
  Musics = {}
  Channels = {0}
  None = None
  MaxCycles = 2
PROPERTIES NeverLostForever
