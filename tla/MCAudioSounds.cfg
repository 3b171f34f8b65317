SPECIFICATION FairSpec
CONSTANTS
  Sounds = {s1, s2}
  Musics = {}
  Channels = {0, 1}
  None = None
  MaxCycles = 2
INVARIANTS ChannelOwned
PROPERTIES NoCrossTalk WaitRespected WaitRunsOut
