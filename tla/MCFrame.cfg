SPECIFICATION RenderSpec
CONSTANTS
  Drawables = {d1, d2}
  None = None
  LayerIds <- MCLayers
  MaxCalls = 7
CHECK_DEADLOCK FALSE
INVARIANTS ListedAreAutomatic ShownOnce SkipIsPerLayer HarmOnlyByDraws
