SPECIFICATION Spec
CONSTANTS
  A1 = A1
  A2 = A2
  A3 = A3
  None = None
  Static = Static
  Archives <- MCArchives
  Earlier <- MCEarlier
  Up <- MCUp
  Files <- MCFiles
  Folder <- MCFolder
  Paths <- MCPaths
PROPERTIES PackedIsListed
