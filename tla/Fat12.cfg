SPECIFICATION Spec
CONSTANTS
  NAME_A = NAME_A
  NAME_B = NAME_B
  NAME_C = NAME_C
  PIECE = PIECE
  CLUSTERS = 3
  ROOT_ENTRIES = 2
  UNITS = 1
  FAT12_MAX_FDS = 1
  Names <- MCNames
  Names83 <- MCNames83
  To83 <- MCTo83
  Paths <- MCPaths
  Values = {PIECE}
  Transfers = {2}
  SharedOpen = FALSE
  DeleteOpen = FALSE
  CrossDirRename = FALSE
INVARIANTS
  NoCrossLink
  ChainsEnd
  SizeWithinChain
  NoLostClusters
  DirectoriesSound
