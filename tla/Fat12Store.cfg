SPECIFICATION MapSpec
CONSTANTS
  NAME_A = NAME_A
  NAME_B = NAME_B
  PIECE_1 = PIECE_1
  PIECE_2 = PIECE_2
  CLUSTERS = 2
  ROOT_ENTRIES = 2
  UNITS = 2
  FAT12_MAX_FDS = 2
  Names <- MCNames
  Names83 <- MCNames83
  To83 <- MCTo83
  Paths <- MCPaths
  Values = {PIECE_1, PIECE_2}
  Transfers = {3}
  SharedOpen = FALSE
  DeleteOpen = FALSE
  CrossDirRename = FALSE
PROPERTIES
  ImplementsFileStore
