SPECIFICATION Spec
CONSTANTS
  FD_MAX = 6
  PIPE_MAX = 2
  PIPE_BUF = 2
  FAT_FDS = {0}
  BYTE_1 = BYTE_1
  BYTE_2 = BYTE_2
  Byte = {BYTE_1, BYTE_2}
  MaxSize = 2
SYMMETRY AnyByte
INVARIANTS
  DescriptorsOwned
PROPERTIES
  PipesAreQueues
