SPECIFICATION ShellSpec
CONSTANTS
  FD_MAX = 7
  PIPE_MAX = 2
  PIPE_BUF = 2
  FAT_FDS = {0, 1}
  Byte = {0}
  MaxSize = 1
  CHUNK = 1
  MaxLeft = 1
INVARIANTS
  TargetsOpen
  OutputInPlace
  NothingLost
  PipeDelivers
PROPERTIES
  LinesEnd
