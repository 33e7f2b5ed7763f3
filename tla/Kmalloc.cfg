SPECIFICATION FairSpec
CONSTANTS
  HEAP = 24
  HDR = 4
  ALIGN = 2
  WORD = 64
  Asked = {1, 4, 7, 63}
INVARIANTS
  Tiling
  NoFreeNeighbours
  HeldExactly
  HeldFits
PROPERTIES
  KfreeReturns
