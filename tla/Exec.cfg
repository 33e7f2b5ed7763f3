SPECIFICATION Spec
CONSTANTS
  Images <- Executables
  PAGE = 2
  LAST_PAGE = 8
  FRAMES = {3, 4, 9, 10, 11, 12, 13, 14}
  USER_STACK_BASE = 5
  USER_STACK_PAGES = 2
  USER_STACK_STEP = 2
  MAX_EXEC_DEPTH = 2
  MaxOthers = 1
CHECK_DEADLOCK FALSE
INVARIANTS
  EntryStackFree
  FramesConserved
  RunningIntact
