SPECIFICATION Spec
CONSTANTS
  KBD_SIZE = 4
  Shifts = {"lshift", "rshift"}
  Letters = {"a"}
  Headers = {8, 9}
  Motions <- SomeMotions
  BOUND_W = 3
  BOUND_H = 2
INVARIANTS
  RingIsQueue
  CaseKept
  Tracks
PROPERTIES
  Realigns
