SPECIFICATION Spec
CONSTANTS
  MAX_TASKS = 4
  QUANTUM_TICKS = 3
  MaxDepth = 1
INVARIANTS
  StackOwnership
  KernelStackOwned
PROPERTIES
  KilledStaysDead
  NoStarvation
