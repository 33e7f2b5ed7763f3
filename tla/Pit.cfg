SPECIFICATION Spec
CONSTANTS
  WORD = 4
  Callers = {"kernel", "program"}
  MaxMs = 3
  MaxStart = 9
INVARIANTS
  TicksExact
  NeverEarly
PROPERTIES
  SleepReturns
\* A program that sleeps halts the processor with interrupts off: nothing moves
\* from there.
CHECK_DEADLOCK FALSE
