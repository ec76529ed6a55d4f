SPECIFICATION Spec
CONSTANTS
  Jobs = {j1, j2}
  Callers = {c1, c2}
  Main = main
  NoJob = none
  MaxRunning = 1
  Faults = {}
SYMMETRY Symmetry
CONSTRAINT OneWriterNoDelete
INVARIANTS
  NoLostWakeup
PROPERTIES
  FifoOrder
CHECK_DEADLOCK FALSE
