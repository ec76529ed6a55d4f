SPECIFICATION Spec
CONSTANTS
  Jobs = {j1, j2}
  Callers = {c1}
  Main = main
  NoJob = none
  MaxRunning = 1
  Faults = {"crash"}
SYMMETRY Symmetry
PROPERTIES
  RunsAtMostOnce
CHECK_DEADLOCK FALSE
