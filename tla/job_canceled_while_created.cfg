SPECIFICATION Spec
CONSTANTS
  Jobs = {j1}
  Callers = {c1, c2}
  Main = main
  NoJob = none
  MaxRunning = 1
  Faults = {}
SYMMETRY Symmetry
PROPERTIES
  CanceledNeverStarts
CHECK_DEADLOCK FALSE
