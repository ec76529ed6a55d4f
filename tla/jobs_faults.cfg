SPECIFICATION Spec
CONSTANTS
  Jobs = {j1}
  Callers = {c1, c2}
  Main = main
  NoJob = none
  MaxRunning = 1
  Faults = {"crash", "disk", "stop"}
SYMMETRY Symmetry
INVARIANTS
  IInv
  StoppedIsQuiet
  AcceptedIsKept
PROPERTIES
  TerminalIsFinal
  Implements
CHECK_DEADLOCK FALSE
