SPECIFICATION FairSpec
CONSTANTS
  Jobs = {j1, j2}
  Callers = {c1}
  Main = main
  NoJob = none
  MaxRunning = 1
  Faults = {"crash"}
CONSTRAINT OneWriter
INVARIANTS
  DeletedStaysGone
PROPERTIES
  CanceledNeverStarts
  CancelSettles
  QueueDrains
CHECK_DEADLOCK FALSE
