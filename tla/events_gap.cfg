SPECIFICATION Spec
CONSTANTS
  Writers = {w1}
  Attempts = 1
  Capacity = 1
  Resumes = FALSE
  MaxEvents = 2
  Faults = {}
INVARIANTS
  NoSilentGap
CHECK_DEADLOCK FALSE
