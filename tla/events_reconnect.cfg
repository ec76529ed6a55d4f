SPECIFICATION Spec
CONSTANTS
  Writers = {w1}
  Attempts = 2
  Capacity = 1
  Resumes = FALSE
  MaxEvents = 2
  Faults = {}
INVARIANTS
  SeenInOrder
CHECK_DEADLOCK FALSE
