SPECIFICATION FairSpec
CONSTANTS
  Writers = {w1, w2}
  Attempts = 2
  Capacity = 1
  Resumes = TRUE
  MaxEvents = 3
  Faults = {"crash", "disk"}
INVARIANTS
  StreamInv
  ReplayedOrLive
  ReadInOrder
PROPERTIES
  AppendsEnd
  NoSubscriberLeaks
CONSTRAINT OneCut
CHECK_DEADLOCK FALSE
