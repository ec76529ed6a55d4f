SPECIFICATION MCSpec
CONSTANTS
  c1 = c1
  c2 = c2
  Callers = {c1, c2}
  Pids = {p1, p2}
  NoPid = null
  Windows = TRUE
  Menus <- FirstScreen
  MaxTries = 2
  Faults = {}
  Requests = {r1, r2}
  NoRequest = null
  InstallFaults = {"fails", "hangs", "corrupts"}
  Retries = 2
  Failures <- SignSets
  Reads = {1, 2}
  MaxTouches = 1
  Installers = {c1, c2}
  Files = 1
  MaxMishaps = 2
INVARIANTS
  NoneAfterQuit
CONSTRAINT QuitsAtRest
CHECK_DEADLOCK FALSE
