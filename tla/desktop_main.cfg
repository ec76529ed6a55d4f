SPECIFICATION MCSpec
CONSTANTS
  c1 = c1
  c2 = c2
  Callers = {c1, c2}
  Pids = {p1, p2}
  NoPid = null
  Windows = TRUE
  Menus <- Pairs
  MaxTries = 2
  Faults = {"crash", "hang", "refuses", "denied", "garbage", "missing"}
  Requests = {r1, r2}
  NoRequest = null
  InstallFaults = {"fails", "hangs", "corrupts"}
  Retries = 2
  Failures <- SignSets
  Reads = {1, 2}
  MaxTouches = 1
  Installers = {c1, c2}
  Files = 1
  MaxMishaps = 2
INVARIANTS
  TypesOK
  OneDaemon
  OneJobPerCall
  NeverKeyless
  QuitLeavesNone
  OneInstall
  AnswerIsTrue
PROPERTIES
  CallsSettle
  SoundBeforeReplaced
  InstallEnds
  InstallIsLeft
  InstalledIsKept
  InstallRecovers
CHECK_DEADLOCK FALSE
