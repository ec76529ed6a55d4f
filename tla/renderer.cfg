SPECIFICATION MCSpec
CONSTANTS
  MaxJobs = 3
  MaxStreams = 3
  Slots = {1, 2}
  MaxClicks = 3
  Calls = {1, 2}
  MaxActs = 2
  Imports = {1, 2}
  MaxImports = 3
  ScanCap = 3
  SyncLimit = 1
  JobCount = 2
  HistoryLimit = 1
  MaxGestures = 3
  Loads = {1, 2}
  StackLimit = 2
  MaxMoves = 5
  Rows <- SettingRows
INVARIANTS TypesOK OneStream DoneIsDone AutoCheckOnce SettingsAgree OpenedIsAsked FilesAreLastPicked NoJobMistaken
PROPERTIES JobsAllowed GenerationEnds HistoryKept
CHECK_DEADLOCK FALSE
