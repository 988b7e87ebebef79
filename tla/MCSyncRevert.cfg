SPECIFICATION HistorySpec
CONSTANTS
  Absent = Absent
  NoRevision = NoRevision
  Torn = Torn
  Sqlite = Sqlite
  NoScript = NoScript
  Workspaces = {}
  Rests = {}
  Sses = {s1}
  Environments = {}
  Smtps = {}
  Records <- MCRecords
  KindOf <- MCKindOf
  Imported = {s1}
  Contents = {a, b}
  DefaultContent = a
  Scripts = {NoScript}
  Jobs = {j1}
  Modes = {"sync"}
  Interference = FALSE
  CrashPhases = {}
  MaxDatabaseEdits = 2
  MaxFileEdits = 0
  MaxFaults = 0
PROPERTIES EditsSurvive
