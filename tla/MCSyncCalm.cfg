SPECIFICATION HistorySpec
CONSTANTS
  Absent = Absent
  NoRevision = NoRevision
  Torn = Torn
  Sqlite = Sqlite
  NoScript = NoScript
  Workspaces = {}
  Rests = {}
  Sses = {s1, s2}
  Environments = {e1}
  Smtps = {}
  Records <- MCRecords
  KindOf <- MCKindOf
  Imported = {s1, e1}
  Contents = {a, b, c}
  DefaultContent = a
  Scripts = {NoScript}
  Jobs = {j1}
  Modes = {"load", "sync"}
  Interference = FALSE
  CrashPhases = {"reading", "loaded", "saved", "listing", "writing"}
  MaxDatabaseEdits = 2
  MaxFileEdits = 1
  MaxFaults = 1
INVARIANTS ReferencesResolve RefusalMutatesNothing PushedFilesAgree
PROPERTIES SettledEditsSurvive SettledConflictsAreRaces SettledRacesAreReported
