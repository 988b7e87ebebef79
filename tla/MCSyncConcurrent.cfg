SPECIFICATION FairSpec
CONSTANTS
  Absent = Absent
  NoRevision = NoRevision
  Torn = Torn
  Sqlite = Sqlite
  NoScript = NoScript
  Workspaces = {}
  Rests = {}
  Sses = {s1, s2}
  Environments = {}
  Smtps = {m1}
  Records <- MCRecords
  KindOf <- MCKindOf
  Imported = {s1}
  Contents = {a}
  DefaultContent = a
  Scripts = {NoScript, t}
  Jobs = {j1, j2}
  Modes = {"load", "sync"}
  Interference = TRUE
  CrashPhases = {"reading", "saved", "writing"}
  MaxDatabaseEdits = 1
  MaxFileEdits = 1
  MaxFaults = 1
INVARIANTS ReferencesResolve OneJobAtATime
PROPERTIES EveryCallEnds
