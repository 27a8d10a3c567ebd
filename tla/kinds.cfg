CONSTANTS
  Docs = {"note", "canvas", "review", "daily", "role"}
  Devices = {d1, d2}
  Nobody = nobody
  KindOfDocs = "note"
  Kind <- MCKind
  MaxEdits = 4
  MaxTime = 1
  PageSize = 2
  MaxRounds = 2
  Snapshots = {TRUE}
  MaxDeletes = 1
  MaxInterrupts = 0
  MaxLate = 0
  MaxBehind = 0
  MaxBackups = 0
  MaxRestores = 0
  MaxDamage = 0
  MaxBinds = 0
SPECIFICATION Spec
INVARIANTS TypeOK
PROPERTIES NothingLostSilently EditBeatsDeletion FactsOutliveConflicts DeletedAnswersStayDeleted DailyNotesAreMerged PendingEditsSurvive
CONSTRAINTS OneDocument WritesOfKind
SYMMETRY Symmetric
