CONSTANTS
  Docs = {n1}
  Devices = {d1, d2}
  Nobody = nobody
  KindOfDocs = "note"
  Kind <- MCKind
  MaxEdits = 3
  MaxTime = 1
  PageSize = 2
  MaxRounds = 2
  Snapshots = {TRUE}
  MaxDeletes = 1
  MaxInterrupts = 1
  MaxLate = 0
  MaxBehind = 0
  MaxBackups = 1
  MaxRestores = 1
  MaxDamage = 0
  MaxBinds = 0
SPECIFICATION FairSpec
PROPERTIES Convergence
CONSTRAINTS WritesOrRestore
