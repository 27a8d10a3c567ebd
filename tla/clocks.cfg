CONSTANTS
  Docs = {n1}
  Devices = {d1, d2}
  Nobody = nobody
  KindOfDocs = "note"
  Kind <- MCKind
  MaxEdits = 3
  MaxTime = 2
  PageSize = 2
  MaxRounds = 2
  Snapshots = {TRUE, FALSE}
  MaxDeletes = 1
  MaxInterrupts = 1
  MaxLate = 1
  MaxBehind = 0
  MaxBackups = 0
  MaxRestores = 0
  MaxDamage = 0
  MaxBinds = 1
SPECIFICATION Spec
INVARIANTS GenerationsInv SyncedIsOnServer CaughtUpAgrees
PROPERTIES GenerationsGrow
CONSTRAINTS ClocksOrBindings
SYMMETRY Symmetric
