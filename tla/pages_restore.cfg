CONSTANTS
  Docs = {n1, n2}
  Devices = {d1, d2}
  Nobody = nobody
  KindOfDocs = "plain"
  Kind <- MCKind
  MaxEdits = 3
  MaxTime = 1
  PageSize = 1
  MaxRounds = 2
  Snapshots = {TRUE}
  MaxDeletes = 1
  MaxInterrupts = 1
  MaxLate = 0
  MaxBehind = 1
  MaxBackups = 0
  MaxRestores = 1
  MaxDamage = 1
  MaxBinds = 0
SPECIFICATION Spec
INVARIANTS SyncedIsOnServer CaughtUpAgrees
PROPERTIES OwnPushIsNoConflict NothingLostSilently ReplayNeverReverts
ACTION_CONSTRAINT WriteAtUse
CONSTRAINTS PagesOrRestore
SYMMETRY SymmetricDocs
