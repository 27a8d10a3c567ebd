CONSTANTS
  Members = {o, g}
  Owner = o
  Guest = g
  FirstRoles <- MCFirstRoles
  First = "edit"
  Later = {"comment", "view", "none"}
  MaxEdits = 2
  MaxEpochs = 2
  MaxSnapshots = 1
  MaxFaults = 1
  MaxEntries = 3
  PageSize = 1
  Cap = 2
SPECIFICATION Spec
INVARIANTS TypeOK NothingStoredIsLost MergedIsInText
PROPERTIES OutboxLeavesStored ImplementsLog
CONSTRAINT Cases
ACTION_CONSTRAINTS LaterRoles
CHECK_DEADLOCK FALSE
