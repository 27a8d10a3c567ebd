CONSTANTS
  Members = {o, g}
  Owner = o
  Guest = g
  FirstRoles <- MCFirstRoles
  First = "none"
  Later = {"edit", "comment"}
  MaxEdits = 1
  MaxEpochs = 3
  MaxSnapshots = 1
  MaxFaults = 1
  MaxEntries = 3
  PageSize = 1
  Cap = 5
SPECIFICATION FairSpec
PROPERTIES Agreement
CONSTRAINT Joins
ACTION_CONSTRAINTS LaterRoles SnapshotsAtRest
CHECK_DEADLOCK FALSE
