CONSTANTS
  Members = {o, g}
  Owner = o
  Guest = g
  FirstRoles <- MCFirstRoles
  First = "edit"
  Later = {"comment"}
  MaxEdits = 2
  MaxEpochs = 2
  MaxSnapshots = 1
  MaxFaults = 0
  MaxEntries = 3
  PageSize = 1
  Cap = 5
SPECIFICATION Spec
INVARIANTS CommentsAreRead
CONSTRAINT NoSockets
ACTION_CONSTRAINTS LaterRoles
CHECK_DEADLOCK FALSE
