CONSTANTS
  MaxEdits = 2
  MaxFaults = 3
SPECIFICATION Spec
PROPERTIES PlainCopyIsKept
CHECK_DEADLOCK FALSE
