CONSTANTS
  Notes = {1, 2}
  Book = {1, 2}
  Files = {f, g, c}
  First = {f, g}
  None = none
  MaxEdits = 1
  MaxPasses = 2
  MaxFaults = 0
SPECIFICATION Spec
PROPERTIES TextIsKept
CHECK_DEADLOCK FALSE
