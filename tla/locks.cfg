CONSTANTS
  Notes = {1, 2}
  Book = {1, 2}
  Files = {f, g, c}
  First = {f, g}
  None = none
  MaxEdits = 2
  MaxPasses = 3
  MaxFaults = 1
SPECIFICATION Spec
INVARIANTS TypeOK LockedHasKeys
PROPERTIES ListedStaysSealed SealsListed PlainStaysReadable
CONSTRAINTS FewStarts
ACTION_CONSTRAINTS LinksApart KeepsLinks RemovesAlone
CHECK_DEADLOCK FALSE
SYMMETRY Symmetric
