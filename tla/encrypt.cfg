CONSTANTS
  MaxEdits = 3
  MaxFaults = 5
SPECIFICATION FairSpec
INVARIANTS TypeOK NotesAreKept OpenShowsEverything NoPlaintextBeside
PROPERTIES EncryptedInTheEnd
CHECK_DEADLOCK FALSE
