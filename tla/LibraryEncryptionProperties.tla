--------------------- MODULE LibraryEncryptionProperties ---------------------
(***************************************************************************)
(* What turning a library into an encrypted one owes its notes.            *)
(***************************************************************************)
EXTENDS LibraryEncryption

\* The newest notes open from the library, with a key the keychain holds.
InLibrary ==
    /\ db.kind = "plain" \/ (db.kind = "sealed" /\ db.key \in kept /\ db.key = keyName)
    /\ Readable /\ Newest = edits
\* They are whole in the plain copy, which the next launch finds.
InSafety == Unfinished /\ safety.kind = "plain" /\ safety.v = edits

\* No step, crash or refusal of the keychain loses the notes: the library
\* always holds the newest ones and opens, or a key lost in the middle of the
\* conversion leaves them in the plain copy.  There is a moment with no library
\* at its name only while nothing was written yet.
NotesAreKept == ~lost => InLibrary \/ InSafety \/ (db = NoFile /\ edits = 0)

\* A library that opens shows every note: no program opens one halfway.
OpenShowsEverything == at = "open" /\ ~lost => InLibrary

\* Once the marker is gone, nothing readable is left beside an encrypted
\* library, whatever failed on the way.
NoPlaintextBeside ==
    marker = "none" /\ db.kind = "sealed" => safety.kind = "none" /\ log.kind # "plain"

-----------------------------------------------------------------------------
(* A plain copy that a crash left in the way waits for a person. *)
InTheWay == db.kind = "plain" /\ safety.kind # "none"

\* In the end the library is encrypted and its plain copy gone, or a copy is
\* in the way, and it opens again and again: no crash leaves a state that
\* every launch refuses.
EncryptedInTheEnd ==
    /\ <>[](lost \/ InTheWay \/ (db.kind = "sealed" /\ safety.kind = "none" /\ marker = "none"))
    /\ []<>(lost \/ at = "open")

-----------------------------------------------------------------------------
(* What a lost key may cost *)

\* A whole plain copy goes only when the library holds its notes too.
PlainCopyIsKept ==
    [][safety.kind = "plain" /\ safety' # safety =>
         \/ db'.kind = "plain" /\ db'.v >= safety.v
         \/ db'.kind = "sealed" /\ db'.v >= safety.v]_vars
=============================================================================
