------------------------- MODULE NoteLockProperties -------------------------
(***************************************************************************)
(* What locking a note owes its text and its files, and the schedules that *)
(* TLC keeps to.                                                           *)
(***************************************************************************)
EXTENDS NoteLock

\* A locked note opens every file it shows with its own list alone, whoever
\* else locks, removes a lock, undoes one or writes (lock_note, set_note_files,
\* unseal_or_copy).  A save that drops a link and stops after its journal is
\* left out (KeepsLinks).
LockedHasKeys ==
    \A n \in Notes : locked[n] => \A f \in shows[n] : seal[f] # 0 /\ HasKey(list[n], f)

\* A note reads a file that is plain, or one whose key its own list has, or had
\* in a version that sync replaced: it finishes or undoes its stopped lock with it.
Reads(n, f) == f \in made /\ (seal[f] = 0 \/ HasKey(list[n] \cup history[n], f))

\* The lock of n's notebook seals the file for another of its notes.
SealsFor(n, f) ==
    \E m \in Notes \ {n} :
        n \in group[m] /\ at[m] = "sealing" /\ at'[m] = "checking" /\ f \in FilesOf(todo[m])

\* The lock of n is undone, and its list takes the file for a copy of that very file.
TakesForCopy(n, f) == at[n] = "undoing" /\ \E e \in todo[n] \ todo'[n] : e.file = f /\ e.from = f

\* A file that a plain note shows and reads stays readable for it as long as
\* its text links it, whoever else locks, saves, stops, fails, removes a lock,
\* undoes one or syncs, but for the two steps above (shared_with_unlocked,
\* undo_locking, set_note_files); Remove Lock leaves each file the note
\* then shows plain (unseal_or_copy).  A link to a sealed file that sync brings
\* is not readable to begin with, and nothing is said of it.
PlainStaysReadable ==
    [][\A n \in Notes : ~locked'[n] =>
          IF locked[n] THEN \A f \in shows'[n] : f \in made' /\ seal'[f] = 0
          ELSE \A f \in shows[n] \cap shows'[n] :
                  Reads(n, f) => Reads(n, f)' \/ SealsFor(n, f) \/ TakesForCopy(n, f)]_vars

\* A sealed file that a locked note lists stays as it is while the note lists
\* it, whoever else's lock comes off, fails or is undone.
ListedStaysSealed ==
    [][\A n \in Notes : locked[n] /\ locked'[n] =>
          \A e \in list[n] \cap list'[n] : e.seal = seal[e.file] => seal'[e.file] = e.seal]_vars

\* A file becomes sealed only under a key that a stored note's list has, or had
\* until sync replaced the note, so that a stop finds the key (set_note_files
\* before seal_file).
SealsListed ==
    [][\A f \in Files : seal[f] = 0 /\ seal'[f] # 0 =>
          \E n \in Notes : \E e \in list[n] \cup history[n] : e.file = f /\ e.seal = seal'[f]]_vars

\* No pass puts an older text in the place of a newer one (lock_note,
\* lock_book: their revision guard).
TextIsKept == [][\A n \in Notes : text'[n] >= text[n]]_vars

-----------------------------------------------------------------------------
(* The schedules of the passing run: outside them a property above fails,  *)
(* as the README tells.                                                    *)

\* While a pass runs, a writer or sync keeps its note's links, and adds none to
\* a file that is about to be sealed (else not PlainStaysReadable).
LinksApart ==
    \A n \in Notes : at' = at /\ shows'[n] # shows[n] =>
        \A m \in Notes :
            Idle(m) \/ (shows[n] \subseteq shows'[n] /\ shows'[n] \cap FilesOf(todo[m]) \subseteq shows[n])

\* A save of a locked note keeps the links it had (else neither LockedHasKeys
\* nor PlainStaysReadable).
KeepsLinks ==
    \A n \in Notes : locked[n] /\ Idle(n) /\ at'[n] = "read" => shows[n] \subseteq snap'[n].shows

\* While a note has its lock removed or undone, no pass takes up a file that
\* it lists, and its notebook is not being locked (else neither LockedHasKeys
\* nor ListedStaysSealed).
RemovesAlone ==
    \A n \in Notes : at'[n] \in {"removing", "undoing"} =>
        \A m \in Notes \ {n} :
            /\ n \notin group'[m]
            /\ (FilesOf(plan'[m] \cup todo'[m]) \cup snap'[m].shows) \cap FilesOf(list[n] \cup todo[n]) = {}
=============================================================================
