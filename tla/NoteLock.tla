------------------------------ MODULE NoteLock ------------------------------
(***************************************************************************)
(* Locking a note with its pictures and files                              *)
(* (kanso-engine/src/lock/files.rs and lock/notebook.rs over the store's   *)
(* guards in kanso-store/src/write.rs): a pass reads the note, wraps the   *)
(* keys into the plain note's list (its journal), seals the files one by   *)
(* one and writes the locked note, while other writers go on and the app   *)
(* may stop anywhere.                                                      *)
(***************************************************************************)
EXTENDS Integers, FiniteSets, Functions

CONSTANTS
    Notes, Book,   \* the notes' IDs, and those of the notebook that may be locked
    Files, None,   \* the IDs files may have
    First,         \* the files that exist at first
    MaxEdits, MaxPasses, MaxFaults  \* bounds

ASSUME NotesAssumption == Notes \subseteq Nat /\ Book \subseteq Notes /\ First \subseteq Files
                          /\ None \notin Files /\ IsFiniteSet(Files)
ASSUME BoundsAssumption == MaxEdits \in Nat /\ MaxPasses \in Nat /\ MaxFaults \in Nat

(* An entry of a note's kansoFiles: the file, the seal whose key it wraps, *)
(* and the file it is a copy of.                                           *)
Entry == [file : Files, seal : Nat, from : Files \cup {None}]

VARIABLES
    text, shows, locked, list,  \* notes: version of the text, files it links,
                                \* lock, list of keys
    history,     \* the lists of the versions that sync replaced
    made, seal,  \* files that exist; each one's seal, 0 when it is plain
    at, snap,    \* passes: the step, and the note as it was read
    cur,         \* the note still has the revision the pass goes by
    group,       \* the notes that are locked together
    plan, todo,  \* the entries to list; those whose file is still to seal
    edits, passes, faults  \* counters of bounds

stored == <<text, shows, locked, list, history, made, seal>>
running == <<at, snap, cur, group, plan, todo>>
counted == <<edits, passes, faults>>
vars == <<stored, running, counted>>

NoSnap == [text |-> 0, shows |-> {}, list |-> {}, seal |-> 0]

TypeOK ==
    /\ text \in [Notes -> 0..MaxEdits] /\ shows \in [Notes -> SUBSET Files]
    /\ locked \in [Notes -> BOOLEAN]
    /\ \A n \in Notes : list[n] \cup history[n] \cup plan[n] \cup todo[n] \subseteq Entry
    /\ made \subseteq Files /\ seal \in [Files -> 0..MaxPasses]
    /\ \A n \in Notes : \A e, d \in list[n] : e.file = d.file => e = d
    /\ at \in [Notes ->
           {"idle", "read", "planned", "sealing", "checking", "removing", "undoing"}]
    /\ \A n \in Notes : at[n] \in {"planned", "sealing", "checking"} => todo[n] \subseteq plan[n]
    /\ cur \in [Notes -> BOOLEAN] /\ group \in [Notes -> SUBSET Notes]
    /\ edits \in 0..MaxEdits /\ passes \in 0..MaxPasses /\ faults \in 0..MaxFaults

Init ==
    /\ text = [n \in Notes |-> 0]
    /\ shows \in [Notes -> SUBSET First]
    /\ locked = [n \in Notes |-> FALSE]
    /\ list = [n \in Notes |-> {}] /\ history = list
    /\ made = First /\ seal = [f \in Files |-> 0]
    /\ at = [n \in Notes |-> "idle"] /\ snap = [n \in Notes |-> NoSnap]
    /\ cur = locked /\ group = list /\ plan = list /\ todo = list
    /\ edits = 0 /\ passes = 0 /\ faults = 0

-----------------------------------------------------------------------------
FilesOf(entries) == {e.file : e \in entries}

\* file_owners: what a plain note shows, and what a locked one lists.
Owns(n, f) == f \in IF locked[n] THEN FilesOf(list[n]) ELSE shows[n]
\* file_key_holders: a wrapped key of the file.
Holds(n, f) == f \in FilesOf(list[n])

\* shared_with_unlocked: an unlocked note outside the pass shows or names it.
\* Mutant: only a note that owns it while locked counts.
SharedWithLocked(f, locking) == \E n \in Notes \ locking : locked[n] /\ Owns(n, f)

SharedWithUnlocked(f, locking) ==
    \E n \in Notes \ locking :
        ~locked[n] /\ \E e \in list[n] \cup {[file |-> g, from |-> None] : g \in shows[n]} :
                            f \in {e.file, e.from}

\* The files whose container is stored and not yet checked.
Unchecked(n) == IF at[n] = "checking" THEN {e \in todo[n] : seal[e.file] = e.seal} ELSE {}

\* The notes of the pass that n is in.
Pass(n) == {m \in Notes : group[m] = group[n] /\ at[m] \in {"read", "planned", "sealing", "checking"}}

\* The key of a sealed file for the pass of note n: the pass made it, its own
\* list has it, or the note that lists it can be opened for it; or the session has it (KeyBook),
\* which depends on what was opened since the start.
HasKey(entries, f) == \E e \in entries : e.file = f /\ e.seal = seal[f]
Opens(n, f) ==
    \/ HasKey(snap[n].list \cup UNION {plan[m] : m \in Pass(n)}, f)
    \/ \E m \in Notes : locked[m] /\ HasKey(list[m], f)
MaybeInSession(f) == \A n \in Notes : f \notin FilesOf(Unchecked(n))

\* A new file, with an ID that nothing names, for each of some files (copy_for_share).
EntriesOf(n) == list[n] \cup history[n] \cup plan[n] \cup todo[n] \cup snap[n].list
Named(n) == shows[n] \cup snap[n].shows \cup FilesOf(EntriesOf(n)) \cup {e.from : e \in EntriesOf(n)}
Spare == Files \ (First \cup made \cup UNION {Named(n) : n \in Notes})
HasRoom(files) == Cardinality(files) <= Cardinality(Spare)
Copier(files) == CHOOSE copy \in Injection(files, Spare) : TRUE

\* The files a writer knows of: a copy's ID is in no text before its note's.
Linkable == made \cap (First \cup UNION {shows[n] : n \in Notes})

Idle(n) == at[n] = "idle"

Ends(S) ==
    /\ at' = [n \in Notes |-> IF n \in S THEN "idle" ELSE at[n]]
    /\ snap' = [n \in Notes |-> IF n \in S THEN NoSnap ELSE snap[n]]
    /\ plan' = [n \in Notes |-> IF n \in S THEN {} ELSE plan[n]]
    /\ todo' = [n \in Notes |-> IF n \in S THEN {} ELSE todo[n]]
    /\ group' = [n \in Notes |-> IF n \in S THEN {} ELSE group[n]]

\* Another writer's revision of n, or the pass's own, which it goes on from.
Writes(n) == cur' = [cur EXCEPT ![n] = FALSE]
Fails(S) == Ends(S) /\ UNCHANGED <<stored, cur, counted>>
Starts == passes < MaxPasses /\ passes' = passes + 1 /\ UNCHANGED <<stored, edits, faults>>

-----------------------------------------------------------------------------
(* A pass: lock_note, seal_notebook and save_locked *)

\* Each plain note of a notebook, or a note on its own, as it is stored.
StartLock(locking) ==
    /\ \A n \in locking : Idle(n)
    /\ LET S == {n \in locking : ~locked[n]} IN
        /\ S # {}
        /\ at' = [n \in Notes |-> IF n \in S THEN "read" ELSE at[n]]
        /\ snap' = [n \in Notes |->
             IF n \in S THEN [text |-> text[n], shows |-> shows[n], list |-> list[n], seal |-> passes + 1]
             ELSE snap[n]]
        /\ group' = [n \in Notes |-> IF n \in S THEN locking ELSE group[n]]
        /\ cur' = [n \in Notes |-> n \in S \/ cur[n]]
    /\ Starts /\ UNCHANGED <<plan, todo>>

\* An open locked note's text was changed, and it is saved.
StartSave(n, files) ==
    /\ Idle(n) /\ locked[n] /\ edits < MaxEdits
    /\ at' = [at EXCEPT ![n] = "read"]
    /\ snap' = [snap EXCEPT ![n] =
         [text |-> edits + 1, shows |-> files, list |-> list[n], seal |-> passes + 1]]
    /\ group' = [group EXCEPT ![n] = {n}] /\ cur' = [cur EXCEPT ![n] = TRUE]
    /\ passes < MaxPasses /\ passes' = passes + 1 /\ edits' = edits + 1
    /\ UNCHANGED <<stored, faults, plan, todo>>

\* A pass goes note by note, in the order of their IDs.
IsTurn(n) ==
    /\ at[n] = "read"
    /\ \A m \in Pass(n) : m < n => at[m] = "sealing" /\ todo[m] = {}

\* What each file that the text shows needs, once its links go to the copies
\* that the pass made or took up (Job::copies): a wrap of its key when it is
\* sealed, its own copy of an earlier try, a new copy when an unlocked note
\* shows it, or a seal of its own.
PassCopies(n) == {e \in UNION {plan[m] : m \in Pass(n)} : e.from \notin {None, e.file}}
Links(n) ==
    made \cap ({f \in snap[n].shows : \A e \in PassCopies(n) : e.from # f}
               \cup {e.file : e \in {d \in PassCopies(n) : d.from \in snap[n].shows}})
Sealed(n) == {f \in Links(n) : seal[f] # 0}

\* The name a sealed file's entry keeps is the one its text had for it.
FromOf(n, f) == IF \E e \in snap[n].list : e.from = f THEN f ELSE None
\* Mutant: a file that is sealed already is listed under the pass's own key.
ListedAnew(n) == {[file |-> f, seal |-> snap[n].seal, from |-> FromOf(n, f)] : f \in Sealed(n)}

Listed(n) == {[file |-> f, seal |-> seal[f], from |-> FromOf(n, f)] : f \in Sealed(n)}
Again(n) ==
    {e \in snap[n].list : e.from \in Links(n) \ Sealed(n) /\ e.file # e.from /\ seal[e.file] # 0}
Unsealed(n) == {f \in Links(n) \ Sealed(n) : \A e \in Again(n) : e.from # f}

Shared(n) == {f \in Unsealed(n) : SharedWithUnlocked(f, group[n])}
New(n, copy) ==
    {[file |-> IF f \in Shared(n) THEN copy[f] ELSE f, seal |-> snap[n].seal,
      from |-> IF f \in Shared(n) THEN f ELSE None] : f \in Unsealed(n)}

\* Mutant: the copy is listed twice, by its original and by its own link.
AllOfThem(entries) == {entries}

\* A copy that is reached by its original and by its own link is one file.
OneEach(entries) ==
    {S \in SUBSET entries : FilesOf(S) = FilesOf(entries) /\ \A e, d \in S : e.file = d.file => e = d}

Plan(n) ==
    /\ IsTurn(n)
    /\ \A f \in Sealed(n) : Opens(n, f) \/ MaybeInSession(f)
    /\ HasRoom(Shared(n))
    /\ LET copy == Copier(Shared(n)) IN
        /\ made' = made \cup {copy[f] : f \in Shared(n)}
        /\ \E reused \in OneEach(Listed(n) \cup Again(n)) :
              plan' = [plan EXCEPT ![n] = reused \cup New(n, copy)]
        /\ todo' = [todo EXCEPT ![n] = New(n, copy)]
    /\ at' = [at EXCEPT ![n] = IF Unsealed(n) = {} THEN "sealing" ELSE "planned"]
    /\ UNCHANGED <<text, shows, locked, list, history, seal, snap, cur, group, counted>>

\* A sealed file's key isn't known: the pass says which note to unlock first
\* (NeedsUnlock).
PlanFails(n) ==
    /\ IsTurn(n)
    /\ \E f \in Sealed(n) : ~Opens(n, f)
    /\ Fails(Pass(n))

\* set_note_files, on the note as it is stored now: the wraps go to the note
\* before any file is sealed, and the pass goes on from this revision.
\* Mutant: the wraps are written with the locked note.
SealsFirst(n) ==
    /\ at[n] = "planned"
    /\ at' = [at EXCEPT ![n] = "sealing"]
    /\ UNCHANGED <<stored, snap, cur, group, plan, todo, counted>>

Journal(n) ==
    /\ at[n] = "planned"
    /\ \/ /\ locked[n] \/ \A f \in shows[n] : seal[f] # 0 => f \in FilesOf(plan[n])
          /\ list' = [list EXCEPT ![n] = plan[n]]
          /\ cur' = [cur EXCEPT ![n] = TRUE] /\ at' = [at EXCEPT ![n] = "sealing"]
          /\ UNCHANGED <<text, shows, locked, history, made, seal, snap, group, plan, todo, counted>>
       \/ /\ ~locked[n] /\ \E f \in shows[n] : seal[f] # 0 /\ f \notin FilesOf(plan[n])
          /\ Fails(Pass(n))

\* seal_file: the container takes the plain bytes' place...
SealFile(n) ==
    /\ at[n] = "sealing"
    /\ \E e \in todo[n] :
        \/ /\ e.file \in made /\ seal[e.file] = 0
           /\ seal' = [seal EXCEPT ![e.file] = e.seal]
           /\ at' = [at EXCEPT ![n] = "checking"]
           /\ UNCHANGED <<text, shows, locked, list, history, made, snap, cur, group, plan, todo, counted>>
        \/ (e.file \notin made \/ seal[e.file] # 0) /\ Fails(Pass(n))

\* ...and they are put back unless the stored list has the key that opens it.
KeyIsListed(n, e) == e \in list[n]

CheckSealed(n) ==
    /\ \E e \in Unchecked(n) :
        \/ /\ KeyIsListed(n, e)
           /\ todo' = [todo EXCEPT ![n] = @ \ {e}] /\ at' = [at EXCEPT ![n] = "sealing"]
           /\ UNCHANGED <<stored, snap, cur, group, plan, counted>>
        \/ /\ ~KeyIsListed(n, e)
           /\ seal' = [seal EXCEPT ![e.file] = 0]
           /\ Ends(Pass(n))
           /\ UNCHANGED <<text, shows, locked, list, history, made, cur, counted>>

\* lock_note and lock_book: every note of the pass, or none.  What the notes
\* were before is deleted from their history.
LockNotes(n) ==
    /\ at[n] = "sealing"
    /\ \A m \in Pass(n) : at[m] = "sealing" /\ todo[m] = {}
    /\ LET S == Pass(n)
           allowed == \A m \in S : cur[m] /\ \A e \in plan[m] : e.file \in made /\ seal[e.file] # 0 IN
        \/ /\ allowed
           /\ text' = [m \in Notes |-> IF m \in S THEN snap[m].text ELSE text[m]]
           /\ shows' = [m \in Notes |-> IF m \in S THEN FilesOf(plan[m]) ELSE shows[m]]
           /\ locked' = [m \in Notes |-> m \in S \/ locked[m]]
           /\ list' = [m \in Notes |-> IF m \in S THEN plan[m] ELSE list[m]]
           /\ history' = [m \in Notes |-> IF m \in S THEN {} ELSE history[m]]
           /\ Ends(S) /\ cur' = [m \in Notes |-> m \notin S /\ cur[m]]
           /\ UNCHANGED <<made, seal, counted>>
        \/ ~allowed /\ Fails(S)

-----------------------------------------------------------------------------
(* Remove Lock: what it needs is prepared, and written in one transaction *)

StartRemove(n) ==
    /\ Idle(n) /\ locked[n]
    /\ LET sealed == {e \in list[n] : e.file \in made /\ seal[e.file] # 0}
           shared == {e \in sealed : \E m \in Notes \ {n} : Owns(m, e.file)} IN
        /\ \A e \in sealed : seal[e.file] = e.seal
        /\ plan' = [plan EXCEPT ![n] = sealed \ shared]
        /\ todo' = [todo EXCEPT ![n] = shared]
    /\ at' = [at EXCEPT ![n] = "removing"] /\ cur' = [cur EXCEPT ![n] = TRUE]
    /\ Starts /\ UNCHANGED <<snap, group>>

Remove(n) ==
    /\ at[n] = "removing"
    /\ LET allowed == cur[n] /\ \A e \in plan[n] : seal[e.file] = e.seal
           shared == FilesOf(todo[n]) IN
        \/ /\ allowed
           /\ HasRoom(shared)
           /\ made' = made \cup {Copier(shared)[f] : f \in shared}
           /\ shows' = [shows EXCEPT ![n] = {IF f \in shared THEN Copier(shared)[f] ELSE f : f \in @}]
           /\ seal' = [f \in Files |-> IF f \in FilesOf(plan[n]) THEN 0 ELSE seal[f]]
           /\ locked' = [locked EXCEPT ![n] = FALSE] /\ list' = [list EXCEPT ![n] = {}]
           /\ Ends({n}) /\ Writes(n)
           /\ UNCHANGED <<text, history, counted>>
        \/ ~allowed /\ Fails({n})

-----------------------------------------------------------------------------
(* undo_locking: a stopped lock's files, one by one, and then its list *)

StartUndo(n) ==
    /\ Idle(n) /\ ~locked[n] /\ list[n] # {}
    /\ at' = [at EXCEPT ![n] = "undoing"]
    /\ todo' = [todo EXCEPT ![n] = list[n]]
    /\ UNCHANGED <<stored, snap, cur, group, plan, counted>>

\* Mutant: another note's key of the file is not looked for.
HeldByNobody(n, f) == FALSE

HeldByOthers(n, f) == \E m \in Notes \ {n} : Holds(m, f)

UndoFile(n) ==
    /\ at[n] = "undoing"
    /\ \E e \in todo[n] :
        LET f == e.file
            others == HeldByOthers(n, f) IN
        /\ todo' = [todo EXCEPT ![n] = @ \ {e}]
        /\ CASE e.from # None ->  \* a copy made for this lock
                  /\ made' = IF others \/ \E m \in Notes \ {n} : Owns(m, f) THEN made ELSE made \ {f}
                  /\ seal' = [seal EXCEPT ![f] = IF f \in made' THEN @ ELSE 0]
                  /\ UNCHANGED plan
             [] e.from = None /\ f \in made /\ seal[f] = e.seal /\ ~others ->
                  seal' = [seal EXCEPT ![f] = 0] /\ UNCHANGED <<made, plan>>
             [] e.from = None /\ f \in made /\ seal[f] = e.seal /\ others ->
                  /\ HasRoom({f}) /\ UNCHANGED seal
                  /\ made' = made \cup {Copier({f})[f]}
                  /\ plan' = [plan EXCEPT ![n] = @ \cup {[file |-> Copier({f})[f], seal |-> 0, from |-> f]}]
             [] OTHER -> seal[f] = 0 /\ UNCHANGED <<made, seal, plan>>
    /\ UNCHANGED <<text, shows, locked, list, history, at, snap, cur, group, counted>>

\* A file was sealed again since: the list's key does not open it.
UndoFails(n) ==
    /\ at[n] = "undoing"
    /\ \E e \in todo[n] : e.from = None /\ seal[e.file] \notin {0, e.seal}
    /\ Fails({n})

\* The list goes, and links to what other notes keep move to the copies.  A
\* plain note's write is refused while it shows another sealed file.
UndoEnds(n) ==
    /\ at[n] = "undoing" /\ todo[n] = {}
    /\ LET moved(f) == {e.file : e \in {p \in plan[n] : p.from = f}}
           now == UNION {IF moved(f) = {} THEN {f} ELSE moved(f) : f \in shows[n] \cap made} IN
        \/ /\ \A f \in now : seal[f] = 0
           /\ shows' = [shows EXCEPT ![n] = now] /\ list' = [list EXCEPT ![n] = {}]
           /\ Ends({n}) /\ Writes(n)
           /\ UNCHANGED <<text, locked, history, made, seal, counted>>
        \/ (\E f \in now : seal[f] # 0) /\ Fails({n})

-----------------------------------------------------------------------------
(* The other writers, and what goes wrong *)

\* An editor or the local API writes a plain note, which keeps its list.  It
\* may not link a sealed file.
Edit(n, files) ==
    /\ ~locked[n] /\ edits < MaxEdits
    /\ \A f \in files : seal[f] = 0
    /\ text' = [text EXCEPT ![n] = edits + 1] /\ edits' = edits + 1
    /\ shows' = [shows EXCEPT ![n] = files]
    /\ Writes(n)
    /\ UNCHANGED <<locked, list, history, made, seal, at, snap, group, plan, todo, passes, faults>>

\* Sync puts another device's version of a plain note in place, with the links
\* it has, sealed files too, and with or without the list.  What it replaces
\* goes to the note's history.
Replace(n, files) ==
    /\ ~locked[n] /\ edits < MaxEdits
    /\ text' = [text EXCEPT ![n] = edits + 1] /\ edits' = edits + 1
    /\ shows' = [shows EXCEPT ![n] = files]
    /\ \E kept \in {list[n], {}} : list' = [list EXCEPT ![n] = kept]
    /\ history' = [history EXCEPT ![n] = @ \cup list[n]]
    /\ Writes(n)
    /\ UNCHANGED <<locked, made, seal, at, snap, group, plan, todo, passes, faults>>

\* A locked note's other fields are written, by the API or by sync.
Touch(n) ==
    /\ locked[n] /\ edits < MaxEdits /\ edits' = edits + 1
    /\ Writes(n)
    /\ UNCHANGED <<stored, at, snap, group, plan, todo, passes, faults>>

\* Cancel, between two files.
Stop(n) ==
    /\ at[n] = "sealing" /\ faults < MaxFaults /\ faults' = faults + 1
    /\ Ends(Pass(n)) /\ UNCHANGED <<stored, cur, edits, passes>>

Quit ==
    /\ faults < MaxFaults /\ faults' = faults + 1
    /\ \E n \in Notes : ~Idle(n)
    /\ Ends(Notes) /\ cur' = [n \in Notes |-> FALSE]
    /\ UNCHANGED <<stored, edits, passes>>

-----------------------------------------------------------------------------
Next ==
    \/ \E locking \in {Book} \cup {{n} : n \in Notes} : StartLock(locking)
    \/ \E n \in Notes, files \in SUBSET Linkable : StartSave(n, files) \/ Edit(n, files) \/ Replace(n, files)
    \/ \E n \in Notes :
        \/ Plan(n) \/ PlanFails(n) \/ Journal(n) \/ SealFile(n) \/ CheckSealed(n) \/ LockNotes(n)
        \/ StartRemove(n) \/ Remove(n)
        \/ StartUndo(n) \/ UndoFile(n) \/ UndoFails(n) \/ UndoEnds(n)
        \/ Touch(n) \/ Stop(n)
    \/ Quit

Spec == Init /\ [][Next]_vars
=============================================================================
