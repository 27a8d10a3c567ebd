--------------------------- MODULE NoteLock_proofs ---------------------------
EXTENDS NoteLockProperties, FiniteSetTheorems, FunctionTheorems, TLAPS

Running == {"read", "planned", "sealing", "checking"}
Planned == {"planned", "sealing", "checking"}
OneKeyEach(entries) == \A e, d \in entries : e.file = d.file => e = d
Snap == [text : 0..MaxEdits, shows : SUBSET Files, list : SUBSET Entry, seal : 0..MaxPasses]

\* The type invariant, with what keeps it: what a pass holds is typed, and no
\* list or plan has a file twice.
StoredTyped ==
    /\ text \in [Notes -> 0..MaxEdits] /\ shows \in [Notes -> SUBSET Files]
    /\ locked \in [Notes -> BOOLEAN]
    /\ list \in [Notes -> SUBSET Entry] /\ history \in [Notes -> SUBSET Entry]
    /\ made \subseteq Files /\ seal \in [Files -> 0..MaxPasses]
    /\ \A n \in Notes : OneKeyEach(list[n])
StepsTyped ==
    /\ at \in [Notes ->
           {"idle", "read", "planned", "sealing", "checking", "removing", "undoing"}]
    /\ cur \in [Notes -> BOOLEAN] /\ group \in [Notes -> SUBSET Notes]
HeldTyped ==
    /\ plan \in [Notes -> SUBSET Entry] /\ todo \in [Notes -> SUBSET Entry]
    /\ snap \in [Notes -> Snap]
    /\ \A n \in Notes : OneKeyEach(snap[n].list)
    /\ \A n \in Notes : at[n] \in Planned =>
          /\ todo[n] \subseteq plan[n] /\ OneKeyEach(plan[n])
          /\ \A e \in todo[n] : e.seal \in 0..MaxPasses
CountedTyped == edits \in 0..MaxEdits /\ passes \in 0..MaxPasses /\ faults \in 0..MaxFaults
Typed == StoredTyped /\ StepsTyped /\ HeldTyped /\ CountedTyped

\* A file is copied to an ID that nothing names, and each one to its own.
LEMMA Copying ==
    ASSUME NotesAssumption, NEW S \in SUBSET Files, HasRoom(S)
    PROVE  /\ Copier(S) \in [S -> Spare]
           /\ \A f, g \in S : Copier(S)[f] = Copier(S)[g] => f = g
<1> IsFiniteSet(S) /\ IsFiniteSet(Spare)
    BY FS_Subset DEF Spare, NotesAssumption
<1> DEFINE a == Cardinality(S)  b == Cardinality(Spare)
<1>1. a \in Nat /\ b \in Nat /\ ExistsBijection(1..a, S) /\ ExistsBijection(1..b, Spare)
    BY FS_CardinalityType
<1>2. ExistsInjection(1..a, 1..b)
    BY <1>1, Fun_NatInjLeq DEF HasRoom
<1>3. ExistsInjection(S, 1..a) /\ ExistsInjection(1..b, Spare)
    BY <1>1, Fun_ExistsBijEquiv
<1>4. ExistsInjection(S, Spare)
    BY <1>2, <1>3, Fun_ExistsInjTransitive
<1>5. Copier(S) \in Injection(S, Spare)
    BY <1>4, Fun_ExistsInj DEF Copier
<1> QED BY <1>5, Fun_InjectionProperties DEF Injection

LEMMA TypedIsTypeOK == Typed => TypeOK
BY DEF Typed, StoredTyped, StepsTyped, HeldTyped, CountedTyped, TypeOK, OneKeyEach, Planned

\* Passes that end hold nothing.
LEMMA EndsTyped ==
    ASSUME StepsTyped, HeldTyped, NotesAssumption, NEW S, Ends(S), cur' \in [Notes -> BOOLEAN]
    PROVE  StepsTyped' /\ HeldTyped'
<1>1. StepsTyped' BY DEF Ends, StepsTyped
<1>2. NoSnap \in Snap /\ OneKeyEach(NoSnap.list)
    BY NotesAssumption, BoundsAssumption DEF NoSnap, Snap, OneKeyEach, BoundsAssumption
<1>3. plan' \in [Notes -> SUBSET Entry] /\ todo' \in [Notes -> SUBSET Entry] /\ snap' \in [Notes -> Snap]
    BY <1>2 DEF Ends, HeldTyped
<1>4. ASSUME NEW n \in Notes
      PROVE  /\ OneKeyEach(snap'[n].list)
             /\ at'[n] \in Planned =>
                   /\ todo'[n] \subseteq plan'[n] /\ OneKeyEach(plan'[n])
                   /\ \A e \in todo'[n] : e.seal \in 0..MaxPasses
    BY <1>2, <1>4 DEF Ends, HeldTyped, Planned, StepsTyped
<1> QED BY <1>1, <1>3, <1>4 DEF HeldTyped, OneKeyEach

LEMMA FailsTyped ==
    ASSUME Typed, NEW S, Fails(S)
    PROVE  Typed'
<1>1. StoredTyped' /\ CountedTyped'
    BY DEF Typed, Fails, stored, counted, StoredTyped, CountedTyped, OneKeyEach
<1> QED BY <1>1, EndsTyped, NotesAssumption DEF Typed, Fails, StepsTyped

LEMMA TypedInit == Init => Typed
<1> SUFFICES ASSUME Init PROVE Typed OBVIOUS
<1> USE NotesAssumption, BoundsAssumption DEF NotesAssumption, BoundsAssumption
<1>1. StoredTyped BY DEF Init, StoredTyped, OneKeyEach
<1>2. StepsTyped BY DEF Init, StepsTyped
<1>3. HeldTyped
  <2>1. NoSnap \in Snap /\ NoSnap.list = {} BY DEF NoSnap, Snap
  <2> QED BY <2>1 DEF Init, HeldTyped, OneKeyEach, Planned
<1> QED BY <1>1, <1>2, <1>3 DEF Typed, Init, CountedTyped

\* A pass begins with its note as it is stored.
LEMMA StartTyped ==
    ASSUME Typed, Starts, UNCHANGED <<plan, todo>>, NEW S \in SUBSET Notes, StepsTyped',
           \A n \in Notes : at'[n] = IF n \in S THEN "read" ELSE at[n],
           snap' \in [Notes -> Snap],
           \A n \in Notes : snap'[n].list = IF n \in S THEN list[n] ELSE snap[n].list
    PROVE  Typed'
<1>1. StoredTyped' BY DEF Typed, Starts, stored, StoredTyped, OneKeyEach
<1>2. CountedTyped' BY BoundsAssumption DEF BoundsAssumption, Typed, Starts, CountedTyped
<1>3. HeldTyped'
  <2>1. plan' \in [Notes -> SUBSET Entry] /\ todo' \in [Notes -> SUBSET Entry] BY DEF Typed, HeldTyped
  <2>2. ASSUME NEW n \in Notes
        PROVE  /\ OneKeyEach(snap'[n].list)
               /\ at'[n] \in Planned =>
                     /\ todo'[n] \subseteq plan'[n] /\ OneKeyEach(plan'[n])
                     /\ \A e \in todo'[n] : e.seal \in 0..MaxPasses
      BY DEF Typed, StoredTyped, HeldTyped, Planned
  <2> QED BY <2>1, <2>2 DEF HeldTyped, OneKeyEach
<1> QED BY <1>1, <1>2, <1>3 DEF Typed

LEMMA StartLockTyped ==
    ASSUME Typed, NEW locking \in SUBSET Notes, StartLock(locking)
    PROVE  Typed'
<1> DEFINE S == {n \in locking : ~locked[n]}
<1>1. passes + 1 \in 0..MaxPasses BY BoundsAssumption DEF BoundsAssumption, Typed, CountedTyped, StartLock, Starts
<1>2. \A n \in Notes : [text |-> text[n], shows |-> shows[n], list |-> list[n], seal |-> passes + 1] \in Snap
    BY <1>1 DEF Typed, StoredTyped, Snap
<1>3. snap' = [n \in Notes |->
          IF n \in S THEN [text |-> text[n], shows |-> shows[n], list |-> list[n], seal |-> passes + 1]
          ELSE snap[n]]
    BY DEF StartLock
<1>4. snap' \in [Notes -> Snap] BY <1>2, <1>3 DEF Typed, HeldTyped
<1>5. \A n \in Notes : snap'[n].list = IF n \in S THEN list[n] ELSE snap[n].list
    BY <1>3
<1>6. StepsTyped' BY DEF StartLock, Typed, StepsTyped, StoredTyped
<1> QED BY <1>4, <1>5, <1>6, StartTyped DEF StartLock

LEMMA StartSaveTyped ==
    ASSUME Typed, NEW n \in Notes, NEW files \in SUBSET Linkable, StartSave(n, files)
    PROVE  Typed'
<1> DEFINE read == [text |-> edits + 1, shows |-> files, list |-> list[n], seal |-> passes + 1]
<1>1. read \in Snap
    BY BoundsAssumption DEF BoundsAssumption, Typed, StoredTyped, CountedTyped, StartSave, Snap, Linkable
<1>2. snap' \in [Notes -> Snap] /\ \A m \in Notes : snap'[m].list = IF m = n THEN list[n] ELSE snap[m].list
    BY <1>1 DEF StartSave, Typed, HeldTyped
<1>3. StepsTyped' BY DEF StartSave, Typed, StepsTyped
<1>4. HeldTyped'
  <2>1. plan' \in [Notes -> SUBSET Entry] /\ todo' \in [Notes -> SUBSET Entry]
      BY DEF Typed, HeldTyped, StartSave
  <2>2. ASSUME NEW m \in Notes
        PROVE  /\ OneKeyEach(snap'[m].list)
               /\ at'[m] \in Planned =>
                     /\ todo'[m] \subseteq plan'[m] /\ OneKeyEach(plan'[m])
                     /\ \A e \in todo'[m] : e.seal \in 0..MaxPasses
      BY <1>2 DEF Typed, StepsTyped, StoredTyped, HeldTyped, Planned, StartSave
  <2> QED BY <1>2, <2>1, <2>2 DEF HeldTyped, OneKeyEach
<1>5. StoredTyped' BY DEF Typed, StartSave, stored, StoredTyped, OneKeyEach
<1>6. CountedTyped' BY BoundsAssumption DEF BoundsAssumption, Typed, StartSave, CountedTyped
<1> QED BY <1>3, <1>4, <1>5, <1>6 DEF Typed

-----------------------------------------------------------------------------
(* What a pass plans *)

LEMMA LinksFiles ==
    ASSUME Typed, NEW n \in Notes
    PROVE  /\ Links(n) \in SUBSET made /\ Shared(n) \subseteq Unsealed(n)
           /\ Unsealed(n) \subseteq Links(n) /\ Sealed(n) \subseteq Links(n)
           /\ \A f \in Links(n) : f \in Files
           /\ \A f \in Sealed(n) : seal[f] # 0
           /\ \A f \in Unsealed(n) : seal[f] = 0
BY DEF Links, Sealed, Unsealed, Shared, Typed, StoredTyped

\* A seal of its own for each file that is plain, or for its copy.
LEMMA NewEntries ==
    ASSUME Typed, NotesAssumption, NEW n \in Notes, HasRoom(Shared(n)),
           NEW e \in New(n, Copier(Shared(n)))
    PROVE  /\ e \in Entry /\ e.seal = snap[n].seal
           /\ \/ e.file \in Unsealed(n) \ Shared(n) /\ e.from = None
              \/ e.file \in Spare /\ e.from \in Shared(n) /\ e.file = Copier(Shared(n))[e.from]
<1>1. PICK f \in Unsealed(n) :
          e = [file |-> IF f \in Shared(n) THEN Copier(Shared(n))[f] ELSE f, seal |-> snap[n].seal,
               from |-> IF f \in Shared(n) THEN f ELSE None]
    BY DEF New
<1>2. f \in Files /\ Shared(n) \in SUBSET Files BY LinksFiles
<1>3. f \in Shared(n) => Copier(Shared(n))[f] \in Spare BY <1>2, Copying
<1>4. snap[n].seal \in Nat
    BY BoundsAssumption DEF BoundsAssumption, Typed, HeldTyped, Snap
<1> QED BY <1>1, <1>2, <1>3, <1>4 DEF Entry, Spare

LEMMA NewOnce ==
    ASSUME Typed, NotesAssumption, NEW n \in Notes, HasRoom(Shared(n))
    PROVE  OneKeyEach(New(n, Copier(Shared(n))))
<1> DEFINE copy == Copier(Shared(n))
<1> SUFFICES ASSUME NEW e \in New(n, copy), NEW d \in New(n, copy), e.file = d.file PROVE e = d
    BY DEF OneKeyEach
<1>0. Shared(n) \in SUBSET Files BY LinksFiles
<1>1. PICK f \in Unsealed(n) :
          e = [file |-> IF f \in Shared(n) THEN copy[f] ELSE f, seal |-> snap[n].seal,
               from |-> IF f \in Shared(n) THEN f ELSE None]
    BY DEF New
<1>2. PICK g \in Unsealed(n) :
          d = [file |-> IF g \in Shared(n) THEN copy[g] ELSE g, seal |-> snap[n].seal,
               from |-> IF g \in Shared(n) THEN g ELSE None]
    BY DEF New
<1>3. f \in made /\ g \in made BY LinksFiles
<1>4. copy \in [Shared(n) -> Spare] /\ \A x, y \in Shared(n) : copy[x] = copy[y] => x = y
    BY <1>0, Copying
<1>5. Spare \cap made = {} BY DEF Spare
<1>6. f = g
  <2>1. CASE f \in Shared(n) /\ g \in Shared(n) BY <2>1, <1>1, <1>2, <1>4
  <2>2. CASE f \notin Shared(n) /\ g \notin Shared(n) BY <2>2, <1>1, <1>2
  <2>3. CASE f \in Shared(n) /\ g \notin Shared(n)
      BY <2>3, <1>1, <1>2, <1>3, <1>4, <1>5
  <2>4. CASE f \notin Shared(n) /\ g \in Shared(n)
      BY <2>4, <1>1, <1>2, <1>3, <1>4, <1>5
  <2> QED BY <2>1, <2>2, <2>3, <2>4
<1> QED BY <1>1, <1>2, <1>6

\* What the pass takes up is sealed: by its text's own link, or an earlier copy.
LEMMA ReusedEntries ==
    ASSUME Typed, NotesAssumption, NEW n \in Notes,
           NEW reused \in OneEach(Listed(n) \cup Again(n))
    PROVE  /\ OneKeyEach(reused)
           /\ \A f \in Sealed(n) : \E e \in reused : e.file = f
           /\ \A e \in reused :
                /\ e \in Entry /\ seal[e.file] # 0
                /\ \/ e.file \in Sealed(n) /\ e.seal = seal[e.file] /\ e.from \in {None, e.file}
                   \/ e \in snap[n].list /\ e.from \in Links(n) \ Sealed(n) /\ e.file # e.from
<1> DEFINE both == Listed(n) \cup Again(n)
<1>1. reused \subseteq both /\ FilesOf(reused) = FilesOf(both) /\ OneKeyEach(reused)
    BY DEF OneEach, OneKeyEach
<1>2. ASSUME NEW f \in Sealed(n) PROVE \E e \in reused : e.file = f
  <2>1. [file |-> f, seal |-> seal[f], from |-> FromOf(n, f)] \in both BY DEF Listed
  <2>2. f \in FilesOf(both) BY <2>1 DEF FilesOf
  <2> QED BY <2>2, <1>1 DEF FilesOf
<1>3. ASSUME NEW e \in both
      PROVE  /\ e \in Entry /\ seal[e.file] # 0
             /\ \/ e.file \in Sealed(n) /\ e.seal = seal[e.file] /\ e.from \in {None, e.file}
                \/ e \in snap[n].list /\ e.from \in Links(n) \ Sealed(n) /\ e.file # e.from
  <2>1. CASE e \in Listed(n)
    <3>1. PICK f \in Sealed(n) : e = [file |-> f, seal |-> seal[f], from |-> FromOf(n, f)]
        BY <2>1 DEF Listed
    <3>2. f \in Files /\ seal[f] # 0 /\ FromOf(n, f) \in {None, f} BY LinksFiles DEF FromOf
    <3>3. seal[f] \in Nat
        BY <3>2, BoundsAssumption DEF BoundsAssumption, Typed, StoredTyped
    <3> QED BY <3>1, <3>2, <3>3 DEF Entry
  <2>2. CASE e \in Again(n)
      BY <2>2 DEF Again, Typed, HeldTyped, Snap
  <2> QED BY <2>1, <2>2
<1> QED BY <1>1, <1>2, <1>3

\* The two make a plan: a file of theirs is in it once.
LEMMA NewIsPlain ==
    ASSUME Typed, NotesAssumption, NEW n \in Notes, HasRoom(Shared(n)),
           NEW e \in New(n, Copier(Shared(n))),
           NEW reused \in OneEach(Listed(n) \cup Again(n)), NEW d \in reused
    PROVE  d.file # e.file
<1>1. seal[d.file] # 0 /\ (d.file \in made \/ d \in snap[n].list)
    BY ReusedEntries, LinksFiles
<1>2. CASE e.file \in Unsealed(n)
    BY <1>1, <1>2, LinksFiles
<1>3. CASE e.file \in Spare
  <2>1. d \in snap[n].list => d.file \in Named(n) BY DEF Named, FilesOf, EntriesOf
  <2> QED BY <1>1, <1>3, <2>1 DEF Spare
<1> QED BY <1>2, <1>3, NewEntries

LEMMA PlanTyped ==
    ASSUME Typed, NotesAssumption, NEW n \in Notes, Plan(n)
    PROVE  Typed'
<1> DEFINE new == New(n, Copier(Shared(n)))
<1>0. HasRoom(Shared(n)) /\ Shared(n) \in SUBSET Files BY LinksFiles DEF Plan
<1>1. PICK reused \in OneEach(Listed(n) \cup Again(n)) : plan' = [plan EXCEPT ![n] = reused \cup new]
    BY DEF Plan
<1>2. todo' = [todo EXCEPT ![n] = new] /\ made' = made \cup {Copier(Shared(n))[f] : f \in Shared(n)}
    BY DEF Plan
<1>3. new \subseteq Entry /\ reused \subseteq Entry
    BY <1>0, NewEntries, ReusedEntries
<1>4. OneKeyEach(reused \cup new)
    BY <1>0, NewOnce, ReusedEntries, NewIsPlain DEF OneKeyEach
<1>5. \A e \in new : e.seal \in 0..MaxPasses
    BY <1>0, NewEntries DEF Typed, HeldTyped, Snap
<1>6. StoredTyped'
  <2>1. made' \subseteq Files
      BY <1>0, <1>2, Copying DEF Typed, StoredTyped, Spare
  <2> QED BY <2>1 DEF Typed, StoredTyped, Plan, OneKeyEach
<1>7. StepsTyped' BY DEF Plan, Typed, StepsTyped
<1>8. HeldTyped'
  <2>1. plan' \in [Notes -> SUBSET Entry] /\ todo' \in [Notes -> SUBSET Entry] /\ snap' \in [Notes -> Snap]
      BY <1>1, <1>2, <1>3 DEF Typed, HeldTyped, Plan
  <2>2. ASSUME NEW m \in Notes
        PROVE  /\ OneKeyEach(snap'[m].list)
               /\ at'[m] \in Planned =>
                     /\ todo'[m] \subseteq plan'[m] /\ OneKeyEach(plan'[m])
                     /\ \A e \in todo'[m] : e.seal \in 0..MaxPasses
    <3>1. CASE m = n BY <3>1, <1>1, <1>2, <1>4, <1>5 DEF Typed, HeldTyped, Plan
    <3>2. CASE m # n
        BY <3>2, <1>1, <1>2 DEF Typed, HeldTyped, StepsTyped, Plan
    <3> QED BY <3>1, <3>2
  <2> QED BY <2>1, <2>2 DEF HeldTyped, OneKeyEach
<1> QED BY <1>6, <1>7, <1>8 DEF Typed, CountedTyped, Plan, counted

-----------------------------------------------------------------------------
(* The other steps of a pass *)

LEMMA JournalTyped ==
    ASSUME Typed, NEW n \in Notes, Journal(n)
    PROVE  Typed'
<1>1. CASE Fails(Pass(n)) BY <1>1, FailsTyped
<1>2. CASE ~Fails(Pass(n))
  <2>1. OneKeyEach(plan[n]) /\ plan[n] \subseteq Entry
      BY DEF Typed, HeldTyped, Planned, Journal
  <2>2. StoredTyped' BY <1>2, <2>1 DEF Journal, Typed, StoredTyped, OneKeyEach
  <2>3. StepsTyped' BY <1>2 DEF Journal, Typed, StepsTyped
  <2>4. HeldTyped' BY <1>2 DEF Journal, Typed, HeldTyped, StepsTyped, Planned, OneKeyEach
  <2> QED BY <1>2, <2>2, <2>3, <2>4 DEF Journal, Typed, CountedTyped, counted
<1> QED BY <1>1, <1>2

LEMMA SealFileTyped ==
    ASSUME Typed, NEW n \in Notes, SealFile(n)
    PROVE  Typed'
<1>1. CASE Fails(Pass(n)) BY <1>1, FailsTyped
<1>2. CASE ~Fails(Pass(n))
  <2>1. PICK e \in todo[n] :
            /\ e.file \in made /\ seal[e.file] = 0
            /\ seal' = [seal EXCEPT ![e.file] = e.seal]
            /\ at' = [at EXCEPT ![n] = "checking"]
            /\ UNCHANGED <<text, shows, locked, list, history, made, snap, cur, group, plan, todo, counted>>
      BY <1>2 DEF SealFile
  <2>2. e.seal \in 0..MaxPasses BY DEF SealFile, Typed, HeldTyped, Planned
  <2>3. StoredTyped' BY <2>1, <2>2 DEF Typed, StoredTyped, OneKeyEach
  <2>4. StepsTyped' BY <2>1 DEF Typed, StepsTyped
  <2>5. HeldTyped'
      BY <2>1 DEF SealFile, Typed, HeldTyped, StepsTyped, Planned, OneKeyEach
  <2> QED BY <2>1, <2>3, <2>4, <2>5 DEF Typed, CountedTyped, counted
<1> QED BY <1>1, <1>2

LEMMA CheckSealedTyped ==
    ASSUME Typed, NotesAssumption, BoundsAssumption, NEW n \in Notes, CheckSealed(n)
    PROVE  Typed'
<1>1. PICK e \in Unchecked(n) :
        \/ /\ todo' = [todo EXCEPT ![n] = @ \ {e}] /\ at' = [at EXCEPT ![n] = "sealing"]
           /\ UNCHANGED <<stored, snap, cur, group, plan, counted>>
        \/ /\ seal' = [seal EXCEPT ![e.file] = 0]
           /\ Ends(Pass(n))
           /\ UNCHANGED <<text, shows, locked, list, history, made, cur, counted>>
    BY DEF CheckSealed
<1>2. at[n] = "checking" BY <1>1 DEF Unchecked
<1>3. CASE UNCHANGED stored /\ todo' = [todo EXCEPT ![n] = @ \ {e}] /\ at' = [at EXCEPT ![n] = "sealing"]
           /\ UNCHANGED <<snap, cur, group, plan, counted>>
  <2>1. StoredTyped' BY <1>3 DEF Typed, stored, StoredTyped, OneKeyEach
  <2>2. StepsTyped' BY <1>3 DEF Typed, StepsTyped
  <2>3. /\ plan' = plan /\ snap' = snap /\ todo' \in [Notes -> SUBSET Entry]
        /\ \A m \in Notes : todo'[m] \subseteq todo[m] /\ (at'[m] \in Planned => at[m] \in Planned)
      BY <1>2, <1>3 DEF Typed, HeldTyped, StepsTyped, Planned
  <2>4. HeldTyped' BY <2>3 DEF Typed, HeldTyped, OneKeyEach
  <2> QED BY <2>4, <1>3, <2>1, <2>2, <2>3 DEF Typed, CountedTyped, counted
<1>4. CASE /\ seal' = [seal EXCEPT ![e.file] = 0]
           /\ Ends(Pass(n))
           /\ UNCHANGED <<text, shows, locked, list, history, made, cur, counted>>
  <2>0. 0 \in 0..MaxPasses BY BoundsAssumption DEF BoundsAssumption
  <2>1. StoredTyped' BY <1>4, <2>0 DEF Typed, StoredTyped, OneKeyEach
  <2>2. cur' \in [Notes -> BOOLEAN] BY <1>4 DEF Typed, StepsTyped
  <2> QED BY <1>4, <2>1, <2>2, EndsTyped DEF Typed, CountedTyped, counted
<1> QED BY <1>1, <1>3, <1>4

LEMMA LockNotesTyped ==
    ASSUME Typed, NotesAssumption, NEW n \in Notes, LockNotes(n)
    PROVE  Typed'
<1> DEFINE S == Pass(n)
<1>1. CASE Fails(S) BY <1>1, FailsTyped
<1>2. CASE ~Fails(S)
  <2>1. /\ text' = [m \in Notes |-> IF m \in S THEN snap[m].text ELSE text[m]]
        /\ shows' = [m \in Notes |-> IF m \in S THEN FilesOf(plan[m]) ELSE shows[m]]
        /\ locked' = [m \in Notes |-> m \in S \/ locked[m]]
        /\ list' = [m \in Notes |-> IF m \in S THEN plan[m] ELSE list[m]]
        /\ history' = [m \in Notes |-> IF m \in S THEN {} ELSE history[m]]
        /\ Ends(S) /\ cur' = [m \in Notes |-> m \notin S /\ cur[m]]
        /\ UNCHANGED <<made, seal, counted>>
      BY <1>2 DEF LockNotes
  <2>2. \A m \in S : at[m] \in Planned BY DEF LockNotes, Planned
  <2>3. \A m \in Notes : FilesOf(plan[m]) \subseteq Files /\ snap[m].text \in 0..MaxEdits
      BY DEF Typed, HeldTyped, FilesOf, Entry, Snap
  <2>4. StoredTyped'
    <3>1. text' \in [Notes -> 0..MaxEdits] /\ shows' \in [Notes -> SUBSET Files]
        BY <2>1, <2>3 DEF Typed, StoredTyped
    <3>2. /\ locked' \in [Notes -> BOOLEAN]
          /\ list' \in [Notes -> SUBSET Entry] /\ history' \in [Notes -> SUBSET Entry]
        BY <2>1 DEF Typed, StoredTyped, HeldTyped
    <3>3. \A m \in Notes : OneKeyEach(list'[m])
        BY <2>1, <2>2 DEF Typed, StoredTyped, HeldTyped, OneKeyEach
    <3> QED BY <2>1, <3>1, <3>2, <3>3 DEF Typed, StoredTyped, OneKeyEach
  <2>5. cur' \in [Notes -> BOOLEAN] BY <2>1 DEF Typed, StepsTyped
  <2> QED BY <2>1, <2>4, <2>5, EndsTyped DEF Typed, CountedTyped, counted
<1> QED BY <1>1, <1>2

-----------------------------------------------------------------------------
(* Unlocking, undoing and the other writers *)

\* A step that leaves the notes' lists and every pass alone, but what it holds.
LEMMA HoldsTyped ==
    ASSUME Typed, NEW n \in Notes, at[n] \notin Planned, StepsTyped',
           \A m \in Notes : m # n => at'[m] = at[m] /\ plan'[m] = plan[m] /\ todo'[m] = todo[m],
           at'[n] \notin Planned, snap' = snap,
           plan' \in [Notes -> SUBSET Entry], todo' \in [Notes -> SUBSET Entry]
    PROVE  HeldTyped'
BY DEF Typed, HeldTyped, StepsTyped, OneKeyEach, Planned

LEMMA StartRemoveTyped ==
    ASSUME Typed, NEW n \in Notes, StartRemove(n)
    PROVE  Typed'
<1>1. StoredTyped' /\ CountedTyped'
    BY BoundsAssumption DEF BoundsAssumption, StartRemove, Starts, stored, Typed, StoredTyped, CountedTyped, OneKeyEach
<1>2. StepsTyped' BY DEF StartRemove, Typed, StepsTyped
<1>3. plan' \in [Notes -> SUBSET Entry] /\ todo' \in [Notes -> SUBSET Entry]
    BY DEF StartRemove, Typed, StoredTyped, HeldTyped
<1>4. HeldTyped'
    BY <1>2, <1>3, HoldsTyped DEF StartRemove, Idle, Planned, Typed, StepsTyped, HeldTyped
<1> QED BY <1>1, <1>2, <1>4 DEF Typed

LEMMA RemoveTyped ==
    ASSUME Typed, NotesAssumption, BoundsAssumption, NEW n \in Notes, Remove(n)
    PROVE  Typed'
<1> DEFINE shared == FilesOf(todo[n])
<1>1. CASE Fails({n}) BY <1>1, FailsTyped
<1>2. CASE ~Fails({n})
  <2>1. /\ HasRoom(shared)
        /\ made' = made \cup {Copier(shared)[f] : f \in shared}
        /\ shows' = [shows EXCEPT ![n] = {IF f \in shared THEN Copier(shared)[f] ELSE f : f \in shows[n]}]
        /\ seal' = [f \in Files |-> IF f \in FilesOf(plan[n]) THEN 0 ELSE seal[f]]
        /\ locked' = [locked EXCEPT ![n] = FALSE] /\ list' = [list EXCEPT ![n] = {}]
        /\ Ends({n}) /\ Writes(n)
        /\ UNCHANGED <<text, history, counted>>
      BY <1>2 DEF Remove
  <2>2. shared \in SUBSET Files BY DEF Typed, HeldTyped, FilesOf, Entry
  <2>3. Copier(shared) \in [shared -> Spare] /\ Spare \subseteq Files
      BY <2>1, <2>2, Copying DEF Spare
  <2>4. made' \subseteq Files /\ shows' \in [Notes -> SUBSET Files]
      BY <2>1, <2>3 DEF Typed, StoredTyped
  <2>5. StoredTyped' BY <2>1, <2>4 DEF Typed, StoredTyped, OneKeyEach, BoundsAssumption
  <2>6. cur' \in [Notes -> BOOLEAN] BY <2>1 DEF Writes, Typed, StepsTyped
  <2> QED BY <2>1, <2>5, <2>6, EndsTyped DEF Typed, CountedTyped, counted
<1> QED BY <1>1, <1>2

LEMMA StartUndoTyped ==
    ASSUME Typed, NEW n \in Notes, StartUndo(n)
    PROVE  Typed'
<1>1. StoredTyped' /\ CountedTyped'
    BY BoundsAssumption DEF BoundsAssumption, StartUndo, counted, stored, Typed, StoredTyped, CountedTyped, OneKeyEach
<1>2. StepsTyped' BY DEF StartUndo, Typed, StepsTyped
<1>3. plan' \in [Notes -> SUBSET Entry] /\ todo' \in [Notes -> SUBSET Entry]
    BY DEF StartUndo, Typed, StoredTyped, HeldTyped
<1>4. HeldTyped'
    BY <1>2, <1>3, HoldsTyped DEF StartUndo, Idle, Planned, Typed, StepsTyped, HeldTyped
<1> QED BY <1>1, <1>2, <1>4 DEF Typed

\* A new plain file for one that others keep.
LEMMA OneCopy ==
    ASSUME NotesAssumption, NEW f \in Files, HasRoom({f})
    PROVE  Copier({f})[f] \in Spare /\ Copier({f})[f] \in Files
BY Copying DEF Spare

LEMMA UndoFileTyped ==
    ASSUME Typed, NotesAssumption, BoundsAssumption, NEW n \in Notes, UndoFile(n)
    PROVE  Typed'
<1>1. PICK e \in todo[n] :
        LET f == e.file
            others == HeldByOthers(n, f) IN
        /\ todo' = [todo EXCEPT ![n] = @ \ {e}]
        /\ CASE e.from # None ->
                  /\ made' = IF others \/ \E m \in Notes \ {n} : Owns(m, f) THEN made ELSE made \ {f}
                  /\ seal' = [seal EXCEPT ![f] = IF f \in made' THEN @ ELSE 0]
                  /\ UNCHANGED plan
             [] e.from = None /\ f \in made /\ seal[f] = e.seal /\ ~others ->
                  seal' = [seal EXCEPT ![f] = 0] /\ UNCHANGED <<made, plan>>
             [] e.from = None /\ f \in made /\ seal[f] = e.seal /\ others ->
                  /\ HasRoom({f}) /\ UNCHANGED seal
                  /\ made' = made \cup {Copier({f})[f]}
                  /\ plan' = [plan EXCEPT ![n] = @ \cup {[file |-> Copier({f})[f], seal |-> 0, from |-> f]}]
             [] OTHER -> seal[f] = 0 /\ UNCHANGED <<made, seal, plan>>
    BY DEF UndoFile
<1>2. e \in Entry /\ e.file \in Files BY DEF Typed, HeldTyped, Entry
<1>3. 0 \in 0..MaxPasses BY BoundsAssumption DEF BoundsAssumption
<1>4. made' \subseteq Files /\ seal' \in [Files -> 0..MaxPasses] /\ plan' \in [Notes -> SUBSET Entry]
  <2>1. CASE e.from # None
      BY <1>1, <1>2, <1>3, <2>1 DEF Typed, StoredTyped, HeldTyped
  <2>2. CASE e.from = None /\ e.file \in made /\ seal[e.file] = e.seal /\ ~HeldByOthers(n, e.file)
      BY <1>1, <1>2, <1>3, <2>2 DEF Typed, StoredTyped, HeldTyped
  <2>3. CASE e.from = None /\ e.file \in made /\ seal[e.file] = e.seal /\ HeldByOthers(n, e.file)
    <3> DEFINE c == Copier({e.file})[e.file]
    <3>1. /\ HasRoom({e.file}) /\ UNCHANGED seal /\ made' = made \cup {c}
          /\ plan' = [plan EXCEPT ![n] = @ \cup {[file |-> c, seal |-> 0, from |-> e.file]}]
        BY <1>1, <2>3
    <3>2. c \in Files BY <3>1, <1>2, OneCopy
    <3>3. [file |-> c, seal |-> 0, from |-> e.file] \in Entry BY <3>2, <1>2 DEF Entry
    <3> HIDE DEF c
    <3> QED BY <3>1, <3>2, <3>3 DEF Typed, StoredTyped, HeldTyped
  <2>4. CASE e.from = None /\ ~(e.file \in made /\ seal[e.file] = e.seal)
      BY <1>1, <2>4 DEF Typed, StoredTyped, HeldTyped
  <2> QED BY <2>1, <2>2, <2>3, <2>4
<1>5. StoredTyped' BY <1>4 DEF UndoFile, Typed, StoredTyped, OneKeyEach
<1>6. StepsTyped' BY DEF UndoFile, Typed, StepsTyped
<1>7. HeldTyped'
  <2>1. todo' \in [Notes -> SUBSET Entry] BY <1>1 DEF Typed, HeldTyped
  <2>2. \A m \in Notes : m # n => plan'[m] = plan[m] /\ todo'[m] = todo[m]
      BY <1>1, <1>4 DEF Typed, HeldTyped
  <2> QED BY <2>1, <2>2, <1>4, <1>6, HoldsTyped DEF UndoFile, Planned
<1> QED BY <1>5, <1>6, <1>7 DEF UndoFile, Typed, CountedTyped, counted

LEMMA UndoEndsTyped ==
    ASSUME Typed, NotesAssumption, NEW n \in Notes, UndoEnds(n)
    PROVE  Typed'
<1>1. CASE Fails({n}) BY <1>1, FailsTyped
<1>2. CASE ~Fails({n})
  <2> DEFINE moved(f) == {e.file : e \in {p \in plan[n] : p.from = f}}
             now == UNION {IF moved(f) = {} THEN {f} ELSE moved(f) : f \in shows[n] \cap made}
  <2>1. /\ shows' = [shows EXCEPT ![n] = now] /\ list' = [list EXCEPT ![n] = {}]
        /\ Ends({n}) /\ Writes(n)
        /\ UNCHANGED <<text, locked, history, made, seal, counted>>
      BY <1>2 DEF UndoEnds
  <2>2. \A f : moved(f) \subseteq Files BY DEF Typed, HeldTyped, Entry
  <2>3. now \in SUBSET Files BY <2>2 DEF Typed, StoredTyped
  <2> HIDE DEF now
  <2>4. StoredTyped' BY <2>1, <2>3 DEF Typed, StoredTyped, OneKeyEach
  <2>5. cur' \in [Notes -> BOOLEAN] BY <2>1 DEF Writes, Typed, StepsTyped
  <2> QED BY <2>1, <2>4, <2>5, EndsTyped DEF Typed, CountedTyped, counted
<1> QED BY <1>1, <1>2

\* What another writer writes.
LEMMA WriterTyped ==
    ASSUME Typed, NEW n \in Notes, StoredTyped', Writes(n) , edits < MaxEdits, edits' = edits + 1,
           UNCHANGED <<at, snap, group, plan, todo, passes, faults>>
    PROVE  Typed'
<1>1. StepsTyped' BY DEF Typed, StepsTyped, Writes
<1>2. HeldTyped' BY DEF Typed, HeldTyped, OneKeyEach
<1> QED BY <1>1, <1>2, BoundsAssumption DEF BoundsAssumption, Typed, CountedTyped

LEMMA EditTyped ==
    ASSUME Typed, NEW n \in Notes, NEW files \in SUBSET Linkable, Edit(n, files)
    PROVE  Typed'
<1>1. StoredTyped'
    BY BoundsAssumption DEF BoundsAssumption, Typed, Edit, StoredTyped, CountedTyped, OneKeyEach, Linkable
<1> QED BY <1>1, WriterTyped DEF Edit

LEMMA ReplaceTyped ==
    ASSUME Typed, NEW n \in Notes, NEW files \in SUBSET Linkable, Replace(n, files)
    PROVE  Typed'
<1>1. StoredTyped'
    BY BoundsAssumption DEF BoundsAssumption, Typed, Replace, StoredTyped, CountedTyped, OneKeyEach,
       Linkable
<1> QED BY <1>1, WriterTyped DEF Replace

LEMMA TouchTyped ==
    ASSUME Typed, NEW n \in Notes, Touch(n)
    PROVE  Typed'
<1>1. StoredTyped' BY DEF Typed, Touch, stored, StoredTyped, OneKeyEach
<1> QED BY <1>1, WriterTyped DEF Touch

LEMMA StopTyped ==
    ASSUME Typed, NotesAssumption, NEW S, Ends(S), UNCHANGED <<stored, edits, passes>>,
           cur' \in [Notes -> BOOLEAN], faults < MaxFaults, faults' = faults + 1
    PROVE  Typed'
<1>1. StoredTyped' BY DEF Typed, stored, StoredTyped, OneKeyEach
<1>2. CountedTyped' BY BoundsAssumption DEF BoundsAssumption, Typed, CountedTyped
<1> QED BY <1>1, <1>2, EndsTyped DEF Typed

LEMMA TypedStep == Typed /\ [Next]_vars => Typed'
<1> SUFFICES ASSUME Typed, [Next]_vars PROVE Typed' OBVIOUS
<1> USE NotesAssumption, BoundsAssumption
<1>1. ASSUME NEW locking \in {Book} \cup {{n} : n \in Notes}, StartLock(locking) PROVE Typed'
  <2>1. locking \in SUBSET Notes BY DEF NotesAssumption
  <2> QED BY <2>1, <1>1, StartLockTyped
<1>2. ASSUME NEW n \in Notes, NEW files \in SUBSET Linkable, StartSave(n, files) \/ Edit(n, files) \/ Replace(n, files)
      PROVE  Typed'
    BY <1>2, StartSaveTyped, EditTyped, ReplaceTyped
<1>3. ASSUME NEW n \in Notes,
             Plan(n) \/ Journal(n) \/ SealFile(n) \/ CheckSealed(n) \/ LockNotes(n)
      PROVE  Typed'
    BY <1>3, PlanTyped, JournalTyped, SealFileTyped, CheckSealedTyped, LockNotesTyped
<1>4. ASSUME NEW n \in Notes,
             StartRemove(n) \/ Remove(n) \/ StartUndo(n) \/ UndoFile(n) \/ UndoEnds(n) \/ Touch(n)
      PROVE  Typed'
    BY <1>4, StartRemoveTyped, RemoveTyped, StartUndoTyped, UndoFileTyped, UndoEndsTyped, TouchTyped
<1>5. ASSUME NEW n \in Notes, PlanFails(n) \/ UndoFails(n) PROVE Typed'
    BY <1>5, FailsTyped DEF PlanFails, UndoFails
<1>6. ASSUME NEW n \in Notes, Stop(n) PROVE Typed'
    BY <1>6, StopTyped DEF Stop, Typed, StepsTyped
<1>7. CASE Quit BY <1>7, StopTyped DEF Quit
<1>8. CASE UNCHANGED vars
    BY <1>8 DEF vars, stored, running, counted, Typed, StoredTyped, StepsTyped, HeldTyped, CountedTyped,
            OneKeyEach
<1> QED BY <1>1, <1>2, <1>3, <1>4, <1>5, <1>6, <1>7, <1>8 DEF Next

LEMMA AlwaysTyped == Spec => []Typed
BY TypedInit, TypedStep, PTL DEF Spec

\* Every note, list, plan and file has its type: a list names a file once, and
\* what a pass has still to seal is in its plan (seal_note_files, plans.retain).
THEOREM TypeCorrect == Spec => []TypeOK
BY AlwaysTyped, TypedIsTypeOK, PTL

-----------------------------------------------------------------------------
(* The journal comes first *)

\* While a pass seals, the stored note has, or had, the keys it seals under.
KeysFirst == \A m \in Notes : at[m] \in {"sealing", "checking"} => todo[m] \subseteq list[m] \cup history[m]

LEMMA KeysFirstStep ==
    ASSUME Typed, KeysFirst, [Next]_vars
    PROVE  KeysFirst'
<1>1. ASSUME NEW S, Ends(S), UNCHANGED <<list, history>> PROVE KeysFirst'
    BY <1>1 DEF Ends, KeysFirst
<1>2. ASSUME NEW S, Fails(S) PROVE KeysFirst' BY <1>2, <1>1 DEF Fails, stored
<1>3. ASSUME NEW locking, StartLock(locking) PROVE KeysFirst'
    BY <1>3 DEF StartLock, Starts, stored, Typed, StepsTyped, KeysFirst
<1>4. ASSUME NEW n \in Notes, NEW files, StartSave(n, files) \/ StartRemove(n) \/ StartUndo(n)
      PROVE  KeysFirst'
    BY <1>4 DEF StartSave, StartRemove, StartUndo, Starts, counted, stored, Typed, StepsTyped, HeldTyped, KeysFirst
<1>5. ASSUME NEW n \in Notes, Plan(n) PROVE KeysFirst'
  <2>1. /\ at' = [at EXCEPT ![n] = IF Unsealed(n) = {} THEN "sealing" ELSE "planned"]
        /\ todo' = [todo EXCEPT ![n] = New(n, Copier(Shared(n)))]
        /\ UNCHANGED <<list, history>>
      BY <1>5 DEF Plan
  <2>2. Unsealed(n) = {} => New(n, Copier(Shared(n))) = {} BY DEF New
  <2> QED BY <2>1, <2>2 DEF Typed, StepsTyped, HeldTyped, KeysFirst
<1>6. ASSUME NEW n \in Notes, Journal(n) PROVE KeysFirst'
  <2>1. CASE Fails(Pass(n)) BY <2>1, <1>2
  <2>2. CASE ~Fails(Pass(n))
    <3>1. todo[n] \subseteq plan[n] BY <1>6 DEF Journal, Planned, Typed, HeldTyped
    <3> QED BY <1>6, <2>2, <3>1 DEF Journal, Typed, StoredTyped, StepsTyped, KeysFirst
  <2> QED BY <2>1, <2>2
<1>7. ASSUME NEW n \in Notes, SealFile(n) PROVE KeysFirst'
  <2>1. CASE Fails(Pass(n)) BY <2>1, <1>2
  <2>2. CASE ~Fails(Pass(n)) BY <1>7, <2>2 DEF SealFile, Typed, StepsTyped, KeysFirst
  <2> QED BY <2>1, <2>2
<1>8. ASSUME NEW n \in Notes, CheckSealed(n) PROVE KeysFirst'
  <2>1. PICK e \in Unchecked(n) :
          \/ /\ todo' = [todo EXCEPT ![n] = @ \ {e}] /\ at' = [at EXCEPT ![n] = "sealing"]
             /\ UNCHANGED stored
          \/ Ends(Pass(n)) /\ UNCHANGED <<list, history>>
      BY <1>8 DEF CheckSealed
  <2>2. at[n] = "checking" BY <2>1 DEF Unchecked
  <2> QED BY <1>1, <2>1, <2>2 DEF stored, Typed, StepsTyped, HeldTyped, KeysFirst
<1>9. ASSUME NEW n \in Notes, LockNotes(n) PROVE KeysFirst'
  <2>1. CASE Fails(Pass(n)) BY <2>1, <1>2
  <2>2. CASE ~Fails(Pass(n)) BY <1>9, <2>2 DEF LockNotes, Ends, KeysFirst
  <2> QED BY <2>1, <2>2
<1>10. ASSUME NEW n \in Notes, Remove(n) \/ UndoEnds(n) PROVE KeysFirst'
  <2>1. CASE Fails({n}) BY <2>1, <1>2
  <2>2. CASE ~Fails({n}) BY <1>10, <2>2 DEF Remove, UndoEnds, Ends, KeysFirst, Typed, StoredTyped
  <2> QED BY <2>1, <2>2
<1>11. ASSUME NEW n \in Notes, UndoFile(n) PROVE KeysFirst'
    BY <1>11 DEF UndoFile, Typed, HeldTyped, KeysFirst
<1>12. ASSUME NEW n \in Notes, NEW files, Edit(n, files) \/ Touch(n) PROVE KeysFirst'
    BY <1>12 DEF Edit, Touch, stored, KeysFirst
<1>13. ASSUME NEW n \in Notes, NEW files, Replace(n, files) PROVE KeysFirst'
    BY <1>13 DEF Replace, Typed, StoredTyped, KeysFirst
<1>14. ASSUME NEW n \in Notes, PlanFails(n) \/ UndoFails(n) \/ Stop(n) PROVE KeysFirst'
    BY <1>14, <1>1, <1>2 DEF PlanFails, UndoFails, Stop, stored
<1>15. CASE Quit BY <1>15, <1>1 DEF Quit, stored
<1>16. CASE UNCHANGED vars BY <1>16 DEF vars, stored, running, KeysFirst
<1> QED BY <1>3, <1>4, <1>5, <1>6, <1>7, <1>8, <1>9, <1>10, <1>11, <1>12, <1>13, <1>14, <1>15, <1>16 DEF Next

\* A file that becomes sealed is one that a pass is sealing.
LEMMA SealsOnly ==
    ASSUME Typed, [Next]_vars, NEW f \in Files, seal[f] = 0, seal'[f] # 0
    PROVE  \E n \in Notes : at[n] = "sealing" /\ \E e \in todo[n] : e.file = f /\ e.seal = seal'[f]
<1>1. ASSUME NEW n \in Notes, SealFile(n)
      PROVE  at[n] = "sealing" /\ \E e \in todo[n] : e.file = f /\ e.seal = seal'[f]
  <2>1. PICK e \in todo[n] : Fails(Pass(n)) \/ seal' = [seal EXCEPT ![e.file] = e.seal]
      BY <1>1 DEF SealFile
  <2>2. ~Fails(Pass(n)) BY DEF Fails, stored
  <2> QED BY <1>1, <2>1, <2>2 DEF SealFile, Typed, StoredTyped
<1>2. ASSUME NEW S, Fails(S) PROVE FALSE BY <1>2 DEF Fails, stored
<1>3. ASSUME seal' = seal PROVE FALSE BY <1>3
<1>4. ASSUME NEW locking, StartLock(locking) PROVE FALSE BY <1>4, <1>3 DEF StartLock, Starts, stored
<1>5. ASSUME NEW n \in Notes, NEW files, StartSave(n, files) \/ Edit(n, files) \/ Replace(n, files) PROVE FALSE
    BY <1>5, <1>3 DEF StartSave, Edit, Replace, stored
<1>6. ASSUME NEW n \in Notes, Plan(n) \/ PlanFails(n) \/ Journal(n) \/ LockNotes(n) \/ UndoFails(n) \/ UndoEnds(n)
      PROVE  FALSE
    BY <1>6, <1>2, <1>3 DEF Plan, PlanFails, Journal, LockNotes, UndoFails, UndoEnds
<1>7. ASSUME NEW n \in Notes, StartRemove(n) \/ StartUndo(n) \/ Touch(n) \/ Stop(n) PROVE FALSE
    BY <1>7, <1>3 DEF StartRemove, StartUndo, Starts, counted, Touch, Stop, stored
<1>8. ASSUME NEW n \in Notes, CheckSealed(n) PROVE FALSE
    BY <1>8 DEF CheckSealed, stored, Typed, StoredTyped
<1>9. ASSUME NEW n \in Notes, Remove(n) PROVE FALSE
    BY <1>9, <1>2 DEF Remove
<1>10. ASSUME NEW n \in Notes, UndoFile(n) PROVE FALSE
    BY <1>10 DEF UndoFile, Typed, StoredTyped
<1>11. CASE Quit BY <1>11, <1>3 DEF Quit, stored
<1>12. CASE UNCHANGED vars BY <1>12, <1>3 DEF vars, stored
<1> QED BY <1>1, <1>4, <1>5, <1>6, <1>7, <1>8, <1>9, <1>10, <1>11, <1>12 DEF Next

\* A file is sealed under a key that a note's list, or a version of it that
\* sync replaced, already has, so a stop after it leaves no file without a key
\* (set_note_files before seal_file), in a notebook's lock as well.
THEOREM JournalLeads == Spec => SealsListed
<1>1. Init => KeysFirst BY DEF Init, KeysFirst
<1>2. Typed /\ KeysFirst /\ [Next]_vars =>
          [\A f \in Files : seal[f] = 0 /\ seal'[f] # 0 =>
              \E n \in Notes : \E e \in list[n] \cup history[n] : e.file = f /\ e.seal = seal'[f]]_vars
    BY SealsOnly DEF KeysFirst
<1> QED BY <1>1, <1>2, KeysFirstStep, AlwaysTyped, PTL DEF Spec, SealsListed

-----------------------------------------------------------------------------
(* What each step does, when every note is locked on its own *)

\* Without notebooks a pass is of one note.
Solo == \A n \in Notes : group[n] = IF at[n] \in Running THEN {n} ELSE {}

LEMMA PassAlone ==
    ASSUME Solo, NEW n \in Notes
    PROVE  Pass(n) = IF at[n] \in Running THEN {n} ELSE {}
BY DEF Solo, Pass, Running

Unmoved(n) == at'[n] = at[n] /\ snap'[n] = snap[n] /\ plan'[n] = plan[n] /\ todo'[n] = todo[n]
Ended(n) == at'[n] = "idle" /\ snap'[n] = NoSnap /\ plan'[n] = {} /\ todo'[n] = {}
Unwritten(n) ==
    shows'[n] = shows[n] /\ locked'[n] = locked[n] /\ list'[n] = list[n] /\ history'[n] = history[n]
Others(n) == \A m \in Notes \ {n} : Unmoved(m) /\ Unwritten(m)
FilesStay == made' = made /\ seal' = seal
Sealed1(f, s) == \A g \in Files : seal'[g] = IF g = f THEN s ELSE seal[g]

\* Nothing is stored, and passes go on as they are or end.
Quiet == FilesStay /\ passes' = passes /\ \A n \in Notes : Unwritten(n) /\ (Unmoved(n) \/ Ended(n))

Begins(n) ==
    /\ FilesStay /\ Others(n) /\ Unwritten(n) /\ passes' = passes + 1
    /\ at[n] = "idle" /\ at'[n] = "read" /\ plan'[n] = plan[n] /\ todo'[n] = todo[n]
    /\ snap'[n].list = list[n] /\ snap'[n].seal = passes + 1
    /\ shows[n] \subseteq snap'[n].shows /\ snap'[n].shows \subseteq shows[n] \cup Linkable

Plans(n) ==
    /\ Others(n) /\ Unwritten(n) /\ seal' = seal /\ passes' = passes
    /\ at[n] = "read" /\ at'[n] \in {"planned", "sealing"} /\ (at'[n] = "sealing" => todo'[n] = {})
    /\ snap'[n] = snap[n] /\ HasRoom(Shared(n))
    /\ made' = made \cup {Copier(Shared(n))[f] : f \in Shared(n)}
    /\ todo'[n] = New(n, Copier(Shared(n)))
    /\ \E reused \in OneEach(Listed(n) \cup Again(n)) : plan'[n] = reused \cup New(n, Copier(Shared(n)))
    /\ \A f \in Sealed(n) : Opens(n, f) \/ MaybeInSession(f)

Journals(n) ==
    /\ Others(n) /\ FilesStay /\ passes' = passes
    /\ at[n] = "planned" /\ at'[n] = "sealing" /\ snap'[n] = snap[n] /\ plan'[n] = plan[n] /\ todo'[n] = todo[n]
    /\ shows'[n] = shows[n] /\ locked'[n] = locked[n] /\ history'[n] = history[n] /\ list'[n] = plan[n]
    /\ locked[n] \/ \A f \in shows[n] : seal[f] # 0 => f \in FilesOf(plan[n])

Seals(n, e) ==
    /\ Others(n) /\ Unwritten(n) /\ made' = made /\ passes' = passes
    /\ at[n] = "sealing" /\ at'[n] = "checking" /\ snap'[n] = snap[n] /\ plan'[n] = plan[n] /\ todo'[n] = todo[n]
    /\ e \in todo[n] /\ e.file \in made /\ seal[e.file] = 0 /\ Sealed1(e.file, e.seal)

Checks(n, e) ==
    /\ Others(n) /\ Unwritten(n) /\ FilesStay /\ passes' = passes
    /\ at[n] = "checking" /\ at'[n] = "sealing" /\ snap'[n] = snap[n] /\ plan'[n] = plan[n]
    /\ e \in todo[n] /\ seal[e.file] = e.seal /\ todo'[n] = todo[n] \ {e}

Reverts(n, e) ==
    /\ Others(n) /\ Unwritten(n) /\ made' = made /\ passes' = passes
    /\ at[n] = "checking" /\ Ended(n)
    /\ e \in todo[n] /\ seal[e.file] = e.seal /\ e \notin list[n] /\ Sealed1(e.file, 0)

Locks(n) ==
    /\ Others(n) /\ FilesStay /\ passes' = passes
    /\ at[n] = "sealing" /\ todo[n] = {} /\ Ended(n)
    /\ shows'[n] = FilesOf(plan[n]) /\ locked'[n] = TRUE /\ list'[n] = plan[n] /\ history'[n] = {}

Prepares(n) ==
    /\ Others(n) /\ Unwritten(n) /\ FilesStay /\ passes' = passes + 1
    /\ at[n] = "idle" /\ at'[n] = "removing" /\ snap'[n] = snap[n] /\ locked[n]
    /\ plan'[n] \cup todo'[n] = {e \in list[n] : e.file \in made /\ seal[e.file] # 0}
    /\ \A e \in plan'[n], m \in Notes \ {n} : ~Owns(m, e.file)

Removes(n) ==
    /\ Others(n) /\ passes' = passes /\ at[n] = "removing" /\ Ended(n)
    /\ HasRoom(FilesOf(todo[n]))
    /\ LET copy == Copier(FilesOf(todo[n])) IN
        /\ made' = made \cup {copy[f] : f \in FilesOf(todo[n])}
        /\ shows'[n] = {IF f \in FilesOf(todo[n]) THEN copy[f] ELSE f : f \in shows[n]}
    /\ \A f \in Files : seal'[f] = IF f \in FilesOf(plan[n]) THEN 0 ELSE seal[f]
    /\ locked'[n] = FALSE /\ list'[n] = {} /\ history'[n] = history[n]

BeginsUndo(n) ==
    /\ Others(n) /\ Unwritten(n) /\ FilesStay /\ passes' = passes
    /\ at[n] = "idle" /\ at'[n] = "undoing" /\ ~locked[n]
    /\ snap'[n] = snap[n] /\ plan'[n] = plan[n] /\ todo'[n] = list[n]

\* The file of e is deleted, unsealed or copied, or stays as it is.
Undoes(n, e) ==
    /\ Others(n) /\ Unwritten(n) /\ passes' = passes
    /\ at[n] = "undoing" /\ at'[n] = "undoing" /\ snap'[n] = snap[n]
    /\ e \in todo[n] /\ todo'[n] = todo[n] \ {e}
    /\ \/ FilesStay /\ plan'[n] = plan[n]
       \/ /\ ~HeldByOthers(n, e.file) /\ Sealed1(e.file, 0) /\ plan'[n] = plan[n]
          /\ \/ made' = made
             \/ made' = made \ {e.file} /\ e.from # None /\ \A m \in Notes \ {n} : ~Owns(m, e.file)
       \/ /\ seal' = seal /\ HasRoom({e.file}) /\ e.from = None
          /\ made' = made \cup {Copier({e.file})[e.file]}
          /\ plan'[n] = plan[n] \cup {[file |-> Copier({e.file})[e.file], seal |-> 0, from |-> e.file]}

EndsUndo(n) ==
    /\ Others(n) /\ FilesStay /\ passes' = passes /\ at[n] = "undoing" /\ Ended(n)
    /\ \A f \in shows'[n] : seal[f] = 0 /\ f \in shows[n] \cup FilesOf(plan[n])
    /\ locked'[n] = locked[n] /\ list'[n] = {} /\ history'[n] = history[n]

Edits(n) ==
    /\ Others(n) /\ FilesStay /\ passes' = passes /\ Unmoved(n) /\ ~locked[n]
    /\ locked'[n] = locked[n] /\ list'[n] = list[n] /\ history'[n] = history[n]
    /\ \A f \in shows'[n] : f \in Linkable /\ seal[f] = 0
    /\ \A m \in Notes : at[m] # "idle" => shows'[n] \cap FilesOf(todo[m]) \subseteq shows[n]

Replaces(n) ==
    /\ Others(n) /\ FilesStay /\ passes' = passes /\ Unmoved(n) /\ ~locked[n]
    /\ locked'[n] = locked[n] /\ list'[n] \in {list[n], {}} /\ history'[n] = history[n] \cup list[n]
    /\ shows'[n] \subseteq Linkable
    /\ \A m \in Notes : at[m] # "idle" => shows'[n] \cap FilesOf(todo[m]) \subseteq shows[n]

MoveOf(n) ==
    \/ Begins(n) \/ Plans(n) \/ Journals(n) \/ Locks(n) \/ Prepares(n) \/ Removes(n)
    \/ BeginsUndo(n) \/ EndsUndo(n) \/ Edits(n) \/ Replaces(n)
    \/ \E e \in todo[n] : Seals(n, e) \/ Checks(n, e) \/ Reverts(n, e) \/ Undoes(n, e)

Schedule == LinksApart /\ KeepsLinks /\ RemovesAlone

LEMMA SoloInit == Init => Solo
BY DEF Init, Solo, Running

LEMMA SoloStep ==
    ASSUME Book = {}, Typed, Solo, [Next]_vars
    PROVE  Solo'
<1> USE DEF Typed, StepsTyped
<1>1. ASSUME NEW S, Ends(S) PROVE Solo' BY <1>1 DEF Ends, Solo, Running
<1>2. ASSUME NEW S, Fails(S) PROVE Solo' BY <1>2, <1>1 DEF Fails
<1>3. ASSUME NEW locking \in {Book} \cup {{n} : n \in Notes}, StartLock(locking) PROVE Solo'
  <2>1. PICK n \in Notes : locking = {n} /\ ~locked[n] BY <1>3 DEF StartLock
  <2> QED BY <1>3, <2>1 DEF StartLock, Solo, Running
<1>4. ASSUME NEW n \in Notes, NEW files, StartSave(n, files) PROVE Solo'
    BY <1>4 DEF StartSave, Solo, Running
<1>5. ASSUME NEW n \in Notes, Plan(n) PROVE Solo' BY <1>5 DEF Plan, IsTurn, Solo, Running
<1>6. ASSUME NEW n \in Notes, Journal(n) \/ SealFile(n) PROVE Solo'
    BY <1>6, <1>2 DEF Journal, SealFile, Solo, Running
<1>7. ASSUME NEW n \in Notes, CheckSealed(n) PROVE Solo'
    BY <1>7, <1>1 DEF CheckSealed, Unchecked, Solo, Running
<1>8. ASSUME NEW n \in Notes, StartRemove(n) \/ StartUndo(n) PROVE Solo'
    BY <1>8 DEF StartRemove, StartUndo, Idle, Solo, Running
<1>9. ASSUME NEW n \in Notes,
             LockNotes(n) \/ Remove(n) \/ UndoFails(n) \/ UndoEnds(n) \/ PlanFails(n) \/ Stop(n) \/ Quit
      PROVE  Solo'
    BY <1>9, <1>1, <1>2 DEF LockNotes, Remove, UndoFails, UndoEnds, PlanFails, Stop, Quit
<1>10. ASSUME at' = at, group' = group PROVE Solo' BY <1>10 DEF Solo
<1>11. ASSUME NEW n \in Notes, NEW files, UndoFile(n) \/ Replace(n, files) \/ Touch(n) \/ Edit(n, files)
       PROVE  Solo'
    BY <1>11, <1>10 DEF UndoFile, Replace, Touch, Edit
<1>12. CASE UNCHANGED vars BY <1>12, <1>10 DEF vars, running
<1>13. CASE Quit BY <1>13, <1>1 DEF Quit
<1> QED BY <1>3, <1>4, <1>5, <1>6, <1>7, <1>8, <1>9, <1>11, <1>12, <1>13 DEF Next

LEMMA EndsAre ==
    ASSUME StepsTyped, NEW S, Ends(S)
    PROVE  \A n \in Notes : IF n \in S THEN Ended(n) ELSE Unmoved(n)
BY DEF Ends, Ended, Unmoved

LEMMA FailsAreQuiet ==
    ASSUME StepsTyped, NEW S, Fails(S)
    PROVE  Quiet
BY EndsAre DEF Fails, stored, counted, Quiet, FilesStay, Unwritten

LEMMA StartLockMoves ==
    ASSUME Book = {}, Typed, NEW locking \in {Book} \cup {{n} : n \in Notes}, StartLock(locking)
    PROVE  \E n \in Notes : Begins(n)
<1>1. PICK n \in Notes : locking = {n} /\ ~locked[n] BY DEF StartLock
<1>2. at[n] = "idle" /\ passes' = passes + 1 /\ UNCHANGED <<stored, plan, todo>>
    BY <1>1 DEF StartLock, Idle, Starts
<1>3. /\ snap'[n] = [text |-> text[n], shows |-> shows[n], list |-> list[n], seal |-> passes + 1]
      /\ at'[n] = "read"
      /\ \A m \in Notes \ {n} : at'[m] = at[m] /\ snap'[m] = snap[m]
    BY <1>1 DEF StartLock
<1>4. Begins(n)
    BY <1>2, <1>3 DEF Begins, FilesStay, Others, Unmoved, Unwritten, stored
<1> QED BY <1>4

LEMMA StartSaveMoves ==
    ASSUME Typed, NEW n \in Notes, NEW files \in SUBSET Linkable, StartSave(n, files), Schedule
    PROVE  Begins(n)
<1>1. /\ at[n] = "idle" /\ locked[n] /\ passes' = passes + 1
      /\ UNCHANGED <<stored, plan, todo>>
    BY DEF StartSave, Idle
<1>2. /\ snap'[n] = [text |-> edits + 1, shows |-> files, list |-> list[n], seal |-> passes + 1]
      /\ at'[n] = "read"
      /\ \A m \in Notes \ {n} : at'[m] = at[m] /\ snap'[m] = snap[m]
    BY DEF StartSave, Typed, StepsTyped, HeldTyped
<1>3. shows[n] \subseteq snap'[n].shows
    BY <1>1, <1>2 DEF Schedule, KeepsLinks, Idle
<1>4. snap'[n].list = list[n] /\ snap'[n].seal = passes + 1 /\ snap'[n].shows \subseteq Linkable
    BY <1>2
<1> QED BY <1>1, <1>2, <1>3, <1>4 DEF Begins, FilesStay, Others, Unmoved, Unwritten, stored

LEMMA PlanMoves ==
    ASSUME Typed, NEW n \in Notes, Plan(n)
    PROVE  Plans(n)
<1> DEFINE new == New(n, Copier(Shared(n)))
<1>1. Unsealed(n) = {} => new = {} BY DEF New
<1>2. PICK reused \in OneEach(Listed(n) \cup Again(n)) : plan' = [plan EXCEPT ![n] = reused \cup new]
    BY DEF Plan
<1>3. plan'[n] = reused \cup new /\ \A m \in Notes \ {n} : plan'[m] = plan[m]
    BY <1>2 DEF Typed, HeldTyped
<1>4. todo'[n] = new /\ \A m \in Notes \ {n} : todo'[m] = todo[m] BY DEF Plan, Typed, HeldTyped
<1>5. /\ at'[n] = IF Unsealed(n) = {} THEN "sealing" ELSE "planned"
      /\ \A m \in Notes \ {n} : at'[m] = at[m]
    BY DEF Plan, Typed, StepsTyped
<1> QED BY <1>1, <1>3, <1>4, <1>5 DEF Plan, IsTurn, Plans, Others, Unmoved, Unwritten, counted

LEMMA JournalMoves ==
    ASSUME Typed, NEW n \in Notes, Journal(n)
    PROVE  Quiet \/ Journals(n)
<1>1. CASE Fails(Pass(n)) BY <1>1, FailsAreQuiet DEF Typed
<1>2. CASE ~Fails(Pass(n))
    BY <1>2 DEF Journal, Typed, StepsTyped, StoredTyped, Journals, Others, Unmoved, Unwritten, FilesStay, counted
<1> QED BY <1>1, <1>2

LEMMA SealFileMoves ==
    ASSUME Typed, NEW n \in Notes, SealFile(n)
    PROVE  Quiet \/ \E e \in todo[n] : Seals(n, e)
<1>1. CASE Fails(Pass(n)) BY <1>1, FailsAreQuiet DEF Typed
<1>2. CASE ~Fails(Pass(n))
  <2>1. PICK e \in todo[n] :
            /\ e.file \in made /\ seal[e.file] = 0
            /\ seal' = [seal EXCEPT ![e.file] = e.seal]
            /\ at' = [at EXCEPT ![n] = "checking"]
            /\ UNCHANGED <<text, shows, locked, list, history, made, snap, cur, group, plan, todo, counted>>
      BY <1>2 DEF SealFile
  <2>2. Seals(n, e)
      BY <2>1 DEF SealFile, Typed, StepsTyped, StoredTyped, Seals, Others, Unmoved, Unwritten, Sealed1, counted
  <2> QED BY <2>2
<1> QED BY <1>1, <1>2

LEMMA CheckSealedMoves ==
    ASSUME Typed, Solo, NEW n \in Notes, CheckSealed(n)
    PROVE  \E e \in todo[n] : Checks(n, e) \/ Reverts(n, e)
<1>1. PICK e \in Unchecked(n) :
        \/ /\ e \in list[n]
           /\ todo' = [todo EXCEPT ![n] = @ \ {e}] /\ at' = [at EXCEPT ![n] = "sealing"]
           /\ UNCHANGED <<stored, snap, cur, group, plan, counted>>
        \/ /\ e \notin list[n]
           /\ seal' = [seal EXCEPT ![e.file] = 0]
           /\ Ends(Pass(n))
           /\ UNCHANGED <<text, shows, locked, list, history, made, cur, counted>>
    BY DEF CheckSealed, KeyIsListed
<1>2. at[n] = "checking" /\ e \in todo[n] /\ seal[e.file] = e.seal BY <1>1 DEF Unchecked
<1>3. CASE e \in list[n]
  <2>1. Checks(n, e)
      BY <1>1, <1>2, <1>3 DEF Typed, StepsTyped, HeldTyped, Checks, Others, Unmoved, Unwritten, FilesStay, stored, counted
  <2> QED BY <1>2, <2>1
<1>4. CASE e \notin list[n]
  <2>1. Pass(n) = {n} BY <1>2, PassAlone DEF Running
  <2>2. \A m \in Notes : IF m = n THEN Ended(m) ELSE Unmoved(m) BY <1>1, <1>4, <2>1, EndsAre DEF Typed
  <2>3. Sealed1(e.file, 0) BY <1>1, <1>4 DEF Typed, StoredTyped, Sealed1
  <2>4. Reverts(n, e)
      BY <1>1, <1>2, <1>4, <2>2, <2>3 DEF Reverts, Others, Unwritten, counted
  <2> QED BY <1>2, <2>4
<1> QED BY <1>3, <1>4

LEMMA LockNotesMoves ==
    ASSUME Typed, Solo, NEW n \in Notes, LockNotes(n)
    PROVE  Quiet \/ Locks(n)
<1>1. Pass(n) = {n} BY PassAlone DEF Running, LockNotes
<1>2. CASE Fails(Pass(n)) BY <1>2, FailsAreQuiet DEF Typed
<1>3. CASE ~Fails(Pass(n))
  <2>1. /\ shows' = [m \in Notes |-> IF m \in {n} THEN FilesOf(plan[m]) ELSE shows[m]]
        /\ locked' = [m \in Notes |-> m \in {n} \/ locked[m]]
        /\ list' = [m \in Notes |-> IF m \in {n} THEN plan[m] ELSE list[m]]
        /\ history' = [m \in Notes |-> IF m \in {n} THEN {} ELSE history[m]]
        /\ Ends({n}) /\ UNCHANGED <<made, seal, counted>>
        /\ at[n] = "sealing" /\ todo[n] = {}
      BY <1>1, <1>3 DEF LockNotes
  <2>2. \A m \in Notes : IF m = n THEN Ended(m) ELSE Unmoved(m) BY <2>1, EndsAre DEF Typed
  <2>3. \A m \in Notes \ {n} : Unwritten(m) BY <2>1 DEF Unwritten, Typed, StoredTyped
  <2> QED BY <2>1, <2>2, <2>3 DEF Locks, Others, FilesStay, counted
<1> QED BY <1>2, <1>3

LEMMA StartRemoveMoves ==
    ASSUME Typed, NEW n \in Notes, StartRemove(n)
    PROVE  Prepares(n)
<1> DEFINE sealed == {e \in list[n] : e.file \in made /\ seal[e.file] # 0}
           shared == {e \in sealed : \E m \in Notes \ {n} : Owns(m, e.file)}
<1>1. plan'[n] = sealed \ shared /\ todo'[n] = shared /\ at'[n] = "removing"
    BY DEF StartRemove, Typed, HeldTyped, StepsTyped
<1>2. \A m \in Notes \ {n} : plan'[m] = plan[m] /\ todo'[m] = todo[m] /\ at'[m] = at[m]
    BY DEF StartRemove, Typed, HeldTyped, StepsTyped
<1> QED BY <1>1, <1>2 DEF StartRemove, Starts, Idle, Prepares, Others, Unmoved, Unwritten, FilesStay, stored

LEMMA RemoveMoves ==
    ASSUME Typed, NEW n \in Notes, Remove(n)
    PROVE  Quiet \/ Removes(n)
<1>1. CASE Fails({n}) BY <1>1, FailsAreQuiet DEF Typed
<1>2. CASE ~Fails({n})
  <2>1. \A m \in Notes : IF m = n THEN Ended(m) ELSE Unmoved(m) BY <1>2, EndsAre DEF Typed, Remove
  <2>2. \A m \in Notes \ {n} : Unwritten(m) BY <1>2 DEF Remove, Unwritten, Typed, StoredTyped
  <2>3. at[n] = "removing" /\ passes' = passes /\ HasRoom(FilesOf(todo[n])) BY <1>2 DEF Remove, counted
  <2>4. /\ made' = made \cup {Copier(FilesOf(todo[n]))[f] : f \in FilesOf(todo[n])}
        /\ shows'[n] = {IF f \in FilesOf(todo[n]) THEN Copier(FilesOf(todo[n]))[f] ELSE f : f \in shows[n]}
      BY <1>2 DEF Remove, Typed, StoredTyped
  <2>5. /\ \A f \in Files : seal'[f] = IF f \in FilesOf(plan[n]) THEN 0 ELSE seal[f]
        /\ locked'[n] = FALSE /\ list'[n] = {} /\ history'[n] = history[n]
      BY <1>2 DEF Remove, Typed, StoredTyped
  <2> QED BY <2>1, <2>2, <2>3, <2>4, <2>5 DEF Removes, Others
<1> QED BY <1>1, <1>2

LEMMA StartUndoMoves ==
    ASSUME Typed, NEW n \in Notes, StartUndo(n)
    PROVE  BeginsUndo(n)
BY DEF StartUndo, counted, Idle, BeginsUndo, Others, Unmoved, Unwritten, FilesStay, stored, Typed, StepsTyped,
       HeldTyped

LEMMA UndoFileMoves ==
    ASSUME Typed, \A f \in Files \ made : seal[f] = 0, NEW n \in Notes, UndoFile(n)
    PROVE  \E e \in todo[n] : Undoes(n, e)
<1>1. PICK e \in todo[n] :
        LET f == e.file
            others == HeldByOthers(n, f) IN
        /\ todo' = [todo EXCEPT ![n] = @ \ {e}]
        /\ CASE e.from # None ->
                  /\ made' = IF others \/ \E m \in Notes \ {n} : Owns(m, f) THEN made ELSE made \ {f}
                  /\ seal' = [seal EXCEPT ![f] = IF f \in made' THEN @ ELSE 0]
                  /\ UNCHANGED plan
             [] e.from = None /\ f \in made /\ seal[f] = e.seal /\ ~others ->
                  seal' = [seal EXCEPT ![f] = 0] /\ UNCHANGED <<made, plan>>
             [] e.from = None /\ f \in made /\ seal[f] = e.seal /\ others ->
                  /\ HasRoom({f}) /\ UNCHANGED seal
                  /\ made' = made \cup {Copier({f})[f]}
                  /\ plan' = [plan EXCEPT ![n] = @ \cup {[file |-> Copier({f})[f], seal |-> 0, from |-> f]}]
             [] OTHER -> seal[f] = 0 /\ UNCHANGED <<made, seal, plan>>
    BY DEF UndoFile
<1>2. e.file \in Files BY DEF Typed, HeldTyped, Entry
<1> DEFINE f == e.file
           Unmade == ~HeldByOthers(n, f) /\ Sealed1(f, 0) /\ plan'[n] = plan[n]
                     /\ \/ made' = made
                        \/ made' = made \ {f} /\ e.from # None /\ \A m \in Notes \ {n} : ~Owns(m, f)
           Copied == /\ seal' = seal /\ HasRoom({f}) /\ e.from = None
                     /\ made' = made \cup {Copier({f})[f]}
                     /\ plan'[n] = plan[n] \cup {[file |-> Copier({f})[f], seal |-> 0, from |-> f]}
<1>3. (FilesStay /\ plan'[n] = plan[n]) \/ Unmade \/ Copied
  <2>1. CASE e.from # None /\ (HeldByOthers(n, f) \/ \E m \in Notes \ {n} : Owns(m, f))
    <3>1. made' = made /\ seal' = [seal EXCEPT ![f] = IF f \in made THEN seal[f] ELSE 0] /\ plan' = plan
        BY <1>1, <2>1
    <3>2. seal' = seal BY <3>1, <1>2 DEF Typed, StoredTyped
    <3> QED BY <3>1, <3>2 DEF FilesStay
  <2>2. CASE e.from # None /\ ~HeldByOthers(n, f) /\ \A m \in Notes \ {n} : ~Owns(m, f)
    <3>1. made' = made \ {f} /\ seal' = [seal EXCEPT ![f] = 0] /\ plan' = plan
        BY <1>1, <2>2
    <3> QED BY <3>1, <2>2 DEF Typed, StoredTyped, Sealed1
  <2>3. CASE e.from = None /\ f \in made /\ seal[f] = e.seal /\ ~HeldByOthers(n, f)
    <3>1. made' = made /\ seal' = [seal EXCEPT ![f] = 0] /\ plan' = plan
        BY <1>1, <2>3
    <3> QED BY <3>1, <2>3 DEF Typed, StoredTyped, Sealed1
  <2>4. CASE e.from = None /\ f \in made /\ seal[f] = e.seal /\ HeldByOthers(n, f)
    <3>1. /\ HasRoom({f}) /\ UNCHANGED seal
          /\ made' = made \cup {Copier({f})[f]}
          /\ plan' = [plan EXCEPT ![n] = @ \cup {[file |-> Copier({f})[f], seal |-> 0, from |-> f]}]
        BY <1>1, <2>4
    <3> QED BY <3>1, <2>4 DEF Typed, HeldTyped
  <2>5. CASE e.from = None /\ ~(f \in made /\ seal[f] = e.seal)
      BY <1>1, <2>5 DEF FilesStay
  <2> QED BY <2>1, <2>2, <2>3, <2>4, <2>5
<1>4. todo'[n] = todo[n] \ {e} /\ \A m \in Notes \ {n} : todo'[m] = todo[m]
    BY <1>1 DEF Typed, HeldTyped
<1>5. \A m \in Notes \ {n} : plan'[m] = plan[m]
    BY <1>1 DEF Typed, HeldTyped
<1>6. Undoes(n, e)
    BY <1>3, <1>4, <1>5 DEF UndoFile, Undoes, Others, Unmoved, Unwritten, counted
<1> QED BY <1>6

LEMMA UndoEndsMoves ==
    ASSUME Typed, NEW n \in Notes, UndoEnds(n)
    PROVE  Quiet \/ EndsUndo(n)
<1>1. CASE Fails({n}) BY <1>1, FailsAreQuiet DEF Typed
<1>2. CASE ~Fails({n})
  <2> DEFINE moved(f) == {e.file : e \in {p \in plan[n] : p.from = f}}
             now == UNION {IF moved(f) = {} THEN {f} ELSE moved(f) : f \in shows[n] \cap made}
  <2>1. /\ \A f \in now : seal[f] = 0
        /\ shows' = [shows EXCEPT ![n] = now] /\ list' = [list EXCEPT ![n] = {}]
        /\ Ends({n}) /\ at[n] = "undoing"
        /\ UNCHANGED <<text, locked, history, made, seal, counted>>
      BY <1>2 DEF UndoEnds
  <2>2. \A m \in Notes : IF m = n THEN Ended(m) ELSE Unmoved(m) BY <2>1, EndsAre DEF Typed
  <2>3. \A f \in now : f \in shows[n] \cup FilesOf(plan[n]) BY DEF FilesOf
  <2> HIDE DEF now
  <2>4. shows'[n] = now /\ list'[n] = {} /\ \A m \in Notes \ {n} : Unwritten(m)
      BY <2>1 DEF Typed, StoredTyped, Unwritten
  <2> QED BY <2>1, <2>2, <2>3, <2>4 DEF EndsUndo, Others, FilesStay, counted
<1> QED BY <1>1, <1>2

LEMMA EditMoves ==
    ASSUME Typed, NEW n \in Notes, NEW files \in SUBSET Linkable, Edit(n, files), Schedule
    PROVE  Edits(n)
<1>1. shows'[n] = files BY DEF Edit, Typed, StoredTyped
<1>2. \A m \in Notes : at[m] # "idle" => shows'[n] \cap FilesOf(todo[m]) \subseteq shows[n]
  <2>1. CASE shows'[n] = shows[n] BY <2>1
  <2>2. CASE shows'[n] # shows[n] BY <2>2 DEF Schedule, LinksApart, Idle, Edit
  <2> QED BY <2>1, <2>2
<1> QED BY <1>1, <1>2 DEF Edit, Edits, Others, Unmoved, Unwritten, FilesStay, Typed, StoredTyped

LEMMA ReplaceMoves ==
    ASSUME Typed, NEW n \in Notes, NEW files \in SUBSET Linkable, Replace(n, files), Schedule
    PROVE  Replaces(n)
<1>1. shows'[n] = files BY DEF Replace, Typed, StoredTyped
<1>2. \A m \in Notes : at[m] # "idle" => shows'[n] \cap FilesOf(todo[m]) \subseteq shows[n]
  <2>1. CASE shows'[n] = shows[n] BY <2>1
  <2>2. CASE shows'[n] # shows[n] BY <2>2 DEF Schedule, LinksApart, Idle, Replace
  <2> QED BY <2>1, <2>2
<1> QED BY <1>1, <1>2 DEF Replace, Replaces, Others, Unmoved, Unwritten, FilesStay, Typed, StoredTyped

LEMMA Moves ==
    ASSUME Book = {}, Typed, Solo, \A f \in Files \ made : seal[f] = 0, [Next]_vars, [Schedule]_vars
    PROVE  Quiet \/ \E n \in Notes : MoveOf(n)
<1>1. CASE UNCHANGED vars
    BY <1>1 DEF vars, stored, running, counted, Quiet, FilesStay, Unwritten, Unmoved
<1>2. ASSUME Next, Schedule PROVE Quiet \/ \E n \in Notes : MoveOf(n)
  <2>1. ASSUME NEW locking \in {Book} \cup {{n} : n \in Notes}, StartLock(locking)
        PROVE  \E n \in Notes : MoveOf(n)
      BY <2>1, StartLockMoves DEF MoveOf
  <2>2. ASSUME NEW n \in Notes, NEW files \in SUBSET Linkable,
               StartSave(n, files) \/ Edit(n, files) \/ Replace(n, files)
        PROVE  MoveOf(n)
      BY <2>2, <1>2, StartSaveMoves, EditMoves, ReplaceMoves DEF MoveOf
  <2>3. ASSUME NEW n \in Notes,
               Plan(n) \/ Journal(n) \/ SealFile(n) \/ CheckSealed(n) \/ LockNotes(n)
        PROVE  Quiet \/ MoveOf(n)
      BY <2>3, PlanMoves, JournalMoves, SealFileMoves, CheckSealedMoves, LockNotesMoves DEF MoveOf
  <2>4. ASSUME NEW n \in Notes,
               StartRemove(n) \/ Remove(n) \/ StartUndo(n) \/ UndoFile(n) \/ UndoEnds(n)
        PROVE  Quiet \/ MoveOf(n)
      BY <2>4, StartRemoveMoves, RemoveMoves, StartUndoMoves, UndoFileMoves, UndoEndsMoves
         DEF MoveOf
  <2>5. ASSUME NEW S, Fails(S) PROVE Quiet BY <2>5, FailsAreQuiet DEF Typed
  <2>6. ASSUME NEW S, Ends(S), UNCHANGED <<stored, passes>> PROVE Quiet
      BY <2>6, EndsAre DEF Typed, stored, Quiet, FilesStay, Unwritten
  <2>7. ASSUME NEW n \in Notes, PlanFails(n) \/ UndoFails(n) \/ Stop(n) PROVE Quiet
      BY <2>5, <2>6, <2>7 DEF PlanFails, UndoFails, Stop
  <2>8. CASE Quit BY <2>6, <2>8 DEF Quit
  <2>9. ASSUME NEW n \in Notes, Touch(n) PROVE Quiet
      BY <2>9 DEF Touch, stored, Quiet, FilesStay, Unwritten, Unmoved
  <2> QED BY <1>2, <2>1, <2>2, <2>3, <2>4, <2>7, <2>8, <2>9 DEF Next
<1> QED BY <1>1, <1>2


-----------------------------------------------------------------------------
(* The inductive invariant, for notes that are locked on their own *)

IsCopy(e) == e.from \notin {None, e.file}

\* What a note's step holds.
Steps == \A n \in Notes :
    /\ at[n] \in {"idle", "read"} => plan[n] = {} /\ todo[n] = {}
    /\ at[n] \notin Running => snap[n] = NoSnap
    /\ at[n] = "undoing" => ~locked[n]
    /\ at[n] = "removing" => locked[n]

\* Each pass seals under a key of its own, newer than all that is stored.
Numbers ==
    /\ \A f \in Files : seal[f] <= passes /\ (f \notin made => seal[f] = 0)
    /\ \A n \in Notes : \A e \in EntriesOf(n) : e.seal <= passes
    /\ \A n \in Notes : \A e \in list[n] \cup history[n] \cup snap[n].list : e.seal # 0
    /\ \A n \in Notes : at[n] \in Running => snap[n].seal # 0 /\ snap[n].seal <= passes
    /\ \A n, m \in Notes :
          at[n] \in Running /\ at[m] \in Running /\ n # m => snap[n].seal # snap[m].seal
    /\ \A n \in Notes : at[n] \in Planned => \A e \in todo[n] : e.seal = snap[n].seal

\* Before a pass plans, nothing has its key; then nothing is sealed under it
\* but the file that the pass is checking, and no other note lists that file
\* under it while the note of the pass is plain.
Fresh == \A m \in Notes :
    /\ at[m] = "read" =>
          /\ \A f \in Files : seal[f] # snap[m].seal
          /\ \A n \in Notes : \A d \in EntriesOf(n) : d.seal # snap[m].seal
    /\ at[m] \in {"planned", "sealing"} => \A e \in todo[m] : seal[e.file] # e.seal
    /\ at[m] = "checking" =>
          \A e, d \in todo[m] : seal[e.file] = e.seal /\ seal[d.file] = d.seal => e = d
    /\ at[m] \in Planned /\ ~locked[m] =>
          \A n \in Notes \ {m} : \A d \in EntriesOf(n), e \in todo[m] :
              d.file = e.file => d.seal # e.seal

\* What is being sealed was journaled, in a list that sync may have replaced.
Journaled == \A m \in Notes : at[m] \in {"sealing", "checking"} =>
    todo[m] \subseteq list[m] \cup (IF locked[m] THEN {} ELSE history[m])

\* What a plan lists and has not to seal is sealed under the key it lists.
PlanRight == \A n \in Notes : at[n] \in Planned =>
    \A e \in plan[n] \ todo[n] : e.seal # 0 /\ e.file \in made /\ seal[e.file] = e.seal

\* A save of a locked note plans every file that the note shows.
Covers == \A n \in Notes : locked[n] =>
    /\ at[n] \in Running => shows[n] \subseteq snap[n].shows
    /\ at[n] \in Planned => \A f \in shows[n] : \E e \in plan[n] \ todo[n] : e.file = f

\* No plain note but its own shows a file that a pass is to seal.
TodoApart == \A m \in Notes : at[m] \in Planned => \A e \in todo[m] :
    \A n \in Notes : ~locked[n] /\ e.file \in shows[n] => n = m /\ seal[e.file] \in {0, e.seal}

\* No pass has a file of a note whose lock is removed or undone.
Apart == \A n \in Notes : at[n] \in {"removing", "undoing"} =>
    \A m \in Notes \ {n} : FilesOf(plan[m] \cup todo[m]) \cap FilesOf(list[n] \cup todo[n]) = {}

\* Remove Lock unseals or copies every file that the note shows, and unseals
\* none that another locked note lists.
Removing == \A n \in Notes : at[n] = "removing" =>
    /\ plan[n] \cup todo[n] \subseteq list[n] /\ shows[n] \subseteq FilesOf(plan[n] \cup todo[n])
    /\ \A m \in Notes \ {n} : locked[m] => FilesOf(plan[n]) \cap FilesOf(list[m]) = {}

\* A copy is known to the note it was made for alone, until that note is
\* locked and shows it.
Private(n, c) ==
    c \notin First /\ \A m \in Notes :
        c \notin shows[m] /\ c \notin snap[m].shows /\ (m # n => c \notin FilesOf(EntriesOf(m)))
\* An undo makes copies, and what it deletes as a copy its note alone knows.
Undoing == \A n \in Notes : at[n] = "undoing" =>
    /\ \A p \in plan[n] : IsCopy(p)
    /\ \A e \in todo[n] : IsCopy(e) => Private(n, e.file)

CopiesOwn == \A n \in Notes : \A e \in list[n] \cup plan[n] \cup snap[n].list : IsCopy(e) =>
    /\ \/ locked[n] /\ e.file \in shows[n] /\ e.seal = seal[e.file]
       \/ Private(n, e.file) /\ seal[e.file] \in {0, e.seal}
    /\ at[n] \in Planned => \A d \in todo[n] : d.file = e.file => d.seal = e.seal

Inv ==
    /\ Typed /\ Solo /\ Steps /\ Numbers /\ Fresh /\ Journaled /\ PlanRight /\ Covers
    /\ LockedHasKeys /\ TodoApart /\ Apart /\ Removing /\ Undoing /\ CopiesOwn

LEMMA InvInit == Init => Inv
<1> SUFFICES ASSUME Init PROVE Inv OBVIOUS
<1>1. Typed /\ Solo BY TypedInit, SoloInit
<1>2. \A n \in Notes :
        /\ at[n] = "idle" /\ plan[n] = {} /\ todo[n] = {} /\ list[n] = {} /\ history[n] = {}
        /\ snap[n] = NoSnap /\ ~locked[n] /\ EntriesOf(n) = {}
    BY DEF Init, EntriesOf, NoSnap
<1>3. NoSnap.list = {} /\ \A f \in Files : seal[f] = 0 BY DEF Init, NoSnap
<1>4. passes = 0 BY DEF Init
<1>5. Steps BY <1>2 DEF Steps
<1>6. Numbers BY <1>2, <1>3, <1>4 DEF Numbers, Running, Planned
<1>7. Fresh BY <1>2 DEF Fresh, Planned
<1>8. Journaled /\ PlanRight /\ Covers /\ LockedHasKeys
    BY <1>2 DEF Journaled, PlanRight, Covers, LockedHasKeys, Planned, Running
<1>10. TodoApart BY <1>2 DEF TodoApart, Planned
<1>11. Apart /\ Removing /\ Undoing /\ CopiesOwn
    BY <1>2, <1>3 DEF Apart, Removing, Undoing, CopiesOwn
<1> QED BY <1>1, <1>5, <1>6, <1>7, <1>8, <1>10, <1>11 DEF Inv

-----------------------------------------------------------------------------
(* What a move adds to what the notes list and hold *)

\* What a pass plans: a new key for a file that is plain, the key a file is
\* sealed under, or an earlier copy's.
LEMMA PlansTake ==
    ASSUME Typed, Solo, Steps, NEW n \in Notes, Plans(n)
    PROVE  /\ Links(n) \subseteq snap[n].shows \cap made
           /\ plan[n] = {} /\ todo[n] = {} /\ PassCopies(n) = {}
           /\ \A e \in todo'[n] :
                 /\ e \in plan'[n] /\ e.seal = snap[n].seal
                 /\ \/ e.file \in Unsealed(n) \ Shared(n) /\ e.from = None
                    \/ e.file \in Spare
           /\ \A e \in plan'[n] \ todo'[n] :
                 /\ e \in Entry /\ seal[e.file] # 0
                 /\ \/ e.file \in Sealed(n) /\ e.seal = seal[e.file] /\ ~IsCopy(e)
                    \/ e \in snap[n].list /\ IsCopy(e)
           /\ \A e \in plan'[n] \ todo'[n], d \in todo'[n] : d.file # e.file
           /\ \A f \in Sealed(n) : \E e \in plan'[n] \ todo'[n] : e.file = f
<1> DEFINE new == New(n, Copier(Shared(n)))
<1>1. plan[n] = {} /\ todo[n] = {} BY DEF Steps, Plans
<1>2. Pass(n) = {n} BY PassAlone DEF Plans, Running
<1>3. PassCopies(n) = {} BY <1>1, <1>2 DEF PassCopies
<1>4. Links(n) \subseteq snap[n].shows \cap made BY <1>3 DEF Links
<1>5. PICK reused \in OneEach(Listed(n) \cup Again(n)) : plan'[n] = reused \cup new BY DEF Plans
<1>6. todo'[n] = new /\ HasRoom(Shared(n)) BY DEF Plans
<1>7. \A e \in new :
        /\ e.seal = snap[n].seal
        /\ (e.file \in Unsealed(n) \ Shared(n) /\ e.from = None) \/ e.file \in Spare
    BY <1>6, NewEntries, NotesAssumption
<1>8. \A e \in reused, d \in new : e.file # d.file BY <1>6, NewIsPlain, NotesAssumption
<1>9. /\ \A f \in Sealed(n) : \E e \in reused : e.file = f
      /\ \A e \in reused :
            /\ e \in Entry /\ seal[e.file] # 0
            /\ \/ e.file \in Sealed(n) /\ e.seal = seal[e.file] /\ e.from \in {None, e.file}
               \/ e \in snap[n].list /\ e.from \in Links(n) \ Sealed(n) /\ e.file # e.from
    BY ReusedEntries, NotesAssumption
<1>10. \A f \in Links(n) : f # None BY LinksFiles, NotesAssumption DEF NotesAssumption
<1> HIDE DEF new
<1>11. \A e \in reused : e \notin new BY <1>8
<1> QED BY <1>1, <1>3, <1>4, <1>5, <1>6, <1>7, <1>8, <1>9, <1>10, <1>11 DEF IsCopy

\* Of the other notes nothing changes.
LEMMA OthersStay ==
    ASSUME NEW n \in Notes, MoveOf(n)
    PROVE  Others(n)
BY DEF MoveOf, Begins, Plans, Journals, Locks, Prepares, Removes, BeginsUndo, EndsUndo, Edits, Replaces,
       Seals, Checks, Reverts, Undoes

\* The copy that an undo makes.
UndoCopies(n, d) ==
    /\ at[n] = "undoing" /\ d \in plan'[n] /\ d \in Entry /\ d.seal = 0 /\ d.file \in Spare /\ IsCopy(d)

\* No move adds an entry but a plan and an undo's copy.
LEMMA EntriesGrow ==
    ASSUME Typed, Typed', Steps, NEW n \in Notes, MoveOf(n),
           NEW m \in Notes, NEW d \in EntriesOf(m)', d \notin EntriesOf(m)
    PROVE  m = n /\ d \in plan'[n] /\ (Plans(n) \/ UndoCopies(n, d))
<1>1. m = n
  <2> SUFFICES ASSUME m # n PROVE FALSE OBVIOUS
  <2>1. Unmoved(m) /\ Unwritten(m) BY OthersStay DEF Others
  <2> QED BY <2>1 DEF EntriesOf, Unmoved, Unwritten
<1>2. NoSnap.list = {} BY DEF NoSnap
<1>3. ASSUME Begins(n) \/ Journals(n) \/ Locks(n) \/ Removes(n) \/ BeginsUndo(n) \/ EndsUndo(n) \/ Edits(n) \/ Replaces(n)
      PROVE  FALSE
    BY <1>1, <1>2, <1>3 DEF EntriesOf, Begins, Journals, Locks, Removes, BeginsUndo, EndsUndo, Edits, Replaces,
                     Unmoved, Unwritten, Ended
<1>4. ASSUME Prepares(n) PROVE FALSE
    BY <1>1, <1>4 DEF EntriesOf, Prepares, Unwritten
<1>5. ASSUME NEW e \in todo[n], Seals(n, e) \/ Checks(n, e) \/ Reverts(n, e) PROVE FALSE
    BY <1>1, <1>2, <1>5 DEF EntriesOf, Seals, Checks, Reverts, Unwritten, Ended
<1>6. ASSUME Plans(n) PROVE d \in plan'[n]
  <2>1. todo'[n] \subseteq plan'[n] BY <1>6 DEF Plans
  <2> QED BY <1>1, <1>6, <2>1 DEF EntriesOf, Plans, Unwritten
<1>7. ASSUME NEW e \in todo[n], Undoes(n, e) PROVE UndoCopies(n, d)
  <2> DEFINE c == Copier({e.file})[e.file]
  <2>1. at[n] = "undoing" /\ Unwritten(n) /\ snap'[n] = snap[n] /\ todo'[n] \subseteq todo[n] BY <1>7 DEF Undoes
  <2>2. d \in plan'[n] /\ d \notin plan[n] BY <1>1, <2>1 DEF EntriesOf, Unwritten
  <2>3. HasRoom({e.file}) /\ d = [file |-> c, seal |-> 0, from |-> e.file]
      BY <1>7, <2>2 DEF Undoes
  <2>4. e.file \in Files /\ d \in Entry BY <2>2 DEF Typed, HeldTyped, Entry
  <2>5. c \in Spare BY <2>3, <2>4, OneCopy, NotesAssumption
  <2>6. e.file \in Named(n) BY DEF Named, FilesOf, EntriesOf
  <2>7. e.file # c /\ e.file # None BY <2>4, <2>5, <2>6, NotesAssumption DEF Spare, NotesAssumption
  <2> HIDE DEF c
  <2> QED BY <2>1, <2>2, <2>3, <2>4, <2>5, <2>7 DEF UndoCopies, IsCopy
<1> QED BY <1>1, <1>3, <1>4, <1>5, <1>6, <1>7 DEF MoveOf, UndoCopies

LEMMA QuietEntries ==
    ASSUME Quiet, NEW m \in Notes
    PROVE  EntriesOf(m)' \subseteq EntriesOf(m)
<1> NoSnap.list = {} BY DEF NoSnap
<1> QED BY DEF Quiet, EntriesOf, Unmoved, Unwritten, Ended

LEMMA SealMoves ==
    ASSUME NEW n \in Notes, MoveOf(n), NEW f \in Files, seal'[f] # seal[f]
    PROVE  \/ \E e \in todo[n] : Seals(n, e) /\ f = e.file /\ seal[f] = 0 /\ seal'[f] = e.seal
           \/ \E e \in todo[n] : Reverts(n, e) /\ f = e.file /\ seal'[f] = 0
           \/ Removes(n) /\ f \in FilesOf(plan[n]) /\ seal'[f] = 0
           \/ \E e \in todo[n] : Undoes(n, e) /\ f = e.file /\ seal'[f] = 0 /\ ~HeldByOthers(n, f)
<1>1. CASE Begins(n) \/ Plans(n) \/ Journals(n) \/ Locks(n) \/ Prepares(n) \/ BeginsUndo(n) \/ EndsUndo(n)
           \/ Edits(n) \/ Replaces(n)
    BY <1>1 DEF Begins, Plans, Journals, Locks, Prepares, BeginsUndo, EndsUndo, Edits, Replaces, FilesStay
<1>2. CASE Removes(n) BY <1>2 DEF Removes
<1>3. CASE \E e \in todo[n] : Seals(n, e) BY <1>3 DEF Seals, Sealed1
<1>4. CASE \E e \in todo[n] : Checks(n, e) BY <1>4 DEF Checks, FilesStay
<1>5. CASE \E e \in todo[n] : Reverts(n, e) BY <1>5 DEF Reverts, Sealed1
<1>6. CASE \E e \in todo[n] : Undoes(n, e) BY <1>6 DEF Undoes, Sealed1, FilesStay
<1> QED BY <1>1, <1>2, <1>3, <1>4, <1>5, <1>6 DEF MoveOf

\* What a pass takes back, it lists alone.
LEMMA RevertsAlone ==
    ASSUME Inv, NEW n \in Notes, NEW e \in todo[n], Reverts(n, e)
    PROVE  /\ ~locked[n]
           /\ \A m \in Notes \ {n} : \A d \in EntriesOf(m) : d.file = e.file => d.seal # e.seal
<1>1. ~locked[n] BY DEF Inv, Journaled, Reverts
<1> QED BY <1>1 DEF Inv, Fresh, Reverts, Planned

\* The key a locked note lists goes on opening the file.
LEMMA KeysStay ==
    ASSUME Inv, NEW n \in Notes, MoveOf(n), NEW m \in Notes, locked[m], m = n => ~Removes(n),
           NEW e \in list[m], e.seal = seal[e.file], e.seal # 0
    PROVE  seal'[e.file] = e.seal
<1> SUFFICES ASSUME seal'[e.file] # seal[e.file] PROVE FALSE OBVIOUS
<1>1. e.file \in Files BY DEF Inv, Typed, StoredTyped, Entry
<1>2. ASSUME NEW d \in todo[n], Reverts(n, d), e.file = d.file PROVE FALSE
  <2>1. m # n /\ d.seal = e.seal BY <1>2, RevertsAlone DEF Reverts
  <2> QED BY <1>2, <2>1, RevertsAlone DEF EntriesOf
<1>3. ASSUME Removes(n), e.file \in FilesOf(plan[n]) PROVE FALSE
  <2>1. at[n] = "removing" /\ m # n /\ e.file \in FilesOf(list[m]) BY <1>3 DEF Removes, FilesOf
  <2> QED BY <1>3, <2>1 DEF Inv, Removing
<1>4. ASSUME NEW d \in todo[n], Undoes(n, d), e.file = d.file, ~HeldByOthers(n, e.file) PROVE FALSE
  <2>1. m # n BY <1>4 DEF Inv, Steps, Undoes
  <2> QED BY <1>4, <2>1 DEF HeldByOthers, Holds, FilesOf
<1> QED BY <1>1, <1>2, <1>3, <1>4, SealMoves

\* So does the key that a pass goes by.
LEMMA PlansStay ==
    ASSUME Inv, NEW n \in Notes, MoveOf(n), NEW m \in Notes, at[m] \in Planned,
           NEW e \in plan[m] \ todo[m]
    PROVE  e.seal # 0 /\ seal[e.file] = e.seal /\ (at'[m] \in Planned => seal'[e.file] = e.seal)
<1>0. e.seal # 0 /\ seal[e.file] = e.seal BY DEF Inv, PlanRight
<1> SUFFICES ASSUME seal'[e.file] # seal[e.file], at'[m] \in Planned PROVE FALSE BY <1>0
<1>1. e.file \in Files BY DEF Inv, Typed, HeldTyped, Entry
<1>2. ASSUME NEW d \in todo[n], Reverts(n, d), e.file = d.file PROVE FALSE
  <2>1. m # n /\ d.seal = e.seal BY <1>0, <1>2 DEF Reverts, Ended, Planned
  <2> QED BY <1>2, <2>1, RevertsAlone DEF EntriesOf
<1>3. ASSUME Removes(n), e.file \in FilesOf(plan[n]) PROVE FALSE
  <2>1. at[n] = "removing" /\ m # n BY <1>3 DEF Removes, Planned
  <2>2. e.file \in FilesOf(list[n] \cup todo[n]) /\ e.file \in FilesOf(plan[m] \cup todo[m])
      BY <1>3, <2>1 DEF Inv, Removing, FilesOf
  <2> QED BY <2>1, <2>2 DEF Inv, Apart
<1>4. ASSUME NEW d \in todo[n], Undoes(n, d), e.file = d.file PROVE FALSE
  <2>1. at[n] = "undoing" /\ m # n BY <1>4 DEF Undoes, Planned
  <2>2. e.file \in FilesOf(list[n] \cup todo[n]) /\ e.file \in FilesOf(plan[m] \cup todo[m])
      BY <1>4 DEF FilesOf
  <2> QED BY <2>1, <2>2 DEF Inv, Apart
<1> QED BY <1>0, <1>1, <1>2, <1>3, <1>4, SealMoves

-----------------------------------------------------------------------------
(* Each part of the invariant is kept *)

LEMMA StepsKept ==
    ASSUME Inv, NEW n \in Notes, MoveOf(n)
    PROVE  Steps'
<1> SUFFICES ASSUME NEW m \in Notes
             PROVE  /\ at'[m] \in {"idle", "read"} => plan'[m] = {} /\ todo'[m] = {}
                    /\ at'[m] \notin Running => snap'[m] = NoSnap
                    /\ at'[m] = "undoing" => ~locked'[m]
                    /\ at'[m] = "removing" => locked'[m]
    BY DEF Steps
<1>0. /\ at[m] \in {"idle", "read"} => plan[m] = {} /\ todo[m] = {}
      /\ at[m] \notin Running => snap[m] = NoSnap
      /\ at[m] = "undoing" => ~locked[m]
      /\ at[m] = "removing" => locked[m]
    BY DEF Inv, Steps
<1>1. CASE m # n BY <1>0, <1>1, OthersStay DEF Others, Unmoved, Unwritten
<1>2. CASE m = n
  <2>1. CASE Begins(n) \/ Plans(n) \/ Journals(n) \/ Locks(n) \/ Prepares(n) \/ Removes(n)
      BY <1>0, <1>2, <2>1
         DEF Begins, Plans, Journals, Locks, Prepares, Removes, Running, Ended, Unwritten
  <2>2. CASE BeginsUndo(n) \/ EndsUndo(n) \/ Edits(n) \/ Replaces(n)
      BY <1>0, <1>2, <2>2
         DEF BeginsUndo, EndsUndo, Edits, Replaces, Running, Ended, Unwritten, Unmoved
  <2>3. ASSUME NEW e \in todo[n], Seals(n, e) \/ Checks(n, e) \/ Reverts(n, e) \/ Undoes(n, e)
        PROVE  /\ at'[m] \in {"idle", "read"} => plan'[m] = {} /\ todo'[m] = {}
               /\ at'[m] \notin Running => snap'[m] = NoSnap
               /\ at'[m] = "undoing" => ~locked'[m]
               /\ at'[m] = "removing" => locked'[m]
      BY <1>0, <1>2, <2>3 DEF Seals, Checks, Reverts, Undoes, Running, Ended, Unwritten
  <2> QED BY <2>1, <2>2, <2>3 DEF MoveOf
<1> QED BY <1>1, <1>2

\* What a step does to passes and to which note is at what, for the numbers.
LEMMA RunsMove ==
    ASSUME Inv, NEW n \in Notes, MoveOf(n), NEW m \in Notes
    PROVE  /\ passes' = passes \/ (passes' = passes + 1 /\ at[n] = "idle")
           /\ at'[m] \in Running =>
                 \/ m = n /\ Begins(n)
                 \/ /\ at[m] \in Running /\ snap'[m] = snap[m]
                    /\ at'[m] \in Planned =>
                          \/ at[m] \in Planned /\ todo'[m] \subseteq todo[m]
                          \/ m = n /\ Plans(n)
<1>1. CASE m # n
  <2>1. Unmoved(m) BY <1>1, OthersStay DEF Others
  <2>2. passes' = passes \/ (passes' = passes + 1 /\ at[n] = "idle")
      BY DEF MoveOf, Begins, Plans, Journals, Locks, Prepares, Removes, BeginsUndo, EndsUndo, Edits, Replaces,
             Seals, Checks, Reverts, Undoes
  <2> QED BY <2>1, <2>2 DEF Unmoved
<1>2. CASE m = n
  <2>1. CASE Begins(n) \/ Plans(n) \/ Journals(n) \/ Locks(n) \/ Prepares(n) \/ Removes(n)
      BY <1>2, <2>1 DEF Begins, Plans, Journals, Locks, Prepares, Removes, Running, Planned, Ended
  <2>2. CASE BeginsUndo(n) \/ EndsUndo(n) \/ Edits(n) \/ Replaces(n)
      BY <1>2, <2>2 DEF BeginsUndo, EndsUndo, Edits, Replaces, Running, Planned, Ended, Unmoved
  <2>3. CASE \E e \in todo[n] : Seals(n, e) \/ Checks(n, e) \/ Reverts(n, e) \/ Undoes(n, e)
      BY <1>2, <2>3 DEF Seals, Checks, Reverts, Undoes, Running, Planned, Ended
  <2> QED BY <2>1, <2>2, <2>3 DEF MoveOf
<1> QED BY <1>1, <1>2

LEMMA NumbersKept ==
    ASSUME Inv, Typed', NEW n \in Notes, MoveOf(n)
    PROVE  Numbers'
<1>0. /\ passes \in Nat /\ passes' \in Nat /\ \A f \in Files : seal[f] \in Nat /\ seal'[f] \in Nat
      /\ \A m \in Notes : snap[m].seal \in Nat /\ \A e \in EntriesOf(m) : e.seal \in Nat /\ e.file \in Files
    BY BoundsAssumption DEF BoundsAssumption, Inv, Typed, CountedTyped, StoredTyped, HeldTyped, Snap, Entry, EntriesOf
<1>1. passes <= passes' BY <1>0, RunsMove
<1>2. Numbers BY DEF Inv
<1>3. \A f \in Files : seal'[f] <= passes'
  <2> TAKE f \in Files
  <2>1. CASE seal'[f] = seal[f] BY <2>1, <1>0, <1>1, <1>2 DEF Numbers
  <2>2. CASE \E e \in todo[n] : seal'[f] = e.seal
      BY <2>2, <1>0, <1>1, <1>2 DEF Numbers, EntriesOf
  <2>3. CASE seal'[f] = 0 BY <2>3, <1>0
  <2> QED BY <2>1, <2>2, <2>3, SealMoves
<1>4. \A f \in Files \ made' : seal'[f] = 0
  <2> SUFFICES ASSUME NEW f \in Files, f \notin made', seal'[f] # 0 PROVE FALSE OBVIOUS
  <2>1. f \in made
    <3>1. CASE seal'[f] = seal[f] BY <3>1, <1>2 DEF Numbers
    <3>2. CASE seal'[f] # seal[f] BY <3>2, SealMoves DEF Seals
    <3> QED BY <3>1, <3>2
  <2>2. PICK e \in todo[n] : Undoes(n, e) /\ made' = made \ {e.file} /\ Sealed1(e.file, 0)
      BY <2>1 DEF MoveOf, Begins, Plans, Journals, Locks, Prepares, Removes, BeginsUndo, EndsUndo, Edits, Replaces,
                  Seals, Checks, Reverts, Undoes, FilesStay
  <2> QED BY <2>1, <2>2 DEF Sealed1
<1>5. \A m \in Notes : \A e \in EntriesOf(m)' : e.seal <= passes'
  <2> SUFFICES ASSUME NEW m \in Notes, NEW e \in EntriesOf(m)' PROVE e.seal <= passes' OBVIOUS
  <2>1. CASE e \in EntriesOf(m) BY <2>1, <1>0, <1>1, <1>2 DEF Numbers
  <2>2. CASE e \notin EntriesOf(m) /\ UndoCopies(n, e) BY <2>2, <1>0 DEF UndoCopies
  <2>3. CASE e \notin EntriesOf(m) /\ Plans(n) /\ m = n /\ e \in plan'[n]
    <3>1. CASE e \in todo'[n]
        BY <3>1, <2>3, <1>0, <1>1, <1>2, PlansTake DEF Inv, Numbers, Plans, Running
    <3>2. CASE e \notin todo'[n]
      <4>1. (e.seal = seal[e.file] /\ e.file \in Sealed(n)) \/ e \in snap[n].list
          BY <3>2, <2>3, PlansTake DEF Inv
      <4> QED BY <4>1, <2>3, <1>0, <1>1, <1>2, LinksFiles DEF Inv, Numbers, EntriesOf
    <3> QED BY <3>1, <3>2
  <2> QED BY <2>1, <2>2, <2>3, EntriesGrow DEF Inv
<1>6. \A m \in Notes : \A e \in list'[m] \cup history'[m] \cup snap'[m].list : e.seal # 0
  <2> SUFFICES ASSUME NEW m \in Notes, NEW e \in list'[m] \cup history'[m] \cup snap'[m].list,
                      e \notin list[m] \cup history[m] \cup snap[m].list
               PROVE  e.seal # 0
      BY <1>2 DEF Numbers
  <2>1. m = n BY OthersStay DEF Others, Unmoved, Unwritten
  <2>2. e \in plan[n] /\ at[n] \in Planned
    <3>1. NoSnap.list = {} BY DEF NoSnap
    <3>2. CASE Begins(n) \/ Plans(n) \/ Journals(n) \/ Locks(n) \/ Prepares(n) \/ Removes(n)
        BY <2>1, <3>1, <3>2 DEF Begins, Plans, Journals, Locks, Prepares, Removes, Ended, Unwritten, Planned
    <3>3. CASE BeginsUndo(n) \/ EndsUndo(n) \/ Edits(n) \/ Replaces(n)
        BY <2>1, <3>1, <3>3 DEF BeginsUndo, EndsUndo, Edits, Replaces, Ended, Unwritten, Unmoved
    <3>4. CASE \E d \in todo[n] : Seals(n, d) \/ Checks(n, d) \/ Reverts(n, d) \/ Undoes(n, d)
        BY <2>1, <3>1, <3>4 DEF Seals, Checks, Reverts, Undoes, Ended, Unwritten
    <3> QED BY <3>2, <3>3, <3>4 DEF MoveOf
  <2>3. CASE e \in todo[n] BY <2>2, <2>3, <1>2 DEF Numbers, Planned, Running
  <2>4. CASE e \notin todo[n] BY <2>2, <2>4 DEF Inv, PlanRight
  <2> QED BY <2>3, <2>4
<1>7. ASSUME NEW m \in Notes, at'[m] \in Running
      PROVE  /\ snap'[m].seal # 0 /\ snap'[m].seal <= passes'
             /\ \A k \in Notes \ {m} : at'[k] \in Running => snap'[m].seal # snap'[k].seal
  <2>1. CASE m = n /\ Begins(n)
    <3>1. snap'[m].seal = passes + 1 /\ passes' = passes + 1 BY <2>1 DEF Begins
    <3>2. ASSUME NEW k \in Notes \ {m}, at'[k] \in Running PROVE snap'[k].seal <= passes
        BY <3>2, <2>1, RunsMove, <1>2 DEF Numbers
    <3>3. \A k \in Notes \ {m} : snap'[k].seal \in Nat
        BY <2>1, <1>0, OthersStay DEF Others, Unmoved
    <3> QED BY <3>1, <3>2, <3>3, <1>0
  <2>2. CASE ~(m = n /\ Begins(n))
    <3>1. at[m] \in Running /\ snap'[m] = snap[m] BY <2>2, <1>7, RunsMove
    <3>2. snap[m].seal # 0 /\ snap[m].seal <= passes BY <3>1, <1>2 DEF Numbers
    <3>3. ASSUME NEW k \in Notes \ {m}, at'[k] \in Running PROVE snap'[m].seal # snap'[k].seal
      <4>1. CASE k = n /\ Begins(n) BY <4>1, <3>1, <3>2, <1>0 DEF Begins
      <4>2. CASE ~(k = n /\ Begins(n))
        <5>1. at[k] \in Running /\ snap'[k] = snap[k] BY <4>2, <3>3, RunsMove
        <5> QED BY <5>1, <3>1, <1>2 DEF Numbers
      <4> QED BY <4>1, <4>2
    <3> QED BY <3>1, <3>2, <3>3, <1>0, <1>1
  <2> QED BY <2>1, <2>2
<1>8. ASSUME NEW m \in Notes, at'[m] \in Planned, NEW e \in todo'[m] PROVE e.seal = snap'[m].seal
  <2>1. at'[m] \in Running BY <1>8 DEF Running, Planned
  <2>2. ~(m = n /\ Begins(n)) BY <1>8 DEF Begins, Planned
  <2>3. CASE m = n /\ Plans(n) BY <2>3, PlansTake DEF Inv, Plans
  <2>4. CASE ~(m = n /\ Plans(n))
      BY <1>8, <2>1, <2>2, <2>4, RunsMove, <1>2 DEF Numbers
  <2> QED BY <2>3, <2>4
<1> QED BY <1>3, <1>4, <1>5, <1>6, <1>7, <1>8 DEF Numbers

LEMMA FreshKept ==
    ASSUME Inv, Typed', NEW n \in Notes, MoveOf(n)
    PROVE  Fresh'
<1>1. Numbers /\ Fresh /\ Typed BY DEF Inv
<1>2. /\ passes \in Nat /\ \A f \in Files : seal[f] \in Nat
      /\ \A m \in Notes : /\ snap[m].seal \in Nat
                          /\ \A e \in EntriesOf(m) : e.seal \in Nat /\ e.file \in Files
    BY BoundsAssumption DEF BoundsAssumption, Inv, Typed, CountedTyped, StoredTyped, HeldTyped, Snap, Entry, EntriesOf
\* A file gets no key but of a pass that is sealing.
<1>3. ASSUME NEW f \in Files, NEW m \in Notes, at[m] \in Running, seal'[f] # seal[f],
             seal'[f] = snap[m].seal
      PROVE  m = n /\ at'[n] = "checking" /\ \E e \in todo[n] : Seals(n, e) /\ f = e.file
  <2>1. snap[m].seal # 0 BY <1>1, <1>3 DEF Numbers
  <2>2. PICK e \in todo[n] : Seals(n, e) /\ f = e.file /\ seal'[f] = e.seal
      BY <2>1, <1>3, SealMoves
  <2>3. e.seal = snap[n].seal /\ at[n] \in Running BY <2>2, <1>1 DEF Seals, Numbers, Running, Planned
  <2>4. m = n BY <2>2, <2>3, <1>1, <1>3 DEF Numbers
  <2> QED BY <2>2, <2>4 DEF Seals
<1>4. ASSUME NEW m \in Notes, at[m] = "read", NEW k \in Notes, NEW d \in EntriesOf(k)',
             ~(m = n /\ Plans(n))
      PROVE  d.seal # snap[m].seal
  <2>0. at[m] \in Running /\ snap[m].seal # 0 BY <1>4, <1>1 DEF Running, Numbers
  <2>1. CASE d \in EntriesOf(k) BY <2>1, <1>1, <1>4 DEF Fresh
  <2>2. CASE d \notin EntriesOf(k) /\ UndoCopies(n, d) BY <2>2, <2>0 DEF UndoCopies
  <2>3. CASE d \notin EntriesOf(k) /\ k = n /\ Plans(n) /\ d \in plan'[n]
    <3>1. m # n /\ at[n] \in Running BY <2>3, <1>4 DEF Plans, Running
    <3>2. CASE d \in todo'[n] BY <2>0, <2>3, <3>1, <3>2, <1>1, PlansTake DEF Inv, Numbers
    <3>3. CASE d \notin todo'[n]
      <4>1. (d.seal = seal[d.file] /\ d.file \in Sealed(n)) \/ d \in snap[n].list
          BY <3>3, <2>3, PlansTake DEF Inv
      <4> QED BY <4>1, <2>3, <1>1, <1>4, LinksFiles DEF Fresh, EntriesOf
    <3> QED BY <3>2, <3>3
  <2> QED BY <2>1, <2>2, <2>3, EntriesGrow DEF Inv
<1>5. ASSUME NEW m \in Notes, at'[m] = "read"
      PROVE  /\ \A f \in Files : seal'[f] # snap'[m].seal
             /\ \A k \in Notes : \A d \in EntriesOf(k)' : d.seal # snap'[m].seal
  <2>1. CASE m = n /\ Begins(n)
    <3>1. snap'[m].seal = passes + 1 /\ FilesStay BY <2>1 DEF Begins
    <3>2. \A k \in Notes : EntriesOf(k)' \subseteq EntriesOf(k)
        BY <2>1, <1>1, EntriesGrow DEF Inv, Begins, Plans, UndoCopies
    <3>3. \A f \in Files : seal'[f] = seal[f] BY <3>1 DEF FilesStay
    <3>4. \A f \in Files : seal[f] <= passes BY <1>1 DEF Numbers
    <3>5. \A k \in Notes : \A d \in EntriesOf(k)' : d.seal <= passes /\ d.seal \in Nat
        BY <3>2, <1>1, <1>2 DEF Numbers
    <3> QED BY <3>1, <3>3, <3>4, <3>5, <1>2
  <2>2. CASE ~(m = n /\ Begins(n))
    <3>1. at[m] \in Running /\ snap'[m] = snap[m] BY <2>2, <1>5, RunsMove DEF Running
    <3>2. at[m] = "read"
      <4>1. CASE m # n BY <4>1, <1>5, OthersStay DEF Others, Unmoved
      <4>2. CASE m = n
          BY <4>2, <2>2, <1>5 DEF MoveOf, Plans, Journals, Locks, Prepares, Removes, BeginsUndo,
             EndsUndo, Edits, Replaces, Seals, Checks, Reverts, Undoes, Ended, Unmoved
      <4> QED BY <4>1, <4>2
    <3>3. ~(m = n /\ Plans(n)) BY <1>5 DEF Plans
    <3>4. \A f \in Files : seal'[f] # snap[m].seal
      <4> TAKE f \in Files
      <4>1. seal[f] # snap[m].seal BY <3>2, <1>1 DEF Fresh
      <4> QED BY <4>1, <3>1, <1>3, <1>5
    <3> QED BY <3>1, <3>2, <3>3, <3>4, <1>4
  <2> QED BY <2>1, <2>2
<1>6. ASSUME NEW m \in Notes, at'[m] \in {"planned", "sealing"}, NEW e \in todo'[m]
      PROVE  seal'[e.file] # e.seal
  <2>0. e.file \in Files BY DEF Typed, HeldTyped, Entry
  <2>1. CASE m = n /\ Plans(n)
      BY <2>0, <2>1, <1>1, PlansTake DEF Inv, Fresh, Plans
  <2>2. CASE ~(m = n /\ Plans(n))
    <3>1. /\ at[m] \in Running /\ at[m] \in Planned /\ e \in todo[m]
        BY <2>2, <1>6, RunsMove DEF Begins, Running, Planned
    <3>2. e.seal = snap[m].seal BY <3>1, <1>1 DEF Numbers
    <3>3. seal'[e.file] = e.seal => seal[e.file] = e.seal
        BY <2>0, <3>1, <3>2, <1>3, <1>6
    <3>4. seal[e.file] # e.seal
      <4>1. CASE at[m] \in {"planned", "sealing"} BY <4>1, <3>1, <1>1 DEF Fresh
      <4>2. CASE at[m] = "checking"
        <5>1. m = n BY <4>2, <1>6, OthersStay DEF Others, Unmoved
        <5>2. PICK d \in todo[n] : Checks(n, d)
            BY <5>1, <4>2, <1>6 DEF MoveOf, Begins, Plans, Journals, Locks, Prepares, Removes, BeginsUndo,
               EndsUndo, Edits, Replaces, Seals, Checks, Reverts, Undoes, Ended, Unmoved
        <5> QED BY <5>1, <5>2, <4>2, <3>1, <1>1, <1>6 DEF Checks, Fresh
      <4> QED BY <3>1, <4>1, <4>2 DEF Planned
    <3> QED BY <3>3, <3>4
  <2> QED BY <2>1, <2>2
<1>7. ASSUME NEW m \in Notes, at'[m] = "checking", NEW e \in todo'[m], NEW d \in todo'[m],
             seal'[e.file] = e.seal, seal'[d.file] = d.seal
      PROVE  e = d
  <2>0. e.file \in Files /\ d.file \in Files BY DEF Typed, HeldTyped, Entry
  <2>1. at[m] \in Running /\ at[m] \in Planned /\ e \in todo[m] /\ d \in todo[m]
      BY <1>7, RunsMove DEF Begins, Plans, Running, Planned
  <2>2. e.seal = snap[m].seal /\ d.seal = snap[m].seal BY <2>1, <1>1 DEF Numbers
  <2>3. CASE m = n /\ \E c \in todo[n] : Seals(n, c)
    <3>1. PICK c \in todo[n] : Seals(n, c) BY <2>3
    <3>2. seal[e.file] # e.seal /\ seal[d.file] # d.seal BY <3>1, <2>1, <2>3, <1>1 DEF Seals, Fresh
    <3>3. e.file = c.file /\ d.file = c.file BY <3>1, <3>2, <2>0, <1>7 DEF Seals, Sealed1
    <3>4. todo[m] \subseteq plan[m] /\ OneKeyEach(plan[m]) BY <1>1, <2>1 DEF Typed, HeldTyped
    <3> QED BY <3>3, <3>4, <2>1 DEF OneKeyEach
  <2>4. CASE ~(m = n /\ \E c \in todo[n] : Seals(n, c))
    <3>1. seal[e.file] = e.seal /\ seal[d.file] = d.seal
        BY <2>0, <2>1, <2>2, <2>4, <1>3, <1>7
    <3>2. at[m] = "checking"
      <4>1. CASE m # n BY <4>1, <1>7, OthersStay DEF Others, Unmoved
      <4>2. CASE m = n
          BY <4>2, <2>4, <1>7 DEF MoveOf, Begins, Plans, Journals, Locks, Prepares, Removes, BeginsUndo,
             EndsUndo, Edits, Replaces, Checks, Reverts, Undoes, Ended, Unmoved
      <4> QED BY <4>1, <4>2
    <3> QED BY <3>1, <3>2, <2>1, <1>1 DEF Fresh
  <2> QED BY <2>3, <2>4
<1>8. ASSUME NEW m \in Notes, at'[m] \in Planned, ~locked'[m], NEW k \in Notes \ {m},
             NEW d \in EntriesOf(k)', NEW e \in todo'[m], d.file = e.file
      PROVE  d.seal # e.seal
  <2>1. CASE m = n /\ Plans(n)
    <3>1. d \in EntriesOf(k) BY <2>1, EntriesGrow DEF Inv
    <3>2. e.seal = snap[m].seal BY <2>1, PlansTake DEF Inv
    <3> QED BY <3>1, <3>2, <2>1, <1>1 DEF Fresh, Plans
  <2>2. CASE ~(m = n /\ Plans(n))
    <3>1. at[m] \in Running /\ at[m] \in Planned /\ e \in todo[m]
        BY <2>2, <1>8, RunsMove DEF Begins, Running, Planned
    <3>2. e.seal = snap[m].seal /\ e.seal # 0 BY <3>1, <1>1 DEF Numbers
    <3>3. ~locked[m]
      <4>1. CASE m # n BY <4>1, <1>8, OthersStay DEF Others, Unwritten
      <4>2. CASE m = n
          BY <4>2, <3>1, <1>8 DEF MoveOf, Begins, Plans, Journals, Locks, Prepares, Removes, BeginsUndo,
             EndsUndo, Edits, Replaces, Seals, Checks, Reverts, Undoes, Unwritten, Ended, Planned
      <4> QED BY <4>1, <4>2
    <3>4. \A c \in EntriesOf(k) : c.file = e.file => c.seal # e.seal BY <3>1, <3>3, <1>1 DEF Fresh
    <3>5. CASE d \in EntriesOf(k) BY <3>5, <3>4, <1>8
    <3>6. CASE UndoCopies(n, d) BY <3>6, <3>2 DEF UndoCopies
    <3>7. CASE d \notin EntriesOf(k) /\ k = n /\ Plans(n) /\ d \in plan'[n]
      <4>1. at[n] \in Running /\ n # m BY <3>7 DEF Plans, Running
      <4>2. CASE d \in todo'[n]
          BY <4>1, <4>2, <3>1, <3>2, <3>7, <1>1, PlansTake DEF Inv, Numbers
      <4>3. CASE d \notin todo'[n]
        <5>1. d \notin snap[n].list BY <3>7 DEF EntriesOf
        <5>2. d.file \in Sealed(n) /\ d.seal = seal[d.file] BY <5>1, <4>3, <3>7, PlansTake DEF Inv
        \* The key is only in the session of the pass that checks it.
        <5>3. Opens(n, e.file) \/ MaybeInSession(e.file) BY <5>2, <3>7, <1>8 DEF Plans
        <5> SUFFICES ASSUME seal[e.file] = e.seal PROVE FALSE BY <5>2, <1>8
        <5>4. e.file \in FilesOf(Unchecked(m))
            BY <3>1, <1>1 DEF Fresh, Unchecked, FilesOf, Planned
        <5>5. Opens(n, e.file) BY <5>3, <5>4 DEF MaybeInSession
        <5>6. Pass(n) = {n} /\ plan[n] = {} BY <4>1, <3>7, PassAlone, PlansTake DEF Inv
        <5>7. PICK j \in Notes \ {m} :
                  (j = n /\ HasKey(snap[n].list, e.file)) \/ (locked[j] /\ HasKey(list[j], e.file))
            BY <5>5, <5>6, <4>1, <3>3 DEF Opens, HasKey
        <5>8. \E c \in EntriesOf(j) : c.file = e.file /\ c.seal = e.seal
            BY <5>7 DEF HasKey, EntriesOf
        <5> QED BY <5>8, <3>1, <3>3, <1>1 DEF Fresh
      <4> QED BY <4>2, <4>3
    <3> QED BY <3>5, <3>6, <3>7, EntriesGrow DEF Inv
  <2> QED BY <2>1, <2>2
<1> QED BY <1>5, <1>6, <1>7, <1>8 DEF Fresh

LEMMA JournaledKept ==
    ASSUME Inv, NEW n \in Notes, MoveOf(n)
    PROVE  Journaled'
<1> SUFFICES ASSUME NEW m \in Notes, at'[m] \in {"sealing", "checking"}
             PROVE  todo'[m] \subseteq list'[m] \cup (IF locked'[m] THEN {} ELSE history'[m])
    BY DEF Journaled
<1>0. at[m] \in {"sealing", "checking"} => todo[m] \subseteq list[m] \cup (IF locked[m] THEN {} ELSE history[m])
    BY DEF Inv, Journaled
<1>1. CASE m # n BY <1>0, <1>1, OthersStay DEF Others, Unmoved, Unwritten
<1>2. CASE m = n
  <2>1. CASE Begins(n) \/ Plans(n) \/ Locks(n) \/ Prepares(n) \/ Removes(n) \/ BeginsUndo(n) \/ EndsUndo(n)
      BY <1>2, <2>1 DEF Begins, Plans, Locks, Prepares, Removes, BeginsUndo, EndsUndo, Ended
  <2>2. CASE Journals(n)
    <3>1. todo[n] \subseteq plan[n] BY <2>2 DEF Inv, Typed, HeldTyped, Planned, Journals
    <3> QED BY <1>2, <2>2, <3>1 DEF Journals
  <2>3. CASE Edits(n) \/ Replaces(n)
      BY <1>0, <1>2, <2>3 DEF Edits, Replaces, Unmoved
  <2>4. CASE \E e \in todo[n] : Seals(n, e) \/ Checks(n, e) \/ Reverts(n, e) \/ Undoes(n, e)
      BY <1>0, <1>2, <2>4 DEF Seals, Checks, Reverts, Undoes, Ended, Unwritten
  <2> QED BY <2>1, <2>2, <2>3, <2>4 DEF MoveOf
<1> QED BY <1>1, <1>2

\* No file goes but one that an undo takes the seal of.
LEMMA MadeStays ==
    ASSUME NEW n \in Notes, MoveOf(n), NEW f \in Files, f \in made, f \notin made'
    PROVE  seal'[f] = 0
BY DEF MoveOf, Begins, Plans, Journals, Locks, Prepares, Removes, BeginsUndo, EndsUndo, Edits, Replaces,
       Seals, Checks, Reverts, Undoes, FilesStay, Sealed1

\* What a pass has planned stays planned, and less of it is to seal.
LEMMA PlannedOn ==
    ASSUME NEW n \in Notes, MoveOf(n), NEW m \in Notes, at'[m] \in Planned, ~(m = n /\ Plans(n))
    PROVE  at[m] \in Planned /\ plan'[m] = plan[m] /\ todo'[m] \subseteq todo[m] /\ snap'[m] = snap[m]
           /\ (todo'[m] = todo[m] \/ \E e \in todo[m] : m = n /\ Checks(n, e))
           /\ locked'[m] = locked[m]
<1>1. CASE m # n BY <1>1, OthersStay DEF Others, Unmoved, Unwritten
<1>2. CASE m = n
  <2>1. CASE Begins(n) \/ Journals(n) \/ Locks(n) \/ Prepares(n) \/ Removes(n) \/ BeginsUndo(n) \/ EndsUndo(n)
      BY <1>2, <2>1 DEF Begins, Journals, Locks, Prepares, Removes, BeginsUndo, EndsUndo, Planned, Ended
  <2>2. CASE Edits(n) \/ Replaces(n) BY <1>2, <2>2 DEF Edits, Replaces, Unmoved
  <2>3. CASE \E e \in todo[n] : Seals(n, e) \/ Checks(n, e) \/ Reverts(n, e) \/ Undoes(n, e)
      BY <1>2, <2>3 DEF Seals, Checks, Reverts, Undoes, Unwritten, Planned, Ended
  <2> QED BY <1>2, <2>1, <2>2, <2>3 DEF MoveOf
<1> QED BY <1>1, <1>2

LEMMA PlanRightKept ==
    ASSUME Inv, Typed', NEW n \in Notes, MoveOf(n)
    PROVE  PlanRight'
<1> SUFFICES ASSUME NEW m \in Notes, at'[m] \in Planned, NEW e \in plan'[m] \ todo'[m]
             PROVE  e.seal # 0 /\ e.file \in made' /\ seal'[e.file] = e.seal
    BY DEF PlanRight
<1>0. e.file \in Files BY DEF Typed, HeldTyped, Entry
<1>1. CASE m = n /\ Plans(n)
  <2>1. seal[e.file] # 0 /\ seal'[e.file] = seal[e.file] /\ made \subseteq made'
      BY <1>1, PlansTake DEF Inv, Plans
  <2>2. e.file \in made BY <1>0, <2>1 DEF Inv, Numbers
  <2>3. CASE e.seal = seal[e.file] BY <2>1, <2>2, <2>3
  <2>4. CASE e \in snap[n].list /\ IsCopy(e)
    <3>1. e.seal = seal[e.file] \/ seal[e.file] \in {0, e.seal}
        BY <2>4 DEF Inv, CopiesOwn
    <3> QED BY <2>1, <2>2, <3>1
  <2> QED BY <1>1, <2>3, <2>4, PlansTake DEF Inv
<1>2. CASE ~(m = n /\ Plans(n))
  <2>1. at[m] \in Planned /\ e \in plan[m] BY <1>2, PlannedOn
  <2>2. CASE e \in todo[m]
    <3>1. e \notin todo'[m] OBVIOUS
    <3>2. PICK d \in todo[m] : m = n /\ Checks(n, d) BY <1>2, <2>2, <3>1, PlannedOn
    <3>3. e = d BY <2>2, <3>1, <3>2 DEF Checks
    <3>4. seal'[e.file] = e.seal /\ made' = made BY <3>2, <3>3 DEF Checks, FilesStay
    <3>5. e.seal = snap[m].seal /\ snap[m].seal # 0 BY <2>1, <2>2 DEF Inv, Numbers, Planned, Running
    <3>6. e.file \in made BY <1>0, <3>2, <3>3, <3>5 DEF Inv, Numbers, Checks
    <3> QED BY <3>4, <3>5, <3>6
  <2>3. CASE e \notin todo[m]
    <3>1. e.seal # 0 /\ seal'[e.file] = e.seal BY <2>1, <2>3, PlansStay
    <3>2. e.file \in made BY <2>1, <2>3 DEF Inv, PlanRight
    <3> QED BY <1>0, <3>1, <3>2, MadeStays
  <2> QED BY <2>2, <2>3
<1> QED BY <1>1, <1>2

\* What a locked note shows, it shows until its lock is removed or a save of
\* it is written.
LEMMA LockedShows ==
    ASSUME Steps, NEW n \in Notes, MoveOf(n), NEW m \in Notes, locked'[m]
    PROVE  \/ m = n /\ Locks(n)
           \/ locked[m] /\ shows'[m] = shows[m] /\ (m = n => ~Removes(n))
<1>1. CASE m # n BY <1>1, OthersStay DEF Others, Unwritten
<1>2. CASE m = n
    BY <1>2 DEF MoveOf, Begins, Plans, Journals, Locks, Prepares, Removes, BeginsUndo, EndsUndo, Edits,
       Replaces, Seals, Checks, Reverts, Undoes, Unwritten, Steps
<1> QED BY <1>1, <1>2

LEMMA CoversKept ==
    ASSUME Inv, NEW n \in Notes, MoveOf(n)
    PROVE  Covers'
<1> SUFFICES ASSUME NEW m \in Notes, locked'[m]
             PROVE  /\ at'[m] \in Running => shows'[m] \subseteq snap'[m].shows
                    /\ at'[m] \in Planned =>
                          \A f \in shows'[m] : \E e \in plan'[m] \ todo'[m] : e.file = f
    BY DEF Covers
<1>1. CASE m = n /\ Locks(n) BY <1>1 DEF Locks, Ended, Running, Planned
<1>2. CASE ~(m = n /\ Locks(n))
  <2>1. locked[m] /\ shows'[m] = shows[m] BY <1>2, LockedShows DEF Inv
  <2>2. ASSUME at'[m] \in Running PROVE shows[m] \subseteq snap'[m].shows
    <3>1. CASE m = n /\ Begins(n) BY <3>1 DEF Begins
    <3>2. CASE ~(m = n /\ Begins(n)) BY <2>1, <2>2, <3>2, RunsMove DEF Inv, Covers
    <3> QED BY <3>1, <3>2
  <2>3. ASSUME at'[m] \in Planned, NEW f \in shows[m]
        PROVE  \E e \in plan'[m] \ todo'[m] : e.file = f
    <3>1. CASE m = n /\ Plans(n)
      <4>1. f \in snap[n].shows BY <2>1, <3>1 DEF Inv, Covers, Plans, Running
      <4>2. f \in Files /\ seal[f] # 0 BY <2>1 DEF Inv, Typed, StoredTyped, LockedHasKeys
      <4>3. f \in made BY <4>2 DEF Inv, Numbers
      <4>4. f \in Sealed(n) BY <3>1, <4>1, <4>2, <4>3, PlansTake DEF Inv, Sealed, Links
      <4> QED BY <3>1, <4>4, PlansTake DEF Inv
    <3>2. CASE ~(m = n /\ Plans(n))
        BY <2>1, <2>3, <3>2, PlannedOn DEF Inv, Covers
    <3> QED BY <3>1, <3>2
  <2> QED BY <2>1, <2>2, <2>3
<1> QED BY <1>1, <1>2

LEMMA LockedHasKeysKept ==
    ASSUME Inv, NEW n \in Notes, MoveOf(n)
    PROVE  LockedHasKeys'
<1> SUFFICES ASSUME NEW m \in Notes, locked'[m], NEW f \in shows'[m]
             PROVE  seal'[f] # 0 /\ \E e \in list'[m] : e.file = f /\ e.seal = seal'[f]
    BY DEF LockedHasKeys, HasKey
<1>1. CASE m = n /\ Locks(n)
  <2>1. PICK e \in plan[n] : e.file = f BY <1>1 DEF Locks, FilesOf
  <2>2. e.seal # 0 /\ seal[e.file] = e.seal
      BY <1>1 DEF Inv, PlanRight, Locks, Planned
  <2> QED BY <1>1, <2>1, <2>2 DEF Locks, FilesStay
<1>2. CASE ~(m = n /\ Locks(n))
  <2>1. locked[m] /\ f \in shows[m] /\ (m = n => ~Removes(n)) BY <1>2, LockedShows DEF Inv
  <2>2. seal[f] # 0 /\ \E e \in list[m] : e.file = f /\ e.seal = seal[f]
      BY <2>1 DEF Inv, LockedHasKeys, HasKey
  <2>3. seal'[f] = seal[f] BY <2>1, <2>2, KeysStay
  <2>4. CASE m = n /\ Journals(n)
    <3>1. PICK e \in plan[m] \ todo[m] : e.file = f
        BY <2>1, <2>4 DEF Inv, Covers, Journals, Planned
    <3>2. e.seal = seal[f] BY <2>4, <3>1 DEF Inv, PlanRight, Journals, Planned
    <3> QED BY <2>2, <2>3, <2>4, <3>1, <3>2 DEF Journals
  <2>5. CASE ~(m = n /\ Journals(n))
    <3>1. list'[m] = list[m]
      <4>1. CASE m # n BY <4>1, OthersStay DEF Others, Unwritten
      <4>2. CASE m = n
          BY <1>2, <2>1, <2>5, <4>2 DEF MoveOf, Begins, Plans, Prepares, BeginsUndo, EndsUndo, Edits,
             Replaces, Seals, Checks, Reverts, Undoes, Unwritten, Inv, Steps
      <4> QED BY <4>1, <4>2
    <3> QED BY <2>2, <2>3, <3>1
  <2> QED BY <2>4, <2>5
<1> QED BY <1>1, <1>2

\* What a plain note shows and reads it goes on reading while it shows it.
LEMMA ReadsOn ==
    ASSUME Inv, Typed', NEW n \in Notes, MoveOf(n), NEW m \in Notes, ~locked[m], ~locked'[m],
           NEW f \in shows[m] \cap shows'[m], Reads(m, f)
    PROVE  Reads(m, f)' \/ TakesForCopy(m, f)
<1>0. f \in Files /\ f \in made BY DEF Inv, Typed, StoredTyped, Reads
<1>1. ASSUME f \notin made' PROVE TakesForCopy(m, f)
  <2>1. PICK e \in todo[n] :
            /\ at[n] = "undoing" /\ todo'[n] = todo[n] \ {e} /\ f = e.file /\ e.from # None
            /\ \A k \in Notes \ {n} : ~Owns(k, e.file)
      BY <1>0, <1>1 DEF MoveOf, Begins, Plans, Journals, Locks, Prepares, Removes, BeginsUndo, EndsUndo, Edits,
         Replaces, Seals, Checks, Reverts, Undoes, FilesStay
  <2>2. m = n BY <2>1 DEF Owns
  <2>3. ~IsCopy(e) BY <2>1, <2>2 DEF Inv, Undoing, Private
  <2> QED BY <2>1, <2>2, <2>3 DEF IsCopy, TakesForCopy
<1>2. seal'[f] = 0 \/ \E e \in list'[m] \cup history'[m] : e.file = f /\ e.seal = seal'[f]
  <2>1. CASE m = n /\ (EndsUndo(n) \/ Edits(n)) BY <2>1 DEF EndsUndo, Edits, FilesStay
  <2>2. CASE seal'[f] # seal[f] /\ seal'[f] # 0
    <3>1. PICK e \in todo[n] : Seals(n, e) /\ f = e.file /\ seal'[f] = e.seal
        BY <1>0, <2>2, SealMoves
    <3>2. m = n BY <3>1 DEF Inv, TodoApart, Seals, Planned
    <3>3. e \in list[m] \cup history[m] BY <3>1, <3>2 DEF Inv, Journaled, Seals
    <3> QED BY <3>1, <3>2, <3>3 DEF Seals, Unwritten
  <2>3. CASE seal'[f] = seal[f] /\ seal[f] # 0 /\ m = n /\ Journals(n)
    <3>1. PICK d \in plan[n] : d.file = f BY <2>3 DEF Journals, FilesOf
    <3>2. d.seal = seal[f]
      <4>1. CASE d \in todo[n] BY <2>3, <3>1, <4>1 DEF Inv, TodoApart, Journals, Planned
      <4>2. CASE d \notin todo[n] BY <2>3, <3>1, <4>2 DEF Inv, PlanRight, Journals, Planned
      <4> QED BY <4>1, <4>2
    <3> QED BY <2>3, <3>1, <3>2 DEF Journals
  <2>4. CASE seal'[f] = seal[f] /\ seal[f] # 0 /\ ~(m = n /\ (EndsUndo(n) \/ Edits(n) \/ Journals(n)))
    <3>1. PICK e \in list[m] \cup history[m] : e.file = f /\ e.seal = seal[f]
        BY <2>4 DEF Reads, HasKey
    <3>2. list[m] \cup history[m] \subseteq list'[m] \cup history'[m]
      <4>1. CASE m # n BY <4>1, OthersStay DEF Others, Unwritten
      <4>2. CASE m = n
          BY <2>4, <4>2 DEF Inv, Steps, MoveOf, Begins, Plans, Locks, Prepares, Removes, BeginsUndo, Replaces,
             Seals, Checks, Reverts, Undoes, Unwritten
      <4> QED BY <4>1, <4>2
    <3> QED BY <2>4, <3>1, <3>2
  <2> QED BY <2>1, <2>2, <2>3, <2>4
<1> QED BY <1>1, <1>2 DEF Reads, HasKey

\* Remove Lock leaves the files it shows plain.
LEMMA RemovedReads ==
    ASSUME Inv, Typed', NEW n \in Notes, Removes(n), NEW f \in shows'[n]
    PROVE  f \in made' /\ seal'[f] = 0
<1> DEFINE S == FilesOf(todo[n])
<1>1. PICK g \in shows[n] : f = IF g \in S THEN Copier(S)[g] ELSE g BY DEF Removes
<1>2. f \in Files BY DEF Typed, StoredTyped
<1>3. CASE g \in S
  <2>1. S \in SUBSET Files /\ HasRoom(S) BY DEF Inv, Typed, HeldTyped, FilesOf, Entry, Removes
  <2>2. f \in Spare BY <1>1, <1>3, <2>1, Copying, NotesAssumption
  <2>3. seal[f] = 0 BY <1>2, <2>2 DEF Inv, Numbers, Spare
  <2>4. f \in made' BY <1>1, <1>3 DEF Removes
  <2> QED BY <1>2, <2>3, <2>4 DEF Removes
<1>4. CASE g \notin S
  <2>1. f = g /\ f \in FilesOf(plan[n]) BY <1>1, <1>4 DEF Inv, Removing, Removes, FilesOf
  <2>2. f \in made BY <1>2, <2>1 DEF Inv, Steps, Removes, LockedHasKeys, Numbers
  <2> QED BY <1>2, <2>1, <2>2 DEF Removes
<1> QED BY <1>3, <1>4

\* A plain note gets no link to a file that another pass is to seal.
LEMMA TodoApartKept ==
    ASSUME Inv, Typed', NEW n \in Notes, MoveOf(n)
    PROVE  TodoApart'
<1> SUFFICES ASSUME NEW m \in Notes, at'[m] \in Planned, NEW e \in todo'[m],
                    NEW k \in Notes, ~locked'[k], e.file \in shows'[k]
             PROVE  k = m /\ seal'[e.file] \in {0, e.seal}
    BY DEF TodoApart
<1>0. e.file \in Files BY DEF Typed, HeldTyped, Entry
<1>1. CASE m = n /\ Plans(n)
  <2>1. ~locked[k] /\ e.file \in shows[k] BY <1>1, OthersStay DEF Others, Unwritten, Plans
  <2>2. e.file \notin Spare BY <2>1 DEF Spare, Named
  <2>3. e.file \in Unsealed(n) \ Shared(n) BY <1>1, <2>2, PlansTake DEF Inv
  <2>4. seal'[e.file] = 0 BY <1>1, <2>3, LinksFiles DEF Inv, Plans
  <2>5. k = n
    <3>1. group[n] = {n} BY <1>1 DEF Inv, Solo, Plans, Running
    <3>2. ~SharedWithUnlocked(e.file, {n}) BY <2>3, <3>1 DEF Shared
    <3> SUFFICES ASSUME k # n PROVE FALSE OBVIOUS
    <3>3. [file |-> e.file, from |-> None] \in {[file |-> g, from |-> None] : g \in shows[k]}
        BY <2>1
    <3> QED BY <2>1, <3>2, <3>3 DEF SharedWithUnlocked
  <2> QED BY <1>1, <2>4, <2>5
<1>2. CASE ~(m = n /\ Plans(n))
  <2>1. at[m] \in Planned /\ e \in todo[m] BY <1>2, PlannedOn
  <2>2. e.file \in Named(m) /\ e.file \in FilesOf(EntriesOf(m)) BY <2>1 DEF Named, FilesOf, EntriesOf
  <2>3. ~locked[k] /\ e.file \in shows[k]
    <3>1. CASE k # n BY <3>1, OthersStay DEF Others, Unwritten
    <3>2. CASE k = n /\ Removes(n)
      <4> DEFINE S == FilesOf(todo[n])
      <4>1. PICK g \in shows[n] : e.file = IF g \in S THEN Copier(S)[g] ELSE g
          BY <3>2 DEF Removes
      <4>2. S \in SUBSET Files /\ HasRoom(S)
          BY <3>2 DEF Inv, Typed, HeldTyped, FilesOf, Entry, Removes
      <4>3. e.file \notin Spare BY <2>2 DEF Spare
      <4>4. g \notin S BY <4>1, <4>2, <4>3, Copying, NotesAssumption
      <4>5. e.file \in FilesOf(list[n] \cup todo[n])
          BY <3>2, <4>1, <4>4 DEF Inv, Removing, Removes, FilesOf
      <4>6. at[n] = "removing" /\ m # n BY <3>2, <1>2, <2>1 DEF Removes, Planned
      <4>7. e.file \in FilesOf(plan[m] \cup todo[m]) BY <2>1 DEF FilesOf
      <4> QED BY <4>5, <4>6, <4>7 DEF Inv, Apart
    <3>3. CASE k = n /\ EndsUndo(n)
      <4>1. at[n] = "undoing" /\ ~locked[n] /\ m # n BY <3>3, <2>1 DEF Inv, Steps, EndsUndo, Planned
      <4>2. \A p \in plan[n] : p.file # e.file
        <5> TAKE p \in plan[n]
        <5>1. IsCopy(p) BY <4>1 DEF Inv, Undoing
        <5>2. Private(n, p.file) BY <4>1, <5>1 DEF Inv, CopiesOwn
        <5> QED BY <5>2, <4>1, <2>2 DEF Private
      <4> QED BY <3>3, <4>1, <4>2 DEF EndsUndo, FilesOf
    <3>4. CASE k = n /\ (Edits(n) \/ Replaces(n))
        BY <3>4, <2>1 DEF Edits, Replaces, FilesOf, Planned
    <3>5. CASE k = n /\ ~(Removes(n) \/ EndsUndo(n) \/ Edits(n) \/ Replaces(n))
        BY <3>5 DEF MoveOf, Begins, Plans, Journals, Locks, Prepares, BeginsUndo, Seals,
           Checks, Reverts, Undoes, Unwritten
    <3> QED BY <3>1, <3>2, <3>3, <3>4, <3>5
  <2>4. k = m /\ seal[e.file] \in {0, e.seal} BY <2>1, <2>3 DEF Inv, TodoApart
  <2>5. seal'[e.file] \in {0, e.seal}
    <3>1. CASE seal'[e.file] = seal[e.file] \/ seal'[e.file] = 0 BY <3>1, <2>4
    <3>2. CASE \E d \in todo[n] : Seals(n, d) /\ e.file = d.file /\ seal'[e.file] = d.seal
      <4>1. PICK d \in todo[n] : Seals(n, d) /\ e.file = d.file /\ seal'[e.file] = d.seal BY <3>2
      <4>2. k = n BY <4>1, <2>3 DEF Inv, TodoApart, Seals, Planned
      <4>3. OneKeyEach(plan[n]) /\ todo[n] \subseteq plan[n]
          BY <4>1 DEF Inv, Typed, HeldTyped, Seals, Planned
      <4>4. e = d BY <2>1, <2>4, <4>1, <4>2, <4>3 DEF OneKeyEach
      <4> QED BY <4>1, <4>4
    <3> QED BY <1>0, <3>1, <3>2, SealMoves
  <2> QED BY <2>4, <2>5
<1> QED BY <1>1, <1>2

\* What the schedule says of a step, RemovesAlone, once more.
Aside == \A n \in Notes : at'[n] \in {"removing", "undoing"} =>
    \A m \in Notes \ {n} : FilesOf(plan'[m] \cup todo'[m]) \cap FilesOf(list[n] \cup todo[n]) = {}

LEMMA SchedulesAside ==
    ASSUME Inv, [Next]_vars, [Schedule]_vars
    PROVE  Aside
<1>1. CASE UNCHANGED vars BY <1>1 DEF vars, stored, running, Aside, Inv, Apart
<1>2. CASE Schedule
  <2> SUFFICES ASSUME NEW n \in Notes, at'[n] \in {"removing", "undoing"}, NEW m \in Notes \ {n}
               PROVE  FilesOf(plan'[m] \cup todo'[m]) \cap FilesOf(list[n] \cup todo[n]) = {}
      BY DEF Aside
  <2>1. (FilesOf(plan'[m] \cup todo'[m]) \cup snap'[m].shows) \cap FilesOf(list[n] \cup todo[n]) = {}
      BY <1>2 DEF Schedule, RemovesAlone
  <2> QED BY <2>1
<1> QED BY <1>1, <1>2

LEMMA ApartKept ==
    ASSUME Inv, NEW n \in Notes, MoveOf(n), Aside
    PROVE  Apart'
<1> SUFFICES ASSUME NEW m \in Notes, at'[m] \in {"removing", "undoing"}
             PROVE  list'[m] \cup todo'[m] \subseteq list[m] \cup todo[m]
  <2>1. ASSUME NEW m \in Notes, at'[m] \in {"removing", "undoing"}, NEW k \in Notes \ {m}
        PROVE  FilesOf(plan'[k] \cup todo'[k]) \cap FilesOf(list'[m] \cup todo'[m]) = {}
    <3>1. FilesOf(plan'[k] \cup todo'[k]) \cap FilesOf(list[m] \cup todo[m]) = {}
        BY <2>1 DEF Aside
    <3>2. list'[m] \cup todo'[m] \subseteq list[m] \cup todo[m] BY <2>1
    <3>3. FilesOf(list'[m] \cup todo'[m]) \subseteq FilesOf(list[m] \cup todo[m]) BY <3>2 DEF FilesOf
    <3> QED BY <3>1, <3>3
  <2> QED BY <2>1 DEF Apart, FilesOf
<1>1. CASE m # n BY <1>1, OthersStay DEF Others, Unmoved, Unwritten
<1>2. CASE m = n
  <2>1. CASE Begins(n) \/ Plans(n) \/ Journals(n) \/ Locks(n) \/ Removes(n) \/ EndsUndo(n)
      BY <1>2, <2>1 DEF Begins, Plans, Journals, Locks, Removes, EndsUndo, Ended
  <2>2. CASE Prepares(n) \/ BeginsUndo(n) \/ Edits(n) \/ Replaces(n)
      BY <1>2, <2>2 DEF Prepares, BeginsUndo, Edits, Replaces, Unwritten, Unmoved
  <2>3. CASE \E e \in todo[n] : Seals(n, e) \/ Checks(n, e) \/ Reverts(n, e) \/ Undoes(n, e)
      BY <1>2, <2>3 DEF Seals, Checks, Reverts, Undoes, Ended, Unwritten
  <2> QED BY <2>1, <2>2, <2>3 DEF MoveOf
<1> QED BY <1>1, <1>2

LEMMA RemovingKept ==
    ASSUME Inv, NEW n \in Notes, MoveOf(n)
    PROVE  Removing'
<1> SUFFICES ASSUME NEW m \in Notes, at'[m] = "removing"
             PROVE  /\ plan'[m] \cup todo'[m] \subseteq list'[m]
                    /\ shows'[m] \subseteq FilesOf(plan'[m] \cup todo'[m])
                    /\ \A k \in Notes \ {m} :
                          locked'[k] => FilesOf(plan'[m]) \cap FilesOf(list'[k]) = {}
    BY DEF Removing
<1>1. CASE m = n /\ Prepares(n)
  <2>1. plan'[m] \cup todo'[m] \subseteq list'[m] BY <1>1 DEF Prepares, Unwritten
  <2>2. ASSUME NEW f \in shows[n] PROVE f \in FilesOf(plan'[m] \cup todo'[m])
    <3>1. PICK e \in list[n] : e.file = f /\ seal[f] # 0
        BY <1>1 DEF Prepares, Inv, LockedHasKeys, HasKey
    <3>2. f \in made BY <3>1 DEF Inv, Typed, StoredTyped, Entry, Numbers
    <3> QED BY <1>1, <3>1, <3>2 DEF Prepares, FilesOf
  <2>3. ASSUME NEW k \in Notes \ {m}, locked'[k], NEW e \in plan'[m], NEW d \in list'[k], e.file = d.file
        PROVE  FALSE
    <3>1. locked[k] /\ d \in list[k] BY <1>1, <2>3 DEF Prepares, Others, Unwritten
    <3>2. ~Owns(k, e.file) BY <1>1 DEF Prepares
    <3> QED BY <2>3, <3>1, <3>2 DEF Owns, FilesOf
  <2> QED BY <1>1, <2>1, <2>2, <2>3 DEF FilesOf, Prepares, Unwritten
<1>2. CASE ~(m = n /\ Prepares(n))
  <2>1. /\ at[m] = "removing" /\ plan'[m] = plan[m] /\ todo'[m] = todo[m]
        /\ list'[m] = list[m] /\ shows'[m] = shows[m]
    <3>1. CASE m # n BY <3>1, OthersStay DEF Others, Unmoved, Unwritten
    <3>2. CASE m = n
      <4>1. CASE Begins(n) \/ Plans(n) \/ Journals(n) \/ Locks(n) \/ Removes(n) \/ BeginsUndo(n) \/ EndsUndo(n)
          BY <3>2, <4>1 DEF Begins, Plans, Journals, Locks, Removes, BeginsUndo, EndsUndo, Ended
      <4>2. CASE Edits(n) \/ Replaces(n)
          BY <3>2, <4>2 DEF Edits, Replaces, Unmoved, Inv, Steps
      <4>3. CASE \E e \in todo[n] : Seals(n, e) \/ Checks(n, e) \/ Reverts(n, e) \/ Undoes(n, e)
          BY <3>2, <4>3 DEF Seals, Checks, Reverts, Undoes, Ended
      <4> QED BY <1>2, <3>2, <4>1, <4>2, <4>3 DEF MoveOf
    <3> QED BY <3>1, <3>2
  <2>2. plan[m] \cup todo[m] \subseteq list[m] /\ shows[m] \subseteq FilesOf(plan[m] \cup todo[m])
      BY <2>1 DEF Inv, Removing
  <2>3. ASSUME NEW k \in Notes \ {m}, locked'[k] PROVE FilesOf(plan[m]) \cap FilesOf(list'[k]) = {}
    <3>1. CASE list'[k] = list[k] /\ locked[k] BY <2>1, <3>1 DEF Inv, Removing
    <3>2. CASE list'[k] = plan[k]
        BY <2>1, <2>2, <3>2 DEF Inv, Apart, FilesOf
    <3>3. CASE list'[k] = {} BY <3>3 DEF FilesOf
    <3>4. (list'[k] = list[k] /\ locked[k]) \/ list'[k] = plan[k] \/ list'[k] = {}
      <4>1. CASE k # n BY <2>3, <4>1, OthersStay DEF Others, Unwritten
      <4>2. CASE k = n
          BY <2>3, <4>2 DEF MoveOf, Begins, Plans, Journals, Locks, Prepares, Removes, BeginsUndo, EndsUndo,
             Edits, Replaces, Seals, Checks, Reverts, Undoes, Unwritten
      <4> QED BY <4>1, <4>2
    <3> QED BY <3>1, <3>2, <3>3, <3>4
  <2> QED BY <2>1, <2>2, <2>3
<1> QED BY <1>1, <1>2

\* What a note's copies are listed in grows as its entries do.
LEMMA CopiesGrow ==
    ASSUME Typed, Typed', Steps, NEW n \in Notes, MoveOf(n), NEW m \in Notes,
           NEW e \in list'[m] \cup plan'[m] \cup snap'[m].list, e \notin list[m] \cup plan[m] \cup snap[m].list
    PROVE  /\ m = n /\ Unwritten(n) /\ snap'[n] = snap[n] /\ seal' = seal
           /\ (Plans(n) /\ e \in plan'[n]) \/ (UndoCopies(n, e) /\ at'[n] = "undoing")
<1>1. m = n BY OthersStay DEF Others, Unmoved, Unwritten
<1>2. NoSnap.list = {} BY DEF NoSnap
<1>3. ASSUME Begins(n) \/ Journals(n) \/ Locks(n) \/ Prepares(n) \/ Removes(n) \/ BeginsUndo(n) \/ EndsUndo(n)
             \/ Edits(n) \/ Replaces(n)
      PROVE  FALSE
    BY <1>1, <1>2, <1>3 DEF Begins, Journals, Locks, Prepares, Removes, BeginsUndo, EndsUndo, Edits, Replaces,
                     Unmoved, Unwritten, Ended
<1>4. ASSUME NEW d \in todo[n], Seals(n, d) \/ Checks(n, d) \/ Reverts(n, d) PROVE FALSE
    BY <1>1, <1>2, <1>4 DEF Seals, Checks, Reverts, Unwritten, Ended
<1>5. CASE Plans(n) BY <1>1, <1>5 DEF Plans, Unwritten
<1>6. ASSUME NEW d \in todo[n], Undoes(n, d)
      PROVE  UndoCopies(n, e) /\ at'[n] = "undoing" /\ Unwritten(n) /\ snap'[n] = snap[n] /\ seal' = seal
  <2> DEFINE c == Copier({d.file})[d.file]
  <2>1. at[n] = "undoing" /\ at'[n] = "undoing" /\ Unwritten(n) /\ snap'[n] = snap[n] BY <1>6 DEF Undoes
  <2>2. e \in plan'[n] /\ e \notin plan[n] BY <1>1, <2>1 DEF Unwritten
  <2>3. HasRoom({d.file}) /\ e = [file |-> c, seal |-> 0, from |-> d.file] /\ seal' = seal
      BY <1>6, <2>2 DEF Undoes
  <2>4. d.file \in Files /\ e \in Entry BY <2>2 DEF Typed, HeldTyped, Entry
  <2>5. c \in Spare BY <2>3, <2>4, OneCopy, NotesAssumption
  <2>6. d.file \in Named(n) BY DEF Named, FilesOf, EntriesOf
  <2>7. d.file # c /\ d.file # None BY <2>4, <2>5, <2>6, NotesAssumption DEF Spare, NotesAssumption
  <2> HIDE DEF c
  <2> QED BY <2>1, <2>2, <2>3, <2>4, <2>5, <2>7 DEF UndoCopies, IsCopy
<1> QED BY <1>1, <1>3, <1>4, <1>5, <1>6 DEF MoveOf

\* A new copy is its note's alone.
LEMMA NewIsPrivate ==
    ASSUME NEW n \in Notes, Others(n), Unwritten(n), snap'[n] = snap[n], NEW c \in Spare
    PROVE  Private(n, c)'
<1>1. c \notin First /\ \A m \in Notes : c \notin Named(m) BY DEF Spare
<1>2. \A m \in Notes : shows'[m] = shows[m] /\ snap'[m] = snap[m] BY DEF Others, Unwritten, Unmoved
<1>3. \A m \in Notes \ {n} : EntriesOf(m)' = EntriesOf(m)
    BY DEF Others, Unwritten, Unmoved, EntriesOf
<1> QED BY <1>1, <1>2, <1>3 DEF Private, Named

\* It stays so until its note is locked with it, or has no use for it.
LEMMA PrivateStays ==
    ASSUME Inv, Typed', NEW n \in Notes, MoveOf(n), NEW k \in Notes, NEW c, Private(k, c),
           c \in FilesOf(EntriesOf(k)),
           k = n => ~(Locks(n) \/ EndsUndo(n) \/ Removes(n))
    PROVE  Private(k, c)'
<1>0. Typed BY DEF Inv
<1>1. c \notin Spare /\ c \notin Linkable BY DEF Spare, Linkable, Named, Private
<1>2. \A m \in Notes : c \notin shows[m] /\ c \notin snap[m].shows /\ (m # k => c \notin FilesOf(EntriesOf(m)))
    BY DEF Private
<1>3. ASSUME NEW m \in Notes PROVE c \notin shows'[m]
  <2>1. CASE m # n BY <2>1, <1>2, OthersStay DEF Others, Unwritten
  <2>2. CASE m = n /\ (Edits(n) \/ Replaces(n)) BY <2>2, <1>1 DEF Edits, Replaces
  <2>3. CASE m = n /\ (EndsUndo(n) \/ Locks(n))
    <3>1. c \notin FilesOf(plan[n]) BY <2>3, <1>2 DEF FilesOf, EntriesOf
    <3> QED BY <2>3, <3>1, <1>2 DEF EndsUndo, Locks
  <2>4. CASE m = n /\ Removes(n)
    <3> DEFINE S == FilesOf(todo[n])
    <3>1. S \in SUBSET Files /\ HasRoom(S) BY <2>4, <1>0 DEF Typed, HeldTyped, FilesOf, Entry, Removes
    <3>2. \A f \in S : Copier(S)[f] \in Spare BY <3>1, Copying, NotesAssumption
    <3> QED BY <2>4, <3>2, <1>1, <1>2 DEF Removes
  <2>5. CASE m = n /\ ~(Edits(n) \/ Replaces(n) \/ EndsUndo(n) \/ Locks(n) \/ Removes(n))
      BY <2>5, <1>2 DEF MoveOf, Begins, Plans, Journals, Prepares, BeginsUndo, Seals, Checks, Reverts,
         Undoes, Unwritten
  <2> QED BY <2>1, <2>2, <2>3, <2>4, <2>5
<1>4. ASSUME NEW m \in Notes PROVE c \notin snap'[m].shows
  <2>1. CASE m # n BY <2>1, <1>2, OthersStay DEF Others, Unmoved
  <2>2. CASE m = n /\ Begins(n) BY <2>2, <1>1, <1>2 DEF Begins
  <2>3. CASE m = n /\ ~Begins(n)
    <3>1. NoSnap.shows = {} BY DEF NoSnap
    <3>2. snap'[n] = snap[n] \/ snap'[n] = NoSnap
        BY <2>3 DEF MoveOf, Plans, Journals, Locks, Prepares, Removes, BeginsUndo, EndsUndo, Edits, Replaces,
           Seals, Checks, Reverts, Undoes, Unmoved, Ended
    <3> QED BY <2>3, <3>1, <3>2, <1>2
  <2> QED BY <2>1, <2>2, <2>3
<1>5. ASSUME NEW m \in Notes, m # k, NEW d \in EntriesOf(m)', d.file = c PROVE FALSE
  <2>1. d \notin EntriesOf(m) BY <1>2, <1>5 DEF FilesOf
  <2>2. m = n /\ d \in plan'[n] /\ (Plans(n) \/ UndoCopies(n, d)) BY <2>1, <1>0, EntriesGrow DEF Inv
  <2>3. CASE UndoCopies(n, d) BY <2>3, <1>1, <1>5 DEF UndoCopies
  <2>4. CASE Plans(n)
    <3>1. d.file \in Links(n) \/ d.file \in Spare \/ d \in snap[n].list
        BY <2>2, <2>4, PlansTake, LinksFiles DEF Inv
    <3>2. d.file \in Links(n) => c \in snap[n].shows BY <2>4, <1>5, PlansTake DEF Inv
    <3> QED BY <3>1, <3>2, <2>1, <2>2, <1>1, <1>2, <1>5 DEF EntriesOf
  <2> QED BY <2>2, <2>3, <2>4
<1> QED BY <1>3, <1>4, <1>5 DEF Private, FilesOf

LEMMA UndoingKept ==
    ASSUME Inv, Typed', NEW n \in Notes, MoveOf(n)
    PROVE  Undoing'
<1>a. ASSUME NEW m \in Notes, at'[m] = "undoing", NEW e \in todo'[m], IsCopy(e) PROVE Private(m, e.file)'
  <2>1. Private(m, e.file) /\ e \in EntriesOf(m)
    <3>1. CASE m = n /\ BeginsUndo(n) BY <1>a, <3>1 DEF BeginsUndo, Inv, CopiesOwn, EntriesOf
    <3>2. CASE ~(m = n /\ BeginsUndo(n))
      <4>1. at[m] = "undoing" /\ e \in todo[m]
        <5>1. CASE m # n BY <1>a, <5>1, OthersStay DEF Others, Unmoved
        <5>2. CASE m = n
            BY <1>a, <3>2, <5>2 DEF MoveOf, Begins, Plans, Journals, Locks, Prepares, Removes, EndsUndo, Edits,
               Replaces, Seals, Checks, Reverts, Undoes, Ended, Unmoved
        <5> QED BY <5>1, <5>2
      <4> QED BY <1>a, <4>1 DEF Inv, Undoing, EntriesOf
    <3> QED BY <3>1, <3>2
  <2>2. m = n => ~(Locks(n) \/ EndsUndo(n) \/ Removes(n)) BY <1>a DEF Locks, EndsUndo, Removes, Ended
  <2>3. e.file \in FilesOf(EntriesOf(m)) BY <2>1 DEF FilesOf
  <2> QED BY <2>1, <2>2, <2>3, PrivateStays
<1> SUFFICES ASSUME NEW m \in Notes, at'[m] = "undoing", NEW p \in plan'[m] PROVE IsCopy(p)
    BY <1>a DEF Undoing
<1>1. CASE at[m] = "undoing" /\ p \in plan[m] BY <1>1 DEF Inv, Undoing
<1>2. CASE ~(at[m] = "undoing" /\ p \in plan[m])
  <2>1. m = n BY <1>2, OthersStay DEF Others, Unmoved
  <2>2. CASE BeginsUndo(n) BY <2>1, <2>2 DEF BeginsUndo, Inv, Steps
  <2>3. CASE \E e \in todo[n] : Undoes(n, e)
    <3>1. PICK e \in todo[n] : Undoes(n, e) BY <2>3
    <3>2. p \notin plan[n] /\ HasRoom({e.file}) /\ p = [file |-> Copier({e.file})[e.file], seal |-> 0, from |-> e.file]
        BY <1>2, <2>1, <3>1 DEF Undoes
    <3>3. e.file \in Files /\ e.file \in Named(n)
        BY DEF Inv, Typed, HeldTyped, Entry, Named, FilesOf, EntriesOf
    <3>4. Copier({e.file})[e.file] \in Spare BY <3>2, <3>3, OneCopy, NotesAssumption
    <3> QED BY <3>2, <3>3, <3>4, NotesAssumption DEF Spare, IsCopy, NotesAssumption
  <2>4. BeginsUndo(n) \/ \E e \in todo[n] : Undoes(n, e)
      BY <1>2, <2>1 DEF MoveOf, Begins, Plans, Journals, Locks, Prepares, Removes, EndsUndo, Edits,
         Replaces, Seals, Checks, Reverts, Ended, Unmoved
  <2> QED BY <2>2, <2>3, <2>4
<1> QED BY <1>1, <1>2

LEMMA CopiesOwnKept ==
    ASSUME Inv, Typed', NEW n \in Notes, MoveOf(n)
    PROVE  CopiesOwn'
<1> SUFFICES ASSUME NEW m \in Notes, NEW e \in list'[m] \cup plan'[m] \cup snap'[m].list, IsCopy(e)
             PROVE  /\ \/ locked'[m] /\ e.file \in shows'[m] /\ e.seal = seal'[e.file]
                       \/ Private(m, e.file)' /\ seal'[e.file] \in {0, e.seal}
                    /\ at'[m] \in Planned => \A d \in todo'[m] : d.file = e.file => d.seal = e.seal
    BY DEF CopiesOwn
<1>0. Typed /\ NoSnap.list = {} BY DEF Inv, NoSnap
<1>00. e.file \in Files BY DEF Typed, StoredTyped, HeldTyped, Snap, Entry
<1>1. CASE m = n /\ Locks(n)
  <2>1. e \in plan[n] BY <1>0, <1>1 DEF Locks, Ended
  <2>2. seal[e.file] = e.seal BY <1>1, <2>1 DEF Inv, PlanRight, Locks, Planned
  <2>3. seal' = seal /\ locked'[n] /\ shows'[n] = FilesOf(plan[n]) /\ at'[n] = "idle"
      BY <1>1 DEF Locks, FilesStay, Ended
  <2> QED BY <1>1, <2>1, <2>2, <2>3 DEF Planned, FilesOf
<1>2. CASE m = n /\ (Removes(n) \/ EndsUndo(n))
    BY <1>0, <1>2 DEF Removes, EndsUndo, Ended
<1>3. ASSUME ~(m = n /\ (Locks(n) \/ Removes(n) \/ EndsUndo(n))), e \in list[m] \cup plan[m] \cup snap[m].list
      PROVE  /\ \/ locked'[m] /\ e.file \in shows'[m] /\ e.seal = seal'[e.file]
                \/ Private(m, e.file)' /\ seal'[e.file] \in {0, e.seal}
             /\ at'[m] \in Planned => \A d \in todo'[m] : d.file = e.file => d.seal = e.seal
  <2>1. /\ \/ locked[m] /\ e.file \in shows[m] /\ e.seal = seal[e.file]
           \/ Private(m, e.file) /\ seal[e.file] \in {0, e.seal}
        /\ at[m] \in Planned => \A d \in todo[m] : d.file = e.file => d.seal = e.seal
      BY <1>3 DEF Inv, CopiesOwn
  <2>2. ASSUME locked[m], e.file \in shows[m], e.seal = seal[e.file]
        PROVE  locked'[m] /\ e.file \in shows'[m] /\ e.seal = seal'[e.file]
    <3>1. locked'[m] /\ shows'[m] = shows[m]
      <4>1. CASE m # n BY <2>2, <4>1, OthersStay DEF Others, Unwritten
      <4>2. CASE m = n
          BY <2>2, <4>2, <1>3 DEF Inv, Steps, MoveOf, Begins, Plans, Journals, Prepares, BeginsUndo, Edits, Replaces,
             Seals, Checks, Reverts, Undoes, Unwritten
      <4> QED BY <4>1, <4>2
    <3>2. PICK d \in list[m] : d.file = e.file /\ d.seal = seal[e.file] /\ d.seal # 0
        BY <2>2 DEF Inv, LockedHasKeys, HasKey
    <3>3. seal'[e.file] = e.seal BY <2>2, <3>2, <1>3, KeysStay
    <3> QED BY <2>2, <3>1, <3>3
  <2>3. ASSUME Private(m, e.file), seal[e.file] \in {0, e.seal}
        PROVE  Private(m, e.file)' /\ seal'[e.file] \in {0, e.seal}
    <3>1. e.file \in FilesOf(EntriesOf(m)) BY <1>3 DEF FilesOf, EntriesOf
    <3>2. Private(m, e.file)' BY <2>3, <3>1, <1>3, PrivateStays
    <3>3. seal'[e.file] \in {0, e.seal}
      <4>1. CASE seal'[e.file] = seal[e.file] \/ seal'[e.file] = 0 BY <4>1, <2>3
      <4>2. CASE \E d \in todo[n] : Seals(n, d) /\ e.file = d.file /\ seal'[e.file] = d.seal
        <5>1. PICK d \in todo[n] : Seals(n, d) /\ e.file = d.file /\ seal'[e.file] = d.seal BY <4>2
        <5>2. e.file \in FilesOf(EntriesOf(n)) BY <5>1 DEF FilesOf, EntriesOf
        <5>3. m = n BY <2>3, <5>2 DEF Private
        <5> QED BY <2>1, <5>1, <5>3 DEF Seals, Planned
      <4> QED BY <1>00, <4>1, <4>2, SealMoves
    <3> QED BY <3>2, <3>3
  <2>4. ASSUME at'[m] \in Planned, NEW d \in todo'[m], d.file = e.file PROVE d.seal = e.seal
    <3>1. CASE ~(m = n /\ Plans(n)) BY <2>1, <2>4, <3>1, PlannedOn
    <3>2. CASE m = n /\ Plans(n)
      <4>1. e.file \notin Spare BY <3>2, <1>3 DEF Spare, Named, FilesOf, EntriesOf
      <4>2. d.file \in Unsealed(n) BY <2>4, <3>2, <4>1, PlansTake DEF Inv
      <4>3. e.file \in snap[n].shows /\ seal[e.file] = 0
          BY <1>0, <2>4, <3>2, <4>2, PlansTake, LinksFiles DEF Inv
      <4>4. locked[m] /\ e.file \in shows[m] BY <2>1, <3>2, <4>3 DEF Private
      <4> QED BY <4>3, <4>4 DEF Inv, LockedHasKeys
    <3> QED BY <3>1, <3>2
  <2> QED BY <2>1, <2>2, <2>3, <2>4
<1>4. CASE e \notin list[m] \cup plan[m] \cup snap[m].list
  <2>1. /\ m = n /\ Unwritten(n) /\ snap'[n] = snap[n] /\ seal' = seal
        /\ (Plans(n) /\ e \in plan'[n]) \/ (UndoCopies(n, e) /\ at'[n] = "undoing")
      BY <1>0, <1>4, CopiesGrow DEF Inv
  <2>2. e.file \in Spare
    <3>1. CASE Plans(n) /\ e \in plan'[n] /\ e \in todo'[n] BY <3>1, PlansTake DEF Inv, IsCopy
    <3>2. CASE Plans(n) /\ e \in plan'[n] /\ e \notin todo'[n] BY <3>2, <1>4, <2>1, PlansTake DEF Inv
    <3>3. CASE UndoCopies(n, e) BY <3>3 DEF UndoCopies
    <3> QED BY <2>1, <3>1, <3>2, <3>3
  <2>3. Private(n, e.file)' BY <2>1, <2>2, NewIsPrivate, OthersStay
  <2>4. seal'[e.file] = 0 BY <1>00, <2>1, <2>2 DEF Inv, Numbers, Spare
  <2>5. ASSUME at'[m] \in Planned, NEW d \in todo'[m], d.file = e.file PROVE d.seal = e.seal
    <3>1. e \in plan'[m] BY <2>1 DEF UndoCopies
    <3>2. d \in plan'[m] /\ OneKeyEach(plan'[m]) BY <2>5 DEF Typed, HeldTyped, OneKeyEach
    <3> QED BY <2>5, <3>1, <3>2 DEF OneKeyEach
  <2> QED BY <2>1, <2>3, <2>4, <2>5
<1> QED BY <1>1, <1>2, <1>3, <1>4

\* Passes that end and notes that stay keep every part.
LEMMA QuietKept ==
    ASSUME Inv, Typed', Solo', Quiet
    PROVE  Inv'
<1>1. /\ seal' = seal /\ made' = made /\ passes' = passes
      /\ \A n \in Notes : Unwritten(n) /\ (Unmoved(n) \/ Ended(n))
      /\ NoSnap.list = {} /\ NoSnap.shows = {}
    BY DEF Quiet, FilesStay, NoSnap
<1>2. \A n \in Notes : EntriesOf(n)' \subseteq EntriesOf(n) BY QuietEntries
<1> USE DEF Unwritten, Unmoved, Ended
<1>3. Steps' BY <1>1 DEF Inv, Steps, Running
<1>4. Numbers' BY <1>1, <1>2 DEF Inv, Numbers, Running, Planned
<1>5. Fresh' BY <1>1, <1>2 DEF Inv, Fresh, Planned
<1>6. Journaled' BY <1>1 DEF Inv, Journaled
<1>7. PlanRight' /\ Covers' BY <1>1 DEF Inv, PlanRight, Covers, Running, Planned
<1>8. LockedHasKeys' BY <1>1 DEF Inv, LockedHasKeys, HasKey
<1>9. TodoApart' BY <1>1 DEF Inv, TodoApart, Planned
<1>10. Apart'
  <2> SUFFICES ASSUME NEW n \in Notes, at'[n] \in {"removing", "undoing"}, NEW m \in Notes \ {n}
               PROVE  FilesOf(plan'[m] \cup todo'[m]) \cap FilesOf(list'[n] \cup todo'[n]) = {}
      BY DEF Apart, FilesOf
  <2>1. at'[n] = at[n] /\ list'[n] = list[n] /\ todo'[n] = todo[n] BY <1>1
  <2>2. plan'[m] \subseteq plan[m] /\ todo'[m] \subseteq todo[m] BY <1>1
  <2>3. FilesOf(plan[m] \cup todo[m]) \cap FilesOf(list[n] \cup todo[n]) = {} BY <2>1 DEF Inv, Apart
  <2>4. FilesOf(plan'[m] \cup todo'[m]) \subseteq FilesOf(plan[m] \cup todo[m]) BY <2>2 DEF FilesOf
  <2> QED BY <2>1, <2>3, <2>4
<1>11. Removing'
  <2> SUFFICES ASSUME NEW n \in Notes, at'[n] = "removing"
               PROVE  /\ plan'[n] \cup todo'[n] \subseteq list'[n]
                      /\ shows'[n] \subseteq FilesOf(plan'[n] \cup todo'[n])
                      /\ \A m \in Notes \ {n} : locked'[m] => FilesOf(plan'[n]) \cap FilesOf(list'[m]) = {}
      BY DEF Removing, FilesOf
  <2>1. at[n] = "removing" /\ plan'[n] = plan[n] /\ todo'[n] = todo[n] BY <1>1
  <2>2. \A m \in Notes : list'[m] = list[m] /\ locked'[m] = locked[m] /\ shows'[m] = shows[m] BY <1>1
  <2>3. \A m \in Notes \ {n} : FilesOf(list'[m]) = FilesOf(list[m]) BY <2>2 DEF FilesOf
  <2> QED BY <2>1, <2>2, <2>3 DEF Inv, Removing
<1>12. ASSUME NEW n \in Notes, NEW c, Private(n, c) PROVE Private(n, c)'
  <2>1. \A m \in Notes : FilesOf(EntriesOf(m)') \subseteq FilesOf(EntriesOf(m)) BY <1>2 DEF FilesOf
  <2> QED BY <1>12, <2>1, <1>1 DEF Private, FilesOf
<1>13. CopiesOwn'
  <2>1. \A n \in Notes : /\ list'[n] \cup plan'[n] \cup snap'[n].list \subseteq list[n] \cup plan[n] \cup snap[n].list
                         /\ todo'[n] \subseteq todo[n] /\ (at'[n] \in Planned => at[n] \in Planned)
      BY <1>1 DEF Planned
  <2> QED BY <1>1, <1>12, <2>1 DEF Inv, CopiesOwn
<1>14. Undoing' BY <1>1, <1>12 DEF Inv, Undoing
<1> QED BY <1>3, <1>4, <1>5, <1>6, <1>7, <1>8, <1>9, <1>10, <1>11, <1>13, <1>14 DEF Inv

LEMMA InvStep == Book = {} /\ Inv /\ [Next]_vars /\ [Schedule]_vars => Inv'
<1> SUFFICES ASSUME Book = {}, Inv, [Next]_vars, [Schedule]_vars PROVE Inv' OBVIOUS
<1>1. Typed' /\ Solo' BY TypedStep, SoloStep DEF Inv
<1>2. Quiet \/ \E n \in Notes : MoveOf(n) BY Moves DEF Inv, Numbers
<1>3. CASE Quiet BY <1>1, <1>3, QuietKept
<1>4. ASSUME NEW n \in Notes, MoveOf(n) PROVE Inv'
  <2>1. Aside BY SchedulesAside
  <2>2. Steps' /\ Numbers' /\ Fresh' /\ Journaled' /\ PlanRight' /\ Covers'
      BY <1>1, <1>4, StepsKept, NumbersKept, FreshKept, JournaledKept, PlanRightKept, CoversKept
  <2>3. LockedHasKeys' /\ TodoApart' /\ Apart' /\ Removing' /\ Undoing' /\ CopiesOwn'
      BY <1>1, <1>4, <2>1, LockedHasKeysKept, TodoApartKept, ApartKept, RemovingKept,
         UndoingKept, CopiesOwnKept
  <2> QED BY <1>1, <2>2, <2>3 DEF Inv
<1> QED BY <1>2, <1>3, <1>4

-----------------------------------------------------------------------------
(* What follows for notes that are locked on their own *)

LEMMA InvAlways ==
    ASSUME Book = {}
    PROVE  Spec /\ [][Schedule]_vars => []Inv
BY InvInit, InvStep, PTL DEF Spec

\* A locked note opens every file it shows with its own list, whatever is
\* locked, saved, unlocked, undone, stopped, edited or brought by sync meanwhile
\* on a schedule of the passing run (lock_note, set_note_files).
THEOREM LockedOpens ==
    ASSUME Book = {}
    PROVE  Spec /\ [][Schedule]_vars => []LockedHasKeys
<1>1. Inv => LockedHasKeys BY DEF Inv
<1> QED BY <1>1, InvAlways, PTL

\* A plain note goes on reading what it shows and reads, and reads all that it
\* shows when its lock has come off, on a schedule of the passing run
\* (shared_with_unlocked, undo_locking, unseal_or_copy).
THEOREM PlainStays ==
    ASSUME Book = {}
    PROVE  Spec /\ [][Schedule]_vars => PlainStaysReadable
<1> DEFINE Stays == \A n \in Notes : ~locked'[n] =>
          IF locked[n] THEN \A f \in shows'[n] : f \in made' /\ seal'[f] = 0
          ELSE \A f \in shows[n] \cap shows'[n] :
                  Reads(n, f) => Reads(n, f)' \/ SealsFor(n, f) \/ TakesForCopy(n, f)
<1>1. Inv /\ [Next]_vars /\ [Schedule]_vars => [Stays]_vars
  <2> SUFFICES ASSUME Inv, [Next]_vars, [Schedule]_vars, NEW m \in Notes, ~locked'[m]
               PROVE  IF locked[m] THEN \A f \in shows'[m] : f \in made' /\ seal'[f] = 0
                      ELSE \A f \in shows[m] \cap shows'[m] :
                              Reads(m, f) => Reads(m, f)' \/ SealsFor(m, f) \/ TakesForCopy(m, f)
      OBVIOUS
  <2>1. Typed' BY TypedStep DEF Inv
  <2>2. CASE Quiet BY <2>2 DEF Quiet, FilesStay, Unwritten, Reads, HasKey
  <2>3. ASSUME NEW n \in Notes, MoveOf(n), ~locked[m], NEW f \in shows[m] \cap shows'[m], Reads(m, f)
        PROVE  Reads(m, f)' \/ TakesForCopy(m, f)
      BY <2>1, <2>3, ReadsOn
  <2>4. ASSUME NEW n \in Notes, MoveOf(n), locked[m], NEW f \in shows'[m]
        PROVE  f \in made' /\ seal'[f] = 0
    <3>1. m = n /\ Removes(n)
      <4>1. CASE m # n BY <2>4, <4>1, OthersStay DEF Others, Unwritten
      <4>2. CASE m = n
          BY <2>4, <4>2 DEF MoveOf, Begins, Plans, Journals, Locks, Prepares, BeginsUndo, EndsUndo, Edits,
             Replaces, Seals, Checks, Reverts, Undoes, Unwritten
      <4> QED BY <4>1, <4>2
    <3> QED BY <2>1, <2>4, <3>1, RemovedReads
  <2> QED BY <2>2, <2>3, <2>4, Moves DEF Inv, Numbers
<1> QED BY <1>1, InvAlways, PTL DEF Spec, PlainStaysReadable

\* A locked note's files stay sealed under the keys it lists, whoever else's
\* lock comes off, fails or is undone.
THEOREM ListedSealed ==
    ASSUME Book = {}
    PROVE  Spec /\ [][Schedule]_vars => ListedStaysSealed
<1> DEFINE Stays == \A n \in Notes : locked[n] /\ locked'[n] =>
          \A e \in list[n] \cap list'[n] : e.seal = seal[e.file] => seal'[e.file] = e.seal
<1>1. Inv /\ [Next]_vars /\ [Schedule]_vars => [Stays]_vars
  <2> SUFFICES ASSUME Inv, [Next]_vars, [Schedule]_vars,
                      NEW m \in Notes, locked[m], locked'[m], NEW e \in list[m], e.seal = seal[e.file]
               PROVE  seal'[e.file] = e.seal
      OBVIOUS
  <2>1. CASE Quiet BY <2>1 DEF Quiet, FilesStay
  <2>2. ASSUME NEW n \in Notes, MoveOf(n) PROVE seal'[e.file] = e.seal
    <3>1. m = n => ~Removes(n) BY DEF Removes
    <3>2. e.seal # 0 BY DEF Inv, Numbers
    <3> QED BY <2>2, <3>1, <3>2, KeysStay
  <2> QED BY <2>1, <2>2, Moves DEF Inv, Numbers
<1> QED BY <1>1, InvAlways, PTL DEF Spec, ListedStaysSealed
=============================================================================
