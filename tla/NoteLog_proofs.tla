---------------------------- MODULE NoteLog_proofs ----------------------------
(***************************************************************************)
(* Type correctness, MergedIsInText and NothingStoredIsLost, for any       *)
(* members, any roles and any bounds.                                      *)
(***************************************************************************)
EXTENDS NoteLogProperties, FiniteSetTheorems, WellFoundedInduction, SequenceTheorems, TLAPS

-----------------------------------------------------------------------------
(* Arithmetic *)

LEMMA LeastElement ==
    ASSUME NEW S \in SUBSET Nat, S # {}
    PROVE  \E k \in S : \A j \in S : k <= j
  <1>1. IsWellFoundedOn({ss \in Nat \X Nat : ss[1] < ss[2]}, Nat)
    BY NatLessThanWellFounded DEF OpToRel
  <1>2. PICK k \in S : \A j \in S : <<j, k>> \notin {ss \in Nat \X Nat : ss[1] < ss[2]}
    BY <1>1, WFMin
  <1>3. \A j \in S : ~(j < k)
    BY <1>2
  <1> QED BY <1>3

\* The run without a gap is found: inbox is bounded.
LEMMA LastOfRun ==
    ASSUME NEW from \in Nat, NEW inbox \in SUBSET Nat, NEW head \in Nat,
           \A seq \in inbox : seq <= head
    PROVE  /\ LastOf(from, inbox) \in inbox \cup {from}
           /\ LastOf(from, inbox) >= from
           /\ LastOf(from, inbox) + 1 \notin inbox
           /\ \A seq \in (from + 1)..LastOf(from, inbox) : seq \in inbox
  <1> DEFINE Ends == {k \in Nat : k >= from /\ k + 1 \notin inbox}
  <1>1. from + head \in Ends
    OBVIOUS
  <1>2. PICK k \in Ends : \A j \in Ends : k <= j
    BY <1>1, LeastElement
  <1>3. \A seq \in (from + 1)..k : seq \in inbox
    <2> SUFFICES ASSUME NEW seq \in (from + 1)..k, seq \notin inbox PROVE FALSE
      OBVIOUS
    <2>1. seq - 1 \in Ends
      OBVIOUS
    <2> QED BY <1>2, <2>1
  <1>4. k \in inbox \cup {from}
    BY <1>3
  <1> QED BY <1>2, <1>3, <1>4 DEF LastOf

LEMMA FiniteImage ==
    ASSUME NEW S, IsFiniteSet(S), NEW f, DOMAIN f = S, f = [x \in S |-> f[x]]
    PROVE  IsFiniteSet({f[x] : x \in S})
  <1> DEFINE T == {f[x] : x \in S}
  <1>1. f \in Surjection(S, T)
    BY DEF Surjection
  <1> QED BY <1>1, FS_Surjection

-----------------------------------------------------------------------------
(* The inductive invariant *)

\* `doc`, said to hold the log up to `base` for who knows the epoch `known`,
\* does, and nothing there was written under a later epoch.
Covers(base, known, doc) ==
    \A seq \in UpTo(base) :
        /\ entries[seq].epoch <= known
        /\ IsUpdate(seq) /\ Counts(known, seq) => entries[seq].id \in doc

SnapshotOK(s) ==
    /\ s \in Snapshot
    /\ s.epoch \in 1..epoch /\ s.base <= HeadSeq
    /\ Covers(s.base, s.epoch, s.doc)

DeviceOK(n) ==
    /\ n \in Note
    /\ n.epoch <= epoch /\ n.applied <= HeadSeq
    /\ n.inbox \subseteq UpTo(HeadSeq)
    /\ IsFiniteSet(n.flight)
    /\ Covers(n.applied, n.epoch, n.doc)
    /\ n.pending # NoSnapshot => SnapshotOK(n.pending)

SocketOK(s) == s \in Socket /\ s.in \in Seq(0..HeadSeq)

PostOK(p) ==
    /\ p \in Post /\ p.e.epoch \in 1..epoch
    /\ p.at = "stored" => p.seq \in UpTo(HeadSeq)

LogInv ==
    /\ ServerTypeOK
    /\ \A seq \in UpTo(HeadSeq) : entries[seq].epoch \in 1..epoch
    /\ SnapshotOK(snapshot)
    /\ \A seq \in UpTo(HeadSeq) : seq \in kept \/ (IsUpdate(seq) /\ seq <= snapshot.base)

PostsInv == IsFiniteSet(posts) /\ \A p \in posts : PostOK(p)
NotesInv == note \in [Members -> Note] /\ \A m \in Members : DeviceOK(note[m])
SocketsInv == sock \in [Members -> Socket] /\ \A m \in Members : SocketOK(sock[m])
RestInv == sync \in [Members -> Sync] /\ rot \in Rotation /\ {written, snaps, faults} \subseteq Nat

IInv == LogInv /\ PostsInv /\ NotesInv /\ SocketsInv /\ RestInv

LEMMA IInvImplies == IInv => TypeOK /\ MergedIsInText /\ NothingStoredIsLost
  <1> SUFFICES ASSUME IInv PROVE TypeOK /\ MergedIsInText /\ NothingStoredIsLost
    OBVIOUS
  <1> USE DEF IInv, LogInv
  <1>1. TypeOK
    BY DEF TypeOK, PostsInv, PostOK, NotesInv, SocketsInv, RestInv
  <1>2. MergedIsInText
    BY DEF MergedIsInText, NotesInv, DeviceOK, Covers
  <1>3. NothingStoredIsLost
    <2> SUFFICES ASSUME NEW seq \in UpTo(HeadSeq), Counts(epoch, seq), seq \notin kept
                 PROVE  IsUpdate(seq) /\ seq <= snapshot.base /\ entries[seq].id \in snapshot.doc
      BY DEF NothingStoredIsLost
    <2>1. IsUpdate(seq) /\ seq <= snapshot.base
      OBVIOUS
    <2>2. seq \in UpTo(snapshot.base)
      BY <2>1 DEF UpTo, HeadSeq, ServerTypeOK, SnapshotOK, Snapshot
    <2>3. entries[seq].epoch <= snapshot.epoch
      BY <2>2 DEF SnapshotOK, Covers
    <2>4. Counts(snapshot.epoch, seq)
      <3>1. snapshot.epoch \in Nat /\ epoch \in Nat /\ snapshot.epoch <= epoch
        BY DEF SnapshotOK, Snapshot, ServerTypeOK
      <3>2. entries[seq].epoch \in Nat
        BY DEF UpTo, HeadSeq, ServerTypeOK, Entry
      <3> QED BY <2>3, <3>1, <3>2 DEF Counts, PastItsEpoch
    <2> QED BY <2>1, <2>2, <2>4 DEF SnapshotOK, Covers
  <1> QED BY <1>1, <1>2, <1>3
-----------------------------------------------------------------------------
(* Growth of the log and of what is known *)

\* Who learns of a later epoch takes no more of the older entries.
LEMMA CoversLater ==
    ASSUME LogInv, NEW base \in 0..HeadSeq, NEW known \in Nat, NEW later \in Nat, known <= later,
           NEW doc, NEW more, doc \subseteq more, Covers(base, known, doc)
    PROVE  Covers(base, later, more)
  <1> SUFFICES ASSUME NEW seq \in UpTo(base)
               PROVE  /\ entries[seq].epoch <= later
                      /\ IsUpdate(seq) /\ Counts(later, seq) => entries[seq].id \in more
    BY DEF Covers
  <1>1. entries[seq].epoch \in Nat /\ entries[seq].epoch <= known
    BY DEF Covers, LogInv, UpTo, HeadSeq, ServerTypeOK, Entry
  <1>2. Counts(later, seq) => Counts(known, seq)
    BY <1>1 DEF Counts, PastItsEpoch
  <1> QED BY <1>1, <1>2 DEF Covers

\* Entries and lists are only appended.
LogGrows ==
    /\ entries' \in Seq(Entry) /\ HeadSeq <= HeadSeq'
    /\ \A seq \in UpTo(HeadSeq) : entries'[seq] = entries[seq]
    /\ epoch' \in Nat /\ epoch <= epoch'
    /\ \A e \in 1..epoch : lists'[e] = lists[e]

LEMMA CoversStays ==
    ASSUME LogInv, LogGrows, NEW base \in 0..HeadSeq, NEW known \in 0..epoch, NEW doc,
           Covers(base, known, doc)
    PROVE  Covers(base, known, doc)'
  <1> SUFFICES ASSUME NEW seq \in UpTo(base)
               PROVE  /\ entries'[seq].epoch <= known
                      /\ IsUpdate(seq)' /\ Counts(known, seq)' => entries'[seq].id \in doc
    BY DEF Covers
  <1>1. entries'[seq] = entries[seq] /\ seq \in UpTo(HeadSeq)
    BY DEF LogGrows, UpTo, LogInv, ServerTypeOK, HeadSeq
  <1>2. entries[seq] \in Entry /\ entries[seq].epoch \in 1..epoch /\ entries[seq].epoch <= known
    BY <1>1 DEF LogInv, ServerTypeOK, UpTo, HeadSeq, Covers
  <1>3. lists'[entries[seq].epoch] = lists[entries[seq].epoch]
    BY <1>2 DEF LogGrows
  <1>4. entries[seq].epoch < known =>
            lists'[entries[seq].epoch + 1] = lists[entries[seq].epoch + 1]
    BY <1>2 DEF LogGrows, LogInv, ServerTypeOK
  <1>5. Counts(known, seq)' => Counts(known, seq)
    BY <1>1, <1>2, <1>3, <1>4 DEF Counts, PastItsEpoch, Entry
  <1> QED BY <1>1, <1>2, <1>5 DEF Covers, IsUpdate

LEMMA SnapshotStays ==
    ASSUME LogInv, LogGrows, NEW s, SnapshotOK(s)
    PROVE  SnapshotOK(s)'
  <1>1. s.base \in 0..HeadSeq /\ s.epoch \in 1..epoch
    BY DEF SnapshotOK, Snapshot, LogInv, ServerTypeOK, HeadSeq
  <1>2. Covers(s.base, s.epoch, s.doc)'
    BY <1>1, CoversStays DEF SnapshotOK, LogInv, ServerTypeOK
  <1> QED BY <1>1, <1>2 DEF SnapshotOK, LogGrows, LogInv, ServerTypeOK, HeadSeq

LEMMA DeviceStays ==
    ASSUME LogInv, LogGrows, NEW n, DeviceOK(n)
    PROVE  DeviceOK(n)'
  <1>1. n.applied \in 0..HeadSeq /\ n.epoch \in 0..epoch
    BY DEF DeviceOK, Note, LogInv, ServerTypeOK, HeadSeq
  <1>2. Covers(n.applied, n.epoch, n.doc)'
    BY <1>1, CoversStays DEF DeviceOK
  <1>3. n.pending # NoSnapshot => SnapshotOK(n.pending)'
    BY SnapshotStays DEF DeviceOK
  <1>4. HeadSeq \in Nat /\ HeadSeq' \in Nat
    BY DEF LogGrows, LogInv, ServerTypeOK, HeadSeq
  <1>5. n.inbox \subseteq UpTo(HeadSeq)'
    BY <1>4 DEF DeviceOK, UpTo, LogGrows
  <1> QED BY <1>1, <1>2, <1>3, <1>4, <1>5 DEF DeviceOK, LogGrows, LogInv, ServerTypeOK

LEMMA PostStays ==
    ASSUME LogInv, LogGrows, NEW p, PostOK(p)
    PROVE  PostOK(p)'
  <1>1. HeadSeq \in Nat /\ HeadSeq' \in Nat
    BY DEF LogGrows, LogInv, ServerTypeOK, HeadSeq
  <1> QED BY <1>1 DEF PostOK, LogGrows, LogInv, ServerTypeOK, UpTo, Post, Entry

LEMMA SocketStays ==
    ASSUME LogInv, LogGrows, NEW s, SocketOK(s)
    PROVE  SocketOK(s)'
  <1>1. HeadSeq \in Nat /\ HeadSeq' \in Nat /\ HeadSeq <= HeadSeq'
    BY DEF LogGrows, LogInv, ServerTypeOK, HeadSeq
  <1>2. s.in \in Seq((0..HeadSeq)')
    <2>1. 0..HeadSeq \subseteq (0..HeadSeq)'
      BY <1>1
    <2> QED BY <2>1, SeqMonotonic DEF SocketOK
  <1> QED BY <1>2 DEF SocketOK
-----------------------------------------------------------------------------
(* Merging *)

LEMMA MergedType ==
    ASSUME LogInv, NEW n, DeviceOK(n), NEW kind
    PROVE  IdsOf(Merged(n), kind) \subseteq Ids
  <1>1. \A seq \in Merged(n) : seq \in UpTo(HeadSeq)
    BY DEF Merged, DeviceOK
  <1>2. \A seq \in UpTo(HeadSeq) : entries[seq] \in Entry
    BY DEF LogInv, ServerTypeOK, UpTo, HeadSeq
  <1>3. \A seq \in UpTo(HeadSeq) : entries[seq].id \in Ids
    BY <1>2 DEF Entry
  <1> QED BY <1>1, <1>3 DEF IdsOf

\* What a merge starts from: the snapshot it takes, or what was merged.
LEMMA StartCovers ==
    ASSUME LogInv, NEW n, DeviceOK(n), ~WaitsForKey(n)
    PROVE  /\ Start(n) \in n.applied..HeadSeq
           /\ Covers(Start(n), n.epoch,
                     n.doc \cup (IF TakesPending(n) THEN n.pending.doc ELSE {}))
  <1> DEFINE doc == n.doc \cup (IF TakesPending(n) THEN n.pending.doc ELSE {})
  <1>1. n.applied \in Nat /\ n.applied <= HeadSeq /\ HeadSeq \in Nat /\ n.epoch \in Nat
    BY DEF DeviceOK, Note, LogInv, ServerTypeOK, HeadSeq
  <1>2. CASE TakesPending(n)
    <2>1. n.pending # NoSnapshot /\ ~IsOld(n) /\ SnapshotOK(n.pending)
      BY <1>2 DEF TakesPending, DeviceOK
    <2>2. n.pending.base \in Nat /\ n.pending.base <= HeadSeq /\ n.pending.epoch \in Nat
      BY <2>1 DEF SnapshotOK, Snapshot
    <2>3. n.applied <= n.pending.base
      BY <2>1, <2>2, <1>1 DEF IsOld
    <2>4. n.pending.epoch <= n.epoch
      BY <2>1, <2>2, <1>1 DEF WaitsForKey
    <2>5. n.pending.base \in 0..HeadSeq /\ n.pending.doc \subseteq doc
      BY <2>2, <1>1, <1>2
    <2>6. Covers(n.pending.base, n.epoch, doc)
      BY <2>1, <2>2, <2>4, <2>5, <1>1, CoversLater DEF SnapshotOK
    <2> QED BY <2>2, <2>3, <2>6, <1>1, <1>2 DEF Start
  <1>3. CASE ~TakesPending(n)
    BY <1>1, <1>3 DEF Start, DeviceOK
  <1> QED BY <1>2, <1>3

\* What follows without a gap is merged, so the text holds the log up to the
\* last of it.
LEMMA LastCovers ==
    ASSUME LogInv, NEW n, DeviceOK(n), ~WaitsForKey(n)
    PROVE  /\ Last(n) \in 0..HeadSeq /\ Last(n) >= Start(n)
           /\ Covers(Last(n), n.epoch,
                     n.doc \cup (IF TakesPending(n) THEN n.pending.doc ELSE {})
                           \cup IdsOf(Merged(n), "u"))
  <1> DEFINE doc == n.doc \cup (IF TakesPending(n) THEN n.pending.doc ELSE {})
             opens == {seq \in n.inbox : entries[seq].epoch <= n.epoch}
  <1>0. n.applied \in Nat /\ HeadSeq \in Nat
    BY DEF DeviceOK, Note, LogInv, ServerTypeOK, HeadSeq
  <1>1. Start(n) \in Nat /\ Start(n) <= HeadSeq /\ HeadSeq \in Nat /\ Covers(Start(n), n.epoch, doc)
    BY <1>0, StartCovers
  <1>2. opens \in SUBSET Nat /\ \A seq \in opens : seq <= HeadSeq
    BY <1>1 DEF DeviceOK, Note, UpTo
  <1>3. /\ Last(n) \in opens \cup {Start(n)} /\ Last(n) >= Start(n)
        /\ \A seq \in (Start(n) + 1)..Last(n) : seq \in opens
    BY <1>1, <1>2, LastOfRun DEF Last
  <1>4. Last(n) \in 0..HeadSeq
    BY <1>1, <1>2, <1>3
  <1>5. ASSUME NEW seq \in UpTo(Last(n))
        PROVE  /\ entries[seq].epoch <= n.epoch
               /\ IsUpdate(seq) /\ Counts(n.epoch, seq) =>
                    entries[seq].id \in doc \cup IdsOf(Merged(n), "u")
    <2>1. CASE seq <= Start(n)
      BY <2>1, <1>1, <1>4 DEF Covers, UpTo
    <2>2. CASE seq > Start(n)
      <3>1. seq \in opens
        BY <2>2, <1>1, <1>3, <1>4 DEF UpTo
      <3>2. Counts(n.epoch, seq) => seq \in Merged(n)
        BY <3>1, <2>2 DEF Merged, UpTo
      <3> QED BY <3>1, <3>2 DEF IdsOf, IsUpdate
    <2> QED BY <2>1, <2>2, <1>1, <1>4 DEF UpTo
  <1> QED BY <1>3, <1>4, <1>5 DEF Covers

LEMMA MergeOK ==
    ASSUME LogInv, NEW m, NEW n, DeviceOK(n)
    PROVE  DeviceOK(Merge(m, n)) /\ Merge(m, n).epoch = n.epoch
  <1>1. CASE WaitsForKey(n)
    BY <1>1 DEF Merge
  <1>2. CASE ~WaitsForKey(n)
    <2> DEFINE doc == n.doc \cup (IF TakesPending(n) THEN n.pending.doc ELSE {})
                            \cup IdsOf(Merged(n), "u")
               comments == n.comments \cup IdsOf(Merged(n), "c")
               echoed == EchoOf(m, n, Merged(n))
               inbox == {seq \in n.inbox : seq > Last(n)}
               outbox == {o \in n.outbox : \A f \in echoed : o.id # f.id}
               merged == [n EXCEPT !.pending = NoSnapshot, !.applied = Last(n), !.inbox = inbox,
                                   !.doc = doc, !.comments = comments,
                                   !.flight = @ \ echoed, !.outbox = outbox]
    <2>1. Merge(m, n) = merged
      BY <1>2, Zenon DEF Merge
    <2>2. n \in Note
      BY DEF DeviceOK
    <2>3. doc \subseteq Ids /\ comments \subseteq Ids
      <3>1. TakesPending(n) => n.pending.doc \subseteq Ids
        BY DEF TakesPending, DeviceOK, SnapshotOK, Snapshot
      <3> QED BY <3>1, <2>2, MergedType DEF Note
    <2>4. Last(n) \in 0..HeadSeq /\ Covers(Last(n), n.epoch, doc)
      BY <1>2, LastCovers
    <2>5. HeadSeq \in Nat
      BY DEF LogInv, ServerTypeOK, HeadSeq
    <2>6. /\ inbox \subseteq n.inbox /\ outbox \subseteq n.outbox
          /\ n.flight \ echoed \subseteq n.flight
      OBVIOUS
    <2> HIDE DEF doc, comments, inbox, outbox, echoed
    <2>7. merged \in Note
      <3>1. /\ Last(n) \in Nat /\ doc \in SUBSET Ids /\ comments \in SUBSET Ids
            /\ inbox \in SUBSET Nat /\ outbox \in SUBSET Waiting
            /\ n.flight \ echoed \in SUBSET Sent
        BY <2>2, <2>3, <2>4, <2>5, <2>6 DEF Note
      <3> QED BY <3>1, <2>2, Zenon DEF Note
    <2>8. IsFiniteSet(n.flight \ echoed)
      BY FS_Difference DEF DeviceOK
    <2>9. /\ merged.epoch = n.epoch /\ merged.applied = Last(n) /\ merged.doc = doc
          /\ merged.inbox = inbox /\ merged.flight = n.flight \ echoed
          /\ merged.pending = NoSnapshot
      BY <2>2 DEF Note
    <2> HIDE DEF merged
    <2>10. DeviceOK(merged)
      BY <2>4, <2>5, <2>6, <2>7, <2>8, <2>9 DEF DeviceOK
    <2> QED BY <2>1, <2>9, <2>10
  <1> QED BY <1>1, <1>2
-----------------------------------------------------------------------------
(* What a step leaves of the invariant *)

LEMMA RoleType ==
    ASSUME LogInv, NEW e \in 1..epoch, NEW m \in Members
    PROVE  lists[e] \in List /\ lists[e].roles[m] \in Roles
  <1>1. lists[e] \in List
    BY DEF LogInv, ServerTypeOK
  <1> QED BY <1>1 DEF List

LEMMA FreshNoteOK ==
    ASSUME LogInv, NEW n \in Note, n.epoch <= epoch, n.applied = 0, n.inbox = {},
           n.pending = NoSnapshot, n.flight = {}
    PROVE  DeviceOK(n)
  <1>1. Covers(0, n.epoch, n.doc)
    BY DEF Covers, UpTo
  <1>2. HeadSeq \in Nat
    BY DEF LogInv, ServerTypeOK, HeadSeq
  <1> QED BY <1>1, <1>2, FS_EmptySet DEF DeviceOK

\* A device that merges nothing keeps its part of the log.
LEMMA DeviceChange ==
    ASSUME LogInv, NEW n, DeviceOK(n), NEW o \in Note,
           n.epoch <= o.epoch, o.epoch <= epoch,
           o.applied = n.applied, n.doc \subseteq o.doc,
           o.inbox \subseteq UpTo(HeadSeq), IsFiniteSet(o.flight),
           o.pending \in {n.pending, NoSnapshot} \/ SnapshotOK(o.pending)
    PROVE  DeviceOK(o)
  <1>1. n.applied \in 0..HeadSeq /\ n.epoch \in Nat /\ o.epoch \in Nat
    BY DEF DeviceOK, Note, LogInv, ServerTypeOK, HeadSeq
  <1>2. Covers(o.applied, o.epoch, o.doc)
    BY <1>1, CoversLater DEF DeviceOK
  <1> QED BY <1>2 DEF DeviceOK

LEMMA LogUnchanged ==
    ASSUME LogInv, UNCHANGED <<epoch, lists, entries, kept, snapshot, since>>, roomEpoch' \in Nat
    PROVE  LogInv' /\ LogGrows
  <1>1. LogGrows
    BY DEF LogGrows, LogInv, ServerTypeOK, HeadSeq
  <1>2. SnapshotOK(snapshot)'
    BY <1>1, SnapshotStays DEF LogInv
  <1> QED BY <1>1, <1>2 DEF LogInv, ServerTypeOK, UpTo, HeadSeq, IsUpdate

LEMMA NotesStay ==
    ASSUME LogInv, LogGrows, NotesInv, UNCHANGED note
    PROVE  NotesInv'
    BY DeviceStays DEF NotesInv

LEMMA NotesChange ==
    ASSUME LogInv, LogGrows, NotesInv, NEW m \in Members, NEW n, DeviceOK(n),
           note' = [note EXCEPT ![m] = n]
    PROVE  NotesInv'
  <1>1. n \in Note /\ note \in [Members -> Note]
    BY DEF DeviceOK, NotesInv
  <1>2. note' \in [Members -> Note]
    BY <1>1
  <1>3. ASSUME NEW k \in Members PROVE DeviceOK(note[k])' 
    <2>1. DeviceOK(note'[k])
      BY <1>1 DEF NotesInv
    <2> QED BY <2>1, DeviceStays
  <1> QED BY <1>2, <1>3 DEF NotesInv

LEMMA PostsChange ==
    ASSUME LogInv, LogGrows, PostsInv, NEW p, posts' \subseteq posts \cup {p},
           p \in posts' \ posts => PostOK(p)'
    PROVE  PostsInv'
  <1>1. IsFiniteSet(posts')
    BY FS_AddElement, FS_Subset DEF PostsInv
  <1>2. ASSUME NEW q \in posts' PROVE PostOK(q)'
    BY PostStays DEF PostsInv
  <1> QED BY <1>1, <1>2 DEF PostsInv

LEMMA PostsShrink ==
    ASSUME LogInv, LogGrows, PostsInv, posts' \subseteq posts
    PROVE  PostsInv'
    BY PostStays, FS_Subset DEF PostsInv

LEMMA SocketsStay ==
    ASSUME LogInv, LogGrows, SocketsInv, UNCHANGED sock
    PROVE  SocketsInv'
    BY SocketStays DEF SocketsInv

LEMMA SocketsChange ==
    ASSUME LogInv, LogGrows, SocketsInv, NEW m \in Members, NEW s, SocketOK(s),
           sock' = [sock EXCEPT ![m] = s]
    PROVE  SocketsInv'
  <1>1. s \in Socket /\ sock \in [Members -> Socket]
    BY DEF SocketOK, SocketsInv
  <1>2. sock' \in [Members -> Socket]
    BY <1>1
  <1>3. ASSUME NEW k \in Members PROVE SocketOK(sock[k])'
    <2>1. SocketOK(sock'[k])
      BY <1>1 DEF SocketsInv
    <2> QED BY <2>1, SocketStays
  <1> QED BY <1>2, <1>3 DEF SocketsInv

LEMMA NoSocketOK == SocketOK(NoSocket)
  <1>1. <<>> \in Seq(Nat) /\ <<>> \in Seq(0..HeadSeq)
    BY EmptySeq
  <1> QED BY <1>1 DEF SocketOK, NoSocket, Socket, Roles

\* A step that only changes a device's sync and the bounds.
Still == UNCHANGED <<epoch, lists, entries, kept, snapshot, since>> /\ roomEpoch' \in Nat

LEMMA StillInv ==
    ASSUME IInv, Still
    PROVE  /\ LogInv' /\ LogGrows
           /\ UNCHANGED note => NotesInv'
           /\ posts' \subseteq posts => PostsInv'
           /\ UNCHANGED sock => SocketsInv'
  <1>1. LogInv' /\ LogGrows
    BY LogUnchanged DEF IInv, Still
  <1> QED BY <1>1, NotesStay, PostsShrink, SocketsStay DEF IInv
-----------------------------------------------------------------------------
(* Writing and sending *)

LEMMA WriteStep ==
    ASSUME IInv, NEW m \in Members, NEW kind \in {"u", "c"}, Write(m, kind)
    PROVE  IInv'
  <1> DEFINE n == note[m]
             o == [n EXCEPT !.doc = IF kind = "u" THEN @ \cup {written + 1} ELSE @,
                            !.outbox = @ \cup {[id |-> written + 1, kind |-> kind]}]
  <1>1. Still
    BY DEF Write, Still, serverVars, IInv, LogInv, ServerTypeOK
  <1>2. LogInv' /\ LogGrows /\ PostsInv' /\ SocketsInv'
    BY <1>1, StillInv DEF Write
  <1>3. n \in Note /\ DeviceOK(n) /\ note \in [Members -> Note]
    BY DEF IInv, NotesInv, DeviceOK
  <1>4. written + 1 \in Ids /\ written + 1 \in Nat
    BY RoomAssumption DEF Write, Ids, IInv, RestInv
  <1>5. note' = [note EXCEPT ![m] = o]
    BY <1>3 DEF Write, Note
  <1>6. o \in Note
    <2>1. [id |-> written + 1, kind |-> kind] \in Waiting
      BY <1>4 DEF Waiting
    <2>2. /\ n.doc \cup {written + 1} \in SUBSET Ids
          /\ n.outbox \cup {[id |-> written + 1, kind |-> kind]} \in SUBSET Waiting
      BY <2>1, <1>3, <1>4 DEF Note
    <2> QED BY <2>2, <1>3 DEF Note
  <1>7. DeviceOK(o)
    <2>1. /\ o.epoch = n.epoch /\ o.applied = n.applied /\ n.doc \subseteq o.doc
          /\ o.inbox = n.inbox /\ o.flight = n.flight /\ o.pending = n.pending
      BY <1>3 DEF Note
    <2>2. n.epoch \in Nat
      BY <1>3 DEF Note
    <2> HIDE DEF o
    <2> QED BY <2>1, <2>2, <1>3, <1>6, DeviceChange DEF IInv, DeviceOK
  <1>8. NotesInv'
    BY <1>2, <1>5, <1>7, NotesChange DEF IInv
  <1>9. RestInv'
    BY <1>4 DEF Write, IInv, RestInv
  <1> QED BY <1>2, <1>8, <1>9 DEF IInv

LEMMA CounterType ==
    ASSUME IInv, NEW m \in Members
    PROVE  Counter(m) \in Nat /\ Counter(m) \notin Used(m)
  <1> DEFINE mine == {q \in posts : q.e.by = m}
             stored == {s \in UpTo(HeadSeq) : entries[s].by = m}
             flight == note[m].flight
             ofPost == [p \in mine |-> p.e.nr]
             ofEntry == [s \in stored |-> entries[s].nr]
             ofSent == [f \in flight |-> f.nr]
             top == Cardinality(Used(m)) + 1
  <1>1. IsFiniteSet(mine) /\ IsFiniteSet(stored) /\ IsFiniteSet(flight)
    <2>1. HeadSeq \in Nat
      BY DEF IInv, LogInv, ServerTypeOK, HeadSeq
    <2>2. IsFiniteSet(UpTo(HeadSeq))
      BY <2>1, FS_Interval DEF UpTo
    <2> QED BY <2>2, FS_Subset DEF IInv, PostsInv, NotesInv, DeviceOK
  <1> HIDE DEF mine, stored, flight
  <1>2. IsFiniteSet({ofPost[p] : p \in mine})
    BY <1>1, FiniteImage
  <1>3. IsFiniteSet({ofEntry[s] : s \in stored})
    BY <1>1, FiniteImage
  <1>4. IsFiniteSet({ofSent[f] : f \in flight})
    BY <1>1, FiniteImage
  <1>5. Used(m) = ({ofPost[p] : p \in mine} \cup {ofEntry[s] : s \in stored})
                    \cup {ofSent[f] : f \in flight}
    BY DEF Used, mine, stored, flight
  <1>6. IsFiniteSet(Used(m))
    <2> HIDE DEF ofPost, ofEntry, ofSent
    <2>1. IsFiniteSet({ofPost[p] : p \in mine} \cup {ofEntry[s] : s \in stored})
      BY <1>2, <1>3, FS_Union
    <2>2. IsFiniteSet(({ofPost[p] : p \in mine} \cup {ofEntry[s] : s \in stored})
                        \cup {ofSent[f] : f \in flight})
      BY <2>1, <1>4, FS_Union
    <2> QED BY <2>2, <1>5
  <1>7. \E nr \in 1..top : nr \notin Used(m)
    <2> SUFFICES ASSUME 1..top \subseteq Used(m) PROVE FALSE
      OBVIOUS
    <2>1. Cardinality(Used(m)) \in Nat
      BY <1>6, FS_CardinalityType
    <2>2. Cardinality(1..top) = top
      BY <2>1, FS_Interval
    <2>3. Cardinality(1..top) <= Cardinality(Used(m))
      BY <1>6, FS_Subset
    <2> QED BY <2>1, <2>2, <2>3
  <1>8. Counter(m) \in 1..top /\ Counter(m) \notin Used(m)
    BY <1>7 DEF Counter
  <1> QED BY <1>8

\* What a device seals, under an epoch the server knows.
LEMMA SealedType ==
    ASSUME IInv, NEW m \in Members, Active(m), NEW o \in note[m].outbox
    PROVE  /\ Sealed(m, o) \in Entry /\ Sealed(m, o).epoch \in 1..epoch
           /\ [nr |-> Sealed(m, o).nr, id |-> o.id] \in Sent
  <1>1. o \in Waiting /\ note[m].epoch \in Nat /\ note[m].epoch <= epoch /\ epoch \in Nat
    BY DEF IInv, NotesInv, DeviceOK, Note, LogInv, ServerTypeOK
  <1>2. Counter(m) \in Nat
    BY CounterType
  <1> QED BY <1>1, <1>2 DEF Sealed, Entry, Waiting, Sent, Active

LEMMA FlightOK ==
    ASSUME LogInv, NEW n, DeviceOK(n), NEW flight \in SUBSET Sent, IsFiniteSet(flight)
    PROVE  DeviceOK([n EXCEPT !.flight = flight])
  <1> DEFINE o == [n EXCEPT !.flight = flight]
  <1>1. n \in Note /\ o \in Note
    BY DEF DeviceOK, Note
  <1>2. /\ o.epoch = n.epoch /\ o.applied = n.applied /\ o.doc = n.doc
        /\ o.inbox = n.inbox /\ o.flight = flight /\ o.pending = n.pending
    BY <1>1 DEF Note
  <1>3. n.epoch \in Nat
    BY <1>1 DEF Note
  <1>4. DeviceOK(o)
    <2> HIDE DEF o
    <2> QED BY <1>1, <1>2, <1>3, DeviceChange DEF DeviceOK
  <1> QED BY <1>4

LEMMA OldestOf ==
    ASSUME NEW waiting \in SUBSET Waiting, waiting # {}
    PROVE  Oldest(waiting) \in waiting
  <1> DEFINE ids == {o.id : o \in waiting}
  <1>1. ids \in SUBSET Nat /\ ids # {}
    BY RoomAssumption DEF Waiting, Ids
  <1>2. PICK least \in ids : \A id \in ids : least <= id
    BY <1>1, LeastElement
  <1> QED BY <1>2 DEF Oldest

LEMMA SendFrameStep ==
    ASSUME IInv, NEW m \in Members, SendFrame(m)
    PROVE  IInv'
  <1> DEFINE allowed == {o \in Unsent(m) : MayWrite(MyRole(m), o.kind)}
             o == Oldest(allowed)
             e == Sealed(m, o)
             sent == [nr |-> e.nr, id |-> o.id]
             p == [e |-> e, http |-> FALSE, at |-> "frame", seq |-> 0]
  <1>0. /\ Active(m) /\ allowed # {}
        /\ note' = [note EXCEPT ![m].flight = @ \cup {sent}]
        /\ posts' = posts \cup {p}
        /\ UNCHANGED <<serverVars, sync, sock, rot, bounds>>
    BY Zenon DEF SendFrame
  <1>1. o \in note[m].outbox
    <2>1. allowed \subseteq note[m].outbox /\ allowed \subseteq Waiting
      BY DEF Unsent, IInv, NotesInv, Note
    <2> QED BY <2>1, <1>0, OldestOf
  <1>2. e \in Entry /\ e.epoch \in 1..epoch /\ sent \in Sent
    BY <1>0, <1>1, SealedType
  <1> HIDE DEF o, e, sent
  <1>3. Still
    BY <1>0 DEF Still, serverVars, IInv, LogInv, ServerTypeOK
  <1>4. LogInv' /\ LogGrows /\ SocketsInv'
    BY <1>0, <1>3, StillInv
  <1>5. NotesInv'
    <2>1. note[m] \in Note /\ DeviceOK(note[m]) /\ note \in [Members -> Note]
      BY DEF IInv, NotesInv, DeviceOK
    <2>2. note' = [note EXCEPT ![m] = [note[m] EXCEPT !.flight = note[m].flight \cup {sent}]]
      BY <1>0, <2>1
    <2>3. note[m].flight \cup {sent} \in SUBSET Sent /\ IsFiniteSet(note[m].flight \cup {sent})
      BY <1>2, <2>1, FS_AddElement DEF DeviceOK, Note
    <2>4. DeviceOK([note[m] EXCEPT !.flight = note[m].flight \cup {sent}])
      BY <2>1, <2>3, FlightOK DEF IInv
    <2> QED BY <1>4, <2>2, <2>4, NotesChange DEF IInv
  <1>6. PostsInv'
    <2>1. p \in Post /\ p.e = e /\ p.at = "frame"
      BY <1>2 DEF Post
    <2>2. PostOK(p)
      BY <2>1, <1>2 DEF PostOK
    <2> HIDE DEF p
    <2> QED BY <1>0, <1>4, <2>2, PostsChange, PostStays DEF IInv
  <1>7. RestInv'
    BY <1>0 DEF IInv, RestInv, bounds
  <1> QED BY <1>4, <1>5, <1>6, <1>7 DEF IInv
-----------------------------------------------------------------------------
(* The room at work *)

LEMMA InType ==
    ASSUME LogInv, NEW s, SocketOK(s), NEW seq \in 0..HeadSeq
    PROVE  SocketOK([s EXCEPT !.in = Append(@, seq)])
  <1>1. s \in Socket /\ s.in \in Seq(0..HeadSeq) /\ s.in \in Seq(Nat) /\ seq \in Nat
    BY DEF SocketOK, Socket, LogInv, ServerTypeOK, HeadSeq
  <1>2. Append(s.in, seq) \in Seq(0..HeadSeq) /\ Append(s.in, seq) \in Seq(Nat)
    BY <1>1, AppendProperties
  <1> QED BY <1>1, <1>2 DEF SocketOK, Socket

LEMMA ConnectStep ==
    ASSUME IInv, NEW m \in Members, Connect(m)
    PROVE  IInv'
  <1> DEFINE s == [open |-> TRUE, role |-> RoleOf(m), in |-> <<>>]
  <1>1. Still
    BY DEF Connect, Still, AdoptEpoch, IInv, LogInv, ServerTypeOK
  <1>2. LogInv' /\ LogGrows /\ NotesInv' /\ PostsInv'
    BY <1>1, StillInv DEF Connect
  <1>3. SocketOK(s)
    <2>1. RoleOf(m) \in Roles
      BY RoleType DEF IInv, LogInv, ServerTypeOK, RoleOf
    <2>2. <<>> \in Seq(Nat) /\ <<>> \in Seq(0..HeadSeq)
      BY EmptySeq
    <2> QED BY <2>1, <2>2 DEF SocketOK, Socket
  <1>4. SocketsInv'
    BY <1>2, <1>3, SocketsChange DEF Connect, IInv
  <1>5. RestInv'
    BY DEF Connect, IInv, RestInv, bounds
  <1> QED BY <1>2, <1>4, <1>5 DEF IInv

LEMMA TakeFrameStep ==
    ASSUME IInv, NEW p \in posts, TakeFrame(p)
    PROVE  IInv'
  <1>1. Still
    BY DEF TakeFrame, Still, serverVars, IInv, LogInv, ServerTypeOK
  <1>2. LogInv' /\ LogGrows /\ NotesInv'
    BY <1>1, StillInv DEF TakeFrame
  <1>3. RestInv'
    BY DEF TakeFrame, IInv, RestInv, bounds
  <1>4. PostOK(p) /\ p \in Post
    BY DEF IInv, PostsInv, PostOK
  <1>5. CASE Refuse(p)
    <2>1. PostsInv'
      BY <1>2, <1>5, PostsShrink DEF Refuse, IInv
    <2>2. p.e.by \in Members
      BY <1>4 DEF Post, Entry
    <2>3. SocketOK([sock[p.e.by] EXCEPT !.in = Append(@, 0)])
      <3>1. 0 \in 0..HeadSeq
        BY DEF IInv, LogInv, ServerTypeOK, HeadSeq
      <3> QED BY <2>2, <3>1, InType DEF IInv, SocketsInv
    <2>4. sock' = [sock EXCEPT ![p.e.by] = [sock[p.e.by] EXCEPT !.in = Append(@, 0)]]
      BY <1>5, <2>2 DEF Refuse, IInv, SocketsInv, Socket
    <2>5. SocketsInv'
      BY <1>2, <2>2, <2>3, <2>4, SocketsChange DEF IInv
    <2> QED BY <1>2, <1>3, <2>1, <2>5 DEF IInv
  <1>6. CASE posts' = (posts \ {p}) \cup {[p EXCEPT !.at = "checked"]} /\ UNCHANGED sock
    <2> DEFINE q == [p EXCEPT !.at = "checked"]
    <2>1. q \in Post /\ q.e = p.e /\ q.at = "checked"
      BY <1>4 DEF Post
    <2>2. PostOK(q)
      BY <2>1, <1>4 DEF PostOK
    <2> HIDE DEF q
    <2>3. PostsInv'
      BY <1>2, <1>6, <2>2, PostsChange, PostStays DEF IInv, q
    <2>4. SocketsInv'
      BY <1>2, <1>6, SocketsStay DEF IInv
    <2> QED BY <1>2, <1>3, <2>3, <2>4 DEF IInv
  <1> QED BY <1>5, <1>6 DEF TakeFrame

LEMMA StoreStep ==
    ASSUME IInv, NEW p \in posts, Store(p)
    PROVE  IInv'
  <1>h. PICK h \in Nat : h = HeadSeq + 1
    BY DEF IInv, LogInv, ServerTypeOK, HeadSeq
  <1> DEFINE q == [p EXCEPT !.at = "stored", !.seq = h]
  <1>0. /\ p.at = "checked" /\ StoreEntry(p.e)
        /\ posts' = (posts \ {p}) \cup {q} /\ UNCHANGED <<note, sync, sock, rot, bounds>>
    BY <1>h DEF Store
  <1>1. p \in Post /\ p.e \in Entry /\ p.e.epoch \in 1..epoch
    BY DEF IInv, PostsInv, PostOK, Post
  <1>2. /\ entries \in Seq(Entry) /\ HeadSeq \in Nat /\ HeadSeq = Len(entries)
        /\ entries' = Append(entries, p.e)
    BY <1>0 DEF StoreEntry, IInv, LogInv, ServerTypeOK, HeadSeq
  <1>3. /\ entries' \in Seq(Entry) /\ HeadSeq' = HeadSeq + 1
        /\ \A seq \in UpTo(HeadSeq) : entries'[seq] = entries[seq]
        /\ entries'[HeadSeq + 1] = p.e
    BY <1>1, <1>2, AppendProperties DEF HeadSeq, UpTo
  <1>4. LogGrows
    <2>1. epoch' = epoch /\ lists' = lists /\ epoch \in Nat
      BY <1>0 DEF StoreEntry, IInv, LogInv, ServerTypeOK
    <2>2. HeadSeq <= HeadSeq'
      BY <1>2, <1>3
    <2> QED BY <1>3, <2>1, <2>2 DEF LogGrows
  <1>5. \A seq \in UpTo(HeadSeq)' : seq = HeadSeq + 1 \/ seq \in UpTo(HeadSeq)
    BY <1>2, <1>3 DEF UpTo
  <1>6. LogInv'
    <2>1. ServerTypeOK'
      <3>1. kept' \subseteq UpTo(HeadSeq)'
        BY <1>0, <1>2, <1>3 DEF StoreEntry, IInv, LogInv, ServerTypeOK, UpTo
      <3> QED BY <1>0, <1>3, <3>1 DEF StoreEntry, IInv, LogInv, ServerTypeOK
    <2>2. \A seq \in UpTo(HeadSeq)' : entries'[seq].epoch \in 1..epoch'
      BY <1>0, <1>1, <1>3, <1>5 DEF StoreEntry, IInv, LogInv
    <2>3. SnapshotOK(snapshot)'
      <3>1. SnapshotOK(snapshot) /\ snapshot' = snapshot
        BY <1>0 DEF StoreEntry, IInv, LogInv
      <3> QED BY <3>1, <1>4, SnapshotStays DEF IInv
    <2>4. ASSUME NEW seq \in UpTo(HeadSeq)', seq \notin kept'
          PROVE  IsUpdate(seq)' /\ seq <= snapshot'.base
      <3>1. seq \in UpTo(HeadSeq) /\ seq \notin kept
        BY <1>0, <1>5, <2>4 DEF StoreEntry
      <3> QED BY <1>0, <1>3, <3>1 DEF StoreEntry, IInv, LogInv, IsUpdate
    <2> QED BY <2>1, <2>2, <2>3, <2>4 DEF LogInv
  <1>7. NotesInv' /\ SocketsInv'
    BY <1>0, <1>4, NotesStay, SocketsStay DEF IInv
  <1>8. PostsInv'
    <2>1. q \in Post /\ q.e = p.e /\ q.seq = h
      BY <1>1 DEF Post
    <2>2. h \in UpTo(HeadSeq)' /\ epoch' = epoch
      BY <1>0, <1>h, <1>2, <1>3 DEF UpTo, StoreEntry
    <2>3. PostOK(q)'
      BY <2>1, <2>2, <1>1 DEF PostOK
    <2> HIDE DEF q
    <2> QED BY <1>0, <1>4, <2>3, PostsChange DEF IInv
  <1>9. RestInv'
    BY <1>0 DEF IInv, RestInv, bounds
  <1> QED BY <1>6, <1>7, <1>8, <1>9 DEF IInv

LEMMA TellStep ==
    ASSUME IInv, NEW p \in posts, Tell(p)
    PROVE  IInv'
  <1>1. Still
    BY DEF Tell, Still, serverVars, IInv, LogInv, ServerTypeOK
  <1>2. LogInv' /\ LogGrows /\ PostsInv'
    BY <1>1, StillInv DEF Tell
  <1>3. p.seq \in UpTo(HeadSeq) /\ p.seq \in 0..HeadSeq
    <2>1. p.at = "stored"
      BY Zenon DEF Tell
    <2>2. PostOK(p)
      BY DEF IInv, PostsInv
    <2>3. HeadSeq \in Nat
      BY DEF IInv, LogInv, ServerTypeOK, HeadSeq
    <2> QED BY <2>1, <2>2, <2>3 DEF PostOK, UpTo
  <1>4. SocketsInv'
    <2>1. ASSUME NEW m \in Members PROVE SocketOK(sock'[m])
      BY <1>3, InType DEF Tell, IInv, SocketsInv
    <2>2. sock' \in [Members -> Socket]
      BY <2>1 DEF Tell, SocketOK
    <2> QED BY <1>2, <2>1, <2>2, SocketStays DEF SocketsInv, IInv
  <1>5. NotesInv'
    <2>1. ASSUME NEW m \in Members PROVE DeviceOK(note'[m])
      <3> DEFINE n == note[m]
                 outbox == {o \in n.outbox : o.id # sync[m].id}
                 left == [n EXCEPT !.outbox = outbox]
      <3>1. DeviceOK(n) /\ n \in Note /\ n.epoch \in Nat
        BY DEF IInv, NotesInv, DeviceOK, Note
      <3>2. /\ left \in Note /\ left.epoch = n.epoch /\ left.applied = n.applied
            /\ left.doc = n.doc /\ left.inbox = n.inbox /\ left.flight = n.flight
            /\ left.pending = n.pending
        <4>1. outbox \subseteq n.outbox
          OBVIOUS
        <4> HIDE DEF outbox
        <4> QED BY <4>1, <3>1 DEF Note
      <3>3. note'[m] \in {n, left}
        BY DEF Tell
      <3> HIDE DEF left, n
      <3>4. DeviceOK(left)
        BY <3>1, <3>2, DeviceChange DEF IInv, DeviceOK
      <3> QED BY <3>1, <3>3, <3>4
    <2>2. note' \in [Members -> Note]
      BY <2>1 DEF Tell, DeviceOK
    <2> QED BY <1>2, <2>1, <2>2, DeviceStays DEF NotesInv, IInv
  <1>6. RestInv'
    <2>1. sync' \in [Members -> Sync]
      BY DEF Tell, IInv, RestInv, Sync, Stages
    <2> QED BY <2>1 DEF Tell, IInv, RestInv, bounds
  <1> QED BY <1>2, <1>4, <1>5, <1>6 DEF IInv
-----------------------------------------------------------------------------
(* The live connection *)

LEMMA SyncType ==
    ASSUME IInv
    PROVE  /\ Idle \in Sync /\ TheLiveSync \in Sync
           /\ sync \in [Members -> Sync]
           /\ \A m \in Members, s \in Stages : [sync EXCEPT ![m].at = s] \in [Members -> Sync]
  <1>1. Idle \in Sync
    BY DEF Idle, Sync, Stages
  <1>2. TheLiveSync \in Sync
    BY <1>1 DEF TheLiveSync, Sync, Stages
  <1>3. sync \in [Members -> Sync]
    BY DEF IInv, RestInv
  <1>4. ASSUME NEW m \in Members, NEW s \in Stages
        PROVE  [sync EXCEPT ![m].at = s] \in [Members -> Sync]
    <2>1. [sync[m] EXCEPT !.at = s] \in Sync
      BY <1>3 DEF Sync
    <2> QED BY <1>3, <2>1
  <1> QED BY <1>1, <1>2, <1>3, <1>4

LEMMA StopType ==
    ASSUME IInv, NEW m \in Members, Stop(m)
    PROVE  sync' \in [Members -> Sync]
  BY SyncType DEF Stop

LEMMA GoToType ==
    ASSUME IInv, NEW m \in Members, NEW stage \in Stages, GoTo(m, stage)
    PROVE  sync' \in [Members -> Sync]
  BY SyncType DEF GoTo

\* What is on its way to a device is an error or the seq of an entry.
LEMMA OutType ==
    ASSUME LogInv, NEW s, SocketOK(s), s.in # <<>>
    PROVE  Head(s.in) \in 0..HeadSeq /\ SocketOK([s EXCEPT !.in = Tail(@)])
  <1>1. s \in Socket /\ s.in \in Seq(0..HeadSeq) /\ s.in \in Seq(Nat)
    BY DEF SocketOK, Socket
  <1>2. Head(s.in) \in 0..HeadSeq /\ Tail(s.in) \in Seq(0..HeadSeq) /\ Tail(s.in) \in Seq(Nat)
    BY <1>1, HeadTailProperties
  <1> QED BY <1>1, <1>2 DEF SocketOK, Socket

LEMMA HeardSocket ==
    ASSUME IInv, LogInv', LogGrows, NEW m \in Members, sock[m].in # <<>>,
           sock' = [sock EXCEPT ![m].in = Tail(@)]
    PROVE  SocketsInv'
  <1>1. SocketOK(sock[m]) /\ sock \in [Members -> Socket]
    BY DEF IInv, SocketsInv
  <1>2. SocketOK([sock[m] EXCEPT !.in = Tail(@)])
    BY <1>1, OutType DEF IInv
  <1>3. sock' = [sock EXCEPT ![m] = [sock[m] EXCEPT !.in = Tail(@)]]
    BY <1>1
  <1> QED BY <1>2, <1>3, SocketsChange DEF IInv

LEMMA HeardOK ==
    ASSUME IInv, NEW m \in Members, sock[m].in # <<>>, Head(sock[m].in) # 0
    PROVE  DeviceOK([note[m] EXCEPT !.inbox = @ \cup {Head(sock[m].in)}])
  <1> DEFINE n == note[m]
             inbox == n.inbox \cup {Head(sock[m].in)}
             delivered == [n EXCEPT !.inbox = inbox]
  <1>1. n \in Note /\ DeviceOK(n)
    BY DEF IInv, NotesInv, DeviceOK
  <1>2. Head(sock[m].in) \in UpTo(HeadSeq) /\ UpTo(HeadSeq) \subseteq Nat
    <2>1. Head(sock[m].in) \in 0..HeadSeq
      BY OutType DEF IInv, SocketsInv
    <2>2. HeadSeq \in Nat
      BY DEF IInv, LogInv, ServerTypeOK, HeadSeq
    <2> QED BY <2>1, <2>2 DEF UpTo
  <1>3. inbox \subseteq UpTo(HeadSeq) /\ inbox \in SUBSET Nat
    BY <1>1, <1>2 DEF DeviceOK
  <1> HIDE DEF inbox
  <1>4. /\ delivered \in Note /\ delivered.epoch = n.epoch /\ delivered.applied = n.applied
        /\ delivered.doc = n.doc /\ delivered.inbox = inbox /\ delivered.flight = n.flight
        /\ delivered.pending = n.pending /\ n.epoch \in Nat
    BY <1>1, <1>3 DEF Note
  <1> HIDE DEF delivered
  <1>5. DeviceOK(delivered)
    BY <1>1, <1>3, <1>4, DeviceChange DEF IInv, DeviceOK
  <1> QED BY <1>5 DEF delivered, inbox

LEMMA HearStoredStep ==
    ASSUME IInv, NEW m \in Members, HearStored(m)
    PROVE  IInv'
  <1> DEFINE delivered == [note[m] EXCEPT !.inbox = @ \cup {Head(sock[m].in)}]
  <1>0. /\ sock[m].in # <<>> /\ Head(sock[m].in) # 0
        /\ note' = [note EXCEPT ![m] = Merge(m, delivered)]
        /\ sync' \in {sync, [sync EXCEPT ![m] = TheLiveSync]}
        /\ sock' = [sock EXCEPT ![m].in = Tail(@)]
        /\ UNCHANGED <<serverVars, posts, rot, bounds>>
    BY Zenon DEF HearStored
  <1>1. Still
    BY <1>0 DEF Still, serverVars, IInv, LogInv, ServerTypeOK
  <1>2. LogInv' /\ LogGrows /\ PostsInv'
    BY <1>0, <1>1, StillInv
  <1>3. SocketsInv'
    BY <1>0, <1>2, HeardSocket
  <1>4. NotesInv'
    <2>1. DeviceOK(Merge(m, delivered))
      <3>1. DeviceOK(delivered)
        BY <1>0, HeardOK
      <3> QED BY <3>1, MergeOK DEF IInv
    <2> HIDE DEF delivered
    <2> QED BY <1>0, <1>2, <2>1, NotesChange DEF IInv
  <1>5. RestInv'
    BY <1>0, SyncType DEF IInv, RestInv, bounds
  <1> QED BY <1>2, <1>3, <1>4, <1>5 DEF IInv

LEMMA HearErrorStep ==
    ASSUME IInv, NEW m \in Members, HearError(m)
    PROVE  IInv'
  <1>1. Still
    BY DEF HearError, Still, serverVars, IInv, LogInv, ServerTypeOK
  <1>2. LogInv' /\ LogGrows /\ PostsInv'
    BY <1>1, StillInv DEF HearError
  <1>3. SocketsInv'
    BY <1>2, HeardSocket DEF HearError
  <1>4. NotesInv'
    <2>1. DeviceOK([note[m] EXCEPT !.flight = {}])
      BY FlightOK, FS_EmptySet DEF IInv, NotesInv
    <2>2. note' = [note EXCEPT ![m] = [note[m] EXCEPT !.flight = {}]]
      BY DEF HearError, IInv, NotesInv
    <2> QED BY <1>2, <2>1, <2>2, NotesChange DEF IInv
  <1>5. RestInv'
    BY SyncType DEF HearError, IInv, RestInv, bounds
  <1> QED BY <1>2, <1>3, <1>4, <1>5 DEF IInv

LEMMA DisconnectStep ==
    ASSUME IInv, NEW m \in Members, Disconnect(m)
    PROVE  IInv'
  <1>1. Still
    BY DEF Disconnect, Still, serverVars, IInv, LogInv, ServerTypeOK
  <1>2. LogInv' /\ LogGrows /\ PostsInv'
    BY <1>1, StillInv DEF Disconnect
  <1>3. SocketsInv'
    BY <1>2, NoSocketOK, SocketsChange DEF Disconnect, IInv
  <1>4. NotesInv'
    <2>1. DeviceOK([note[m] EXCEPT !.flight = {}])
      BY FlightOK, FS_EmptySet DEF IInv, NotesInv
    <2>2. note' = [note EXCEPT ![m] = [note[m] EXCEPT !.flight = {}]]
      BY DEF Disconnect, IInv, NotesInv
    <2> QED BY <1>2, <2>1, <2>2, NotesChange DEF IInv
  <1>5. RestInv'
    BY DEF Disconnect, IInv, RestInv
  <1> QED BY <1>2, <1>3, <1>4, <1>5 DEF IInv

LEMMA CrashStep ==
    ASSUME IInv, NEW m \in Members, Crash(m)
    PROVE  IInv'
  <1> DEFINE n == note[m]
             o == [n EXCEPT !.inbox = {}, !.pending = NoSnapshot, !.flight = {},
                            !.reloading = FALSE]
  <1>1. Still
    BY DEF Crash, Still, serverVars, IInv, LogInv, ServerTypeOK
  <1>2. LogInv' /\ LogGrows /\ PostsInv'
    BY <1>1, StillInv DEF Crash
  <1>3. SocketsInv'
    BY <1>2, NoSocketOK, SocketsChange DEF Crash, IInv
  <1>4. NotesInv'
    <2>1. n \in Note /\ DeviceOK(n) /\ note \in [Members -> Note]
      BY DEF IInv, NotesInv, DeviceOK
    <2>2. note' = [note EXCEPT ![m] = o]
      BY <2>1 DEF Crash
    <2>3. /\ o \in Note /\ o.epoch = n.epoch /\ o.applied = n.applied /\ o.doc = n.doc
          /\ o.inbox = {} /\ o.flight = {} /\ o.pending = NoSnapshot /\ n.epoch \in Nat
      BY <2>1 DEF Note
    <2> HIDE DEF o, n
    <2>4. DeviceOK(o)
      BY <2>1, <2>3, DeviceChange, FS_EmptySet DEF IInv, DeviceOK
    <2> QED BY <1>2, <2>2, <2>4, NotesChange DEF IInv
  <1>5. RestInv'
    BY SyncType DEF Crash, IInv, RestInv
  <1> QED BY <1>2, <1>3, <1>4, <1>5 DEF IInv
-----------------------------------------------------------------------------
(* The HTTP sync *)

LEMMA DeliverOK ==
    ASSUME LogInv, NEW n, DeviceOK(n), NEW from
    PROVE  /\ DeviceOK(Deliver(n, LogPage(from)))
           /\ Deliver(n, LogPage(from)).epoch = n.epoch
  <1> DEFINE page == LogPage(from)
             inbox == n.inbox \cup page.seqs
             pending == IF page.snapshot = NoSnapshot THEN n.pending ELSE page.snapshot
             o == [n EXCEPT !.inbox = inbox, !.pending = pending]
  <1>1. n \in Note /\ n.epoch \in Nat /\ HeadSeq \in Nat
    BY DEF DeviceOK, Note, LogInv, ServerTypeOK, HeadSeq
  <1>2. page.seqs \subseteq kept /\ page.snapshot \in {snapshot, NoSnapshot}
    BY DEF LogPage, FirstOf
  <1>3. Deliver(n, page) = o
    BY Zenon DEF Deliver
  <1> HIDE DEF page
  <1>4. inbox \subseteq UpTo(HeadSeq) /\ inbox \in SUBSET Nat
    <2>1. kept \subseteq UpTo(HeadSeq) /\ UpTo(HeadSeq) \subseteq Nat
      BY <1>1 DEF LogInv, ServerTypeOK, UpTo
    <2>2. n.inbox \subseteq UpTo(HeadSeq)
      BY DEF DeviceOK
    <2> QED BY <1>2, <2>1, <2>2
  <1>5. pending \in {n.pending, NoSnapshot} \/ SnapshotOK(pending)
    BY <1>2 DEF LogInv
  <1>6. pending \in Snapshot \cup {NoSnapshot}
    BY <1>1, <1>5 DEF Note, SnapshotOK
  <1> HIDE DEF inbox, pending
  <1>7. /\ o \in Note /\ o.epoch = n.epoch /\ o.applied = n.applied /\ o.doc = n.doc
        /\ o.inbox = inbox /\ o.flight = n.flight /\ o.pending = pending
    BY <1>1, <1>4, <1>6 DEF Note
  <1> HIDE DEF o
  <1>8. DeviceOK(o)
    BY <1>1, <1>4, <1>5, <1>7, DeviceChange DEF DeviceOK
  <1> QED BY <1>3, <1>7, <1>8 DEF page

LEMMA AfterPageOK ==
    ASSUME LogInv, NEW n, DeviceOK(n), NEW page
    PROVE  DeviceOK(AfterPage(n, page))
  <1> DEFINE o == [n EXCEPT !.reloading = FALSE]
  <1>1. n \in Note /\ n.epoch \in Nat
    BY DEF DeviceOK, Note
  <1>2. /\ o \in Note /\ o.epoch = n.epoch /\ o.applied = n.applied /\ o.doc = n.doc
        /\ o.inbox = n.inbox /\ o.flight = n.flight /\ o.pending = n.pending
    BY <1>1 DEF Note
  <1>3. AfterPage(n, page) \in {n, o}
    BY DEF AfterPage
  <1> HIDE DEF o
  <1>4. DeviceOK(o)
    BY <1>1, <1>2, DeviceChange DEF DeviceOK
  <1> QED BY <1>3, <1>4

LEMMA PullStep ==
    ASSUME IInv, NEW m \in Members, Pull(m)
    PROVE  IInv'
  <1>0. UNCHANGED <<serverVars, sock, posts, rot, bounds>>
    BY DEF Pull
  <1>1. Still
    BY <1>0 DEF Still, serverVars, IInv, LogInv, ServerTypeOK
  <1>2. LogInv' /\ LogGrows /\ PostsInv' /\ SocketsInv'
    BY <1>0, <1>1, StillInv
  <1>3. NotesInv'
    <2>1. CASE UNCHANGED note
      BY <1>2, <2>1, NotesStay DEF IInv
    <2>2. ASSUME NEW page, page = LogPage(Known(note[m])), NEW n,
                 n = Merge(m, Deliver(note[m], page)),
                 note' = [note EXCEPT ![m] = AfterPage(n, page)]
          PROVE  NotesInv'
      <3>1. DeviceOK(Deliver(note[m], page))
        BY <2>2, DeliverOK DEF IInv, NotesInv
      <3>2. DeviceOK(n)
        BY <2>2, <3>1, MergeOK DEF IInv
      <3>3. DeviceOK(AfterPage(n, page))
        BY <3>2, AfterPageOK DEF IInv
      <3> QED BY <1>2, <2>2, <3>3, NotesChange DEF IInv
    <2> QED BY <2>1, <2>2 DEF Pull
  <1>4. RestInv'
    <2>1. "pull" \in Stages /\ "again" \in Stages /\ "push" \in Stages
      BY DEF Stages
    <2>2. Stop(m) \/ \E stage \in Stages : GoTo(m, stage)
      BY <2>1 DEF Pull
    <2> QED BY <1>0, <2>2, StopType, GoToType DEF IInv, RestInv, bounds
  <1> QED BY <1>2, <1>3, <1>4 DEF IInv

LEMMA PushDroppedStep ==
    ASSUME IInv, NEW m \in Members, PushDropped(m)
    PROVE  IInv'
  <1> DEFINE n == note[m]
             comments == {w \in n.outbox : w.kind = "c"}
             fresh == [NoteOf(n.epoch) EXCEPT !.comments = n.comments, !.reloading = TRUE,
                                              !.outbox = comments]
             outbox == n.outbox \ {Oldest(Unsent(m))}
             left == [n EXCEPT !.outbox = outbox]
  <1>0. /\ UNCHANGED <<serverVars, sock, posts, rot, bounds>>
        /\ note' = [note EXCEPT ![m] = fresh] \/ note' = [note EXCEPT ![m] = left]
        /\ sync' \in {sync, [sync EXCEPT ![m].wrote = TRUE]}
    <2>1. note \in [Members -> Note] 
      BY DEF IInv, NotesInv
    <2> QED BY <2>1 DEF PushDropped
  <1>1. Still
    BY <1>0 DEF Still, serverVars, IInv, LogInv, ServerTypeOK
  <1>2. LogInv' /\ LogGrows /\ PostsInv' /\ SocketsInv'
    BY <1>0, <1>1, StillInv
  <1>3. n \in Note /\ DeviceOK(n) /\ n.epoch \in Nat /\ n.epoch <= epoch
    BY DEF IInv, NotesInv, DeviceOK, Note
  <1>4. DeviceOK(fresh)
    <2>1. comments \subseteq n.outbox
      OBVIOUS
    <2> HIDE DEF comments
    <2>2. /\ fresh \in Note /\ fresh.epoch = n.epoch /\ fresh.applied = 0 /\ fresh.inbox = {}
          /\ fresh.pending = NoSnapshot /\ fresh.flight = {}
      BY <1>3, <2>1 DEF Note, NoteOf
    <2> HIDE DEF fresh
    <2> QED BY <1>3, <2>2, FreshNoteOK DEF IInv
  <1>5. DeviceOK(left)
    <2>1. outbox \subseteq n.outbox
      OBVIOUS
    <2> HIDE DEF outbox
    <2>2. /\ left \in Note /\ left.epoch = n.epoch /\ left.applied = n.applied
          /\ left.doc = n.doc /\ left.inbox = n.inbox /\ left.flight = n.flight
          /\ left.pending = n.pending
      BY <1>3, <2>1 DEF Note
    <2> HIDE DEF left, n
    <2> QED BY <1>3, <2>2, DeviceChange DEF IInv, DeviceOK
  <1>6. NotesInv'
    <2> HIDE DEF fresh, left
    <2> QED BY <1>0, <1>2, <1>4, <1>5, NotesChange DEF IInv
  <1>7. RestInv'
    <2>1. [sync EXCEPT ![m].wrote = TRUE] \in [Members -> Sync]
      <3>1. [sync[m] EXCEPT !.wrote = TRUE] \in Sync /\ sync \in [Members -> Sync]
        BY SyncType DEF Sync
      <3> QED BY <3>1
    <2> QED BY <1>0, <2>1 DEF IInv, RestInv, bounds
  <1> QED BY <1>2, <1>6, <1>7 DEF IInv
\* A snapshot is taken of the whole log by a device that has merged it.
LEMMA SnapshotStep ==
    ASSUME IInv, NEW m \in Members, WriteSnapshot(m)
    PROVE  LogInv' /\ LogGrows
  <1> DEFINE s == MySnapshot(m)
  <1>0. /\ s.epoch = epoch /\ s.base = HeadSeq
        /\ snapshot' = s /\ kept' = KeepsAfter(s.base) /\ since' = 0
        /\ UNCHANGED <<epoch, lists, entries>> /\ roomEpoch' \in {epoch, roomEpoch}
    BY DEF WriteSnapshot, Taken, TakesSnapshot, TakeSnapshot, AdoptEpoch
  <1>1. note[m] \in Note /\ DeviceOK(note[m])
    BY DEF IInv, NotesInv, DeviceOK
  <1>2. LogGrows
    BY <1>0 DEF LogGrows, IInv, LogInv, ServerTypeOK, HeadSeq
  <1>3. SnapshotOK(s)
    <2>1. s \in Snapshot
      BY <1>1 DEF MySnapshot, Snapshot, Note
    <2>2. s.epoch \in 1..epoch /\ s.base <= HeadSeq
      BY <1>0 DEF IInv, LogInv, ServerTypeOK, HeadSeq
    <2>3. Covers(s.base, s.epoch, s.doc)
      BY <1>1 DEF MySnapshot, DeviceOK
    <2> QED BY <2>1, <2>2, <2>3 DEF SnapshotOK
  <1> HIDE DEF s
  <1>5. ServerTypeOK'
    <2>1. kept' \subseteq kept
      BY <1>0 DEF KeepsAfter
    <2>2. snapshot' \in Snapshot
      BY <1>0, <1>3 DEF SnapshotOK
    <2> QED BY <1>0, <2>1, <2>2 DEF IInv, LogInv, ServerTypeOK, HeadSeq, UpTo
  <1>6. ASSUME NEW seq \in UpTo(HeadSeq)', seq \notin kept'
        PROVE  IsUpdate(seq)' /\ seq <= snapshot'.base
    <2>1. seq \in UpTo(HeadSeq) /\ entries' = entries /\ entries[seq] \in Entry
      BY <1>0 DEF HeadSeq, UpTo, IInv, LogInv, ServerTypeOK
    <2>2. seq <= HeadSeq
      BY <2>1 DEF UpTo, HeadSeq, IInv, LogInv, ServerTypeOK
    <2>3. IsUpdate(seq)
      <3>1. CASE seq \in kept
        BY <1>0, <1>6, <2>1, <3>1 DEF KeepsAfter, IsUpdate, Entry
      <3>2. CASE seq \notin kept
        BY <2>1, <3>2 DEF IInv, LogInv
      <3> QED BY <3>1, <3>2
    <2> QED BY <1>0, <2>1, <2>2, <2>3 DEF IsUpdate
  <1>7. \A seq \in UpTo(HeadSeq)' : entries'[seq].epoch \in 1..epoch'
    BY <1>0 DEF IInv, LogInv, HeadSeq, UpTo
  <1>8. SnapshotOK(snapshot)'
    BY <1>0, <1>2, <1>3, SnapshotStays DEF IInv
  <1> QED BY <1>2, <1>5, <1>6, <1>7, <1>8 DEF LogInv

LEMMA CompactStep ==
    ASSUME IInv, NEW m \in Members, WriteSnapshot(m), UNCHANGED sync
    PROVE  IInv'
  <1>1. LogInv' /\ LogGrows
    BY SnapshotStep
  <1>2. NotesInv' /\ SocketsInv' /\ PostsInv'
    BY <1>1, NotesStay, SocketsStay, PostsShrink DEF IInv, WriteSnapshot
  <1>3. RestInv'
    BY DEF IInv, RestInv, WriteSnapshot
  <1> QED BY <1>1, <1>2, <1>3 DEF IInv

LEMMA PushStep ==
    ASSUME IInv, NEW m \in Members, Push(m)
    PROVE  IInv'
  <1> DEFINE o == Oldest(Unsent(m))
             e == Sealed(m, o)
             p == [e |-> e, http |-> TRUE, at |-> "checked", seq |-> 0]
  <1>1. CASE WriteSnapshot(m) /\ UNCHANGED sync
    BY <1>1, CompactStep
  <1>2. ASSUME Still, UNCHANGED <<note, sock, posts, rot, bounds>>, Stop(m)
        PROVE  IInv'
    <2>1. LogInv' /\ LogGrows /\ NotesInv' /\ PostsInv' /\ SocketsInv'
      BY <1>2, StillInv
    <2>2. RestInv'
      BY <1>2, StopType DEF IInv, RestInv, bounds
    <2> QED BY <2>1, <2>2 DEF IInv
  <1>3. ASSUME posts' = posts \cup {p}, Still, UNCHANGED <<note, sock, rot, bounds>>,
               sync' = [sync EXCEPT ![m].at = "sent", ![m].nr = e.nr, ![m].id = o.id],
               Active(m), Unsent(m) # {}
        PROVE  IInv'
    <2>1. o \in note[m].outbox
      <3>1. Unsent(m) \subseteq note[m].outbox /\ Unsent(m) \subseteq Waiting
        BY DEF Unsent, IInv, NotesInv, Note
      <3> QED BY <3>1, <1>3, OldestOf
    <2>2. e \in Entry /\ e.epoch \in 1..epoch /\ o \in Waiting
      <3>1. o \in Waiting
        BY <2>1 DEF IInv, NotesInv, Note
      <3> QED BY <1>3, <2>1, <3>1, SealedType
    <2>3. LogInv' /\ LogGrows /\ NotesInv' /\ SocketsInv'
      BY <1>3, StillInv
    <2> HIDE DEF e
    <2>4. PostsInv'
      <3>1. p \in Post /\ p.e = e /\ p.at = "checked"
        BY <2>2 DEF Post
      <3> HIDE DEF p
      <3>2. PostOK(p)
        BY <2>2, <3>1 DEF PostOK
      <3> QED BY <1>3, <2>3, <3>2, PostsChange, PostStays DEF IInv
    <2>5. RestInv'
      <3>1. e.nr \in Nat /\ o.id \in Nat /\ sync[m] \in Sync /\ sync \in [Members -> Sync]
        BY <2>2, SyncType, RoomAssumption DEF Entry, Waiting, Ids
      <3> HIDE DEF o
      <3>2. [sync[m] EXCEPT !.at = "sent", !.nr = e.nr, !.id = o.id] \in Sync
        BY <3>1 DEF Sync, Stages
      <3>3. sync' \in [Members -> Sync]
        BY <1>3, <3>1, <3>2
      <3> QED BY <1>3, <3>3 DEF IInv, RestInv, bounds
    <2> QED BY <2>3, <2>4, <2>5 DEF IInv
  <1>4. AdoptEpoch => roomEpoch' \in Nat
    BY DEF AdoptEpoch, IInv, LogInv, ServerTypeOK
  <1>5. UNCHANGED serverVars => Still
    BY DEF Still, serverVars, IInv, LogInv, ServerTypeOK
  <1>6. Active(m) /\ Unsent(m) # {}
    BY DEF Push
  <1> HIDE DEF p
  <1>7. \/ /\ posts' = posts \cup {p}
           /\ sync' = [sync EXCEPT ![m].at = "sent", ![m].nr = e.nr, ![m].id = o.id]
           /\ AdoptEpoch
           /\ UNCHANGED <<epoch, lists, entries, kept, snapshot, since, note, sock, rot, bounds>>
        \/ WriteSnapshot(m) /\ UNCHANGED sync
        \/ /\ AdoptEpoch /\ Stop(m)
           /\ UNCHANGED <<epoch, lists, entries, kept, snapshot, since, note, sock, posts, rot, bounds>>
        \/ Stop(m) /\ UNCHANGED <<serverVars, note, sock, posts, rot, bounds>>
    BY Zenon DEF Push, p
  <1> HIDE DEF e, o
  <1> QED BY <1>1, <1>2, <1>3, <1>4, <1>5, <1>6, <1>7 DEF Still

\* The steps that only end a sync.
LEMMA StopStep ==
    ASSUME IInv, NEW m \in Members, Stop(m), UNCHANGED <<serverVars, note, sock, posts, rot>>,
           {written', snaps', faults'} \subseteq Nat
    PROVE  IInv'
  <1>1. Still
    BY DEF Still, serverVars, IInv, LogInv, ServerTypeOK
  <1>2. LogInv' /\ LogGrows /\ NotesInv' /\ PostsInv' /\ SocketsInv'
    BY <1>1, StillInv
  <1>3. RestInv'
    BY StopType DEF IInv, RestInv
  <1> QED BY <1>2, <1>3 DEF IInv
-----------------------------------------------------------------------------
(* Who is in the note *)

LEMMA NewNoteOK ==
    ASSUME LogInv, NEW e \in 0..epoch
    PROVE  DeviceOK(NoteOf(e))
  <1>1. NoteOf(e) \in Note
    BY DEF NoteOf, Note
  <1>2. /\ NoteOf(e).epoch = e /\ NoteOf(e).applied = 0 /\ NoteOf(e).inbox = {}
        /\ NoteOf(e).pending = NoSnapshot /\ NoteOf(e).flight = {}
    BY DEF NoteOf
  <1>3. e <= epoch
    BY DEF LogInv, ServerTypeOK
  <1> QED BY <1>1, <1>2, <1>3, FreshNoteOK

LEMMA LearnOK ==
    ASSUME LogInv, NEW n, DeviceOK(n)
    PROVE  DeviceOK([n EXCEPT !.epoch = epoch])
  <1> DEFINE o == [n EXCEPT !.epoch = epoch]
  <1>1. n \in Note /\ epoch \in Nat /\ n.epoch \in Nat /\ n.epoch <= epoch
    BY DEF DeviceOK, Note, LogInv, ServerTypeOK
  <1>2. /\ o \in Note /\ o.epoch = epoch /\ o.applied = n.applied /\ o.doc = n.doc
        /\ o.inbox = n.inbox /\ o.flight = n.flight /\ o.pending = n.pending
    BY <1>1 DEF Note
  <1> HIDE DEF o
  <1>3. DeviceOK(o)
    BY <1>1, <1>2, DeviceChange DEF DeviceOK
  <1> QED BY <1>3 DEF o

LEMMA RefreshStep ==
    ASSUME IInv, NEW m \in Members, Refresh(m)
    PROVE  IInv'
  <1>0. UNCHANGED <<serverVars, rot, bounds>>
    BY DEF Refresh
  <1>1. Still
    BY <1>0 DEF Still, serverVars, IInv, LogInv, ServerTypeOK
  <1>2. LogInv' /\ LogGrows /\ posts' \subseteq posts
    BY <1>1, StillInv DEF Refresh
  <1>3. PostsInv'
    BY <1>1, <1>2, StillInv
  <1>4. SocketsInv'
    BY <1>2, NoSocketOK, SocketsChange, SocketsStay DEF Refresh, IInv
  <1>5. NotesInv'
    <2>1. CASE note' = [note EXCEPT ![m] = NoteOf(0)]
      <3>1. DeviceOK(NoteOf(0))
        BY NewNoteOK DEF IInv, LogInv, ServerTypeOK
      <3> QED BY <1>2, <2>1, <3>1, NotesChange DEF IInv
    <2>2. CASE note' = [note EXCEPT ![m].epoch = epoch]
      <3>1. DeviceOK([note[m] EXCEPT !.epoch = epoch])
        BY LearnOK DEF IInv, NotesInv
      <3>2. note' = [note EXCEPT ![m] = [note[m] EXCEPT !.epoch = epoch]]
        BY <2>2 DEF IInv, NotesInv
      <3> QED BY <1>2, <3>1, <3>2, NotesChange DEF IInv
    <2> QED BY <2>1, <2>2 DEF Refresh
  <1>6. RestInv'
    BY <1>0, SyncType DEF Refresh, IInv, RestInv, bounds
  <1> QED BY <1>2, <1>3, <1>4, <1>5, <1>6 DEF IInv
LEMMA JoinStep ==
    ASSUME IInv, NEW m \in Members, Join(m)
    PROVE  IInv'
  <1>1. Still
    BY DEF Join, Still, serverVars, IInv, LogInv, ServerTypeOK
  <1>2. LogInv' /\ LogGrows /\ PostsInv' /\ SocketsInv'
    BY <1>1, StillInv DEF Join
  <1>3. NotesInv'
    <2>1. DeviceOK(NoteOf(epoch))
      BY NewNoteOK DEF IInv, LogInv, ServerTypeOK
    <2> QED BY <1>2, <2>1, NotesChange DEF Join, IInv
  <1>4. RestInv'
    BY DEF Join, IInv, RestInv, bounds
  <1> QED BY <1>2, <1>3, <1>4 DEF IInv

\* A step of the owner's change that leaves the devices and the server alone.
LEMMA RotationStep ==
    ASSUME IInv, UNCHANGED <<serverVars, note, sync, sock, posts>>, rot' \in Rotation,
           {written', snaps', faults'} \subseteq Nat
    PROVE  IInv'
  <1>1. Still
    BY DEF Still, serverVars, IInv, LogInv, ServerTypeOK
  <1>2. LogInv' /\ LogGrows /\ NotesInv' /\ PostsInv' /\ SocketsInv'
    BY <1>1, StillInv
  <1> QED BY <1>2 DEF IInv, RestInv

LEMMA NoRotationType == NoRotation \in Rotation
  BY RoomAssumption DEF NoRotation, Rotation, List

LEMMA SignEpochStep ==
    ASSUME IInv, NEW roles \in [Members -> Roles], SignEpoch(roles)
    PROVE  IInv'
  <1>1. [from |-> HeadSeq, roles |-> roles] \in List
    BY DEF List, HeadSeq, IInv, LogInv, ServerTypeOK
  <1>2. rot' \in Rotation
    BY <1>1 DEF SignEpoch, Rotation
  <1> QED BY <1>2, RotationStep DEF SignEpoch, bounds, IInv, RestInv

LEMMA NewEpochStep ==
    ASSUME IInv, NewEpoch
    PROVE  IInv'
  <1>1. rot.list \in List /\ lists \in Seq(List) /\ Len(lists) = epoch /\ epoch \in Nat
    BY DEF IInv, RestInv, Rotation, LogInv, ServerTypeOK
  <1>2. /\ epoch' = epoch + 1 /\ lists' = Append(lists, rot.list)
        /\ UNCHANGED <<roomEpoch, entries, kept, snapshot, since, note, sync, sock, posts, bounds>>
    BY DEF NewEpoch, StoreEpoch
  <1>3. /\ lists' \in Seq(List) /\ Len(lists') = epoch'
        /\ \A e \in 1..epoch : lists'[e] = lists[e]
    BY <1>1, <1>2, AppendProperties
  <1>4. LogGrows
    BY <1>1, <1>2, <1>3 DEF LogGrows, IInv, LogInv, ServerTypeOK, HeadSeq
  <1>5. LogInv'
    <2>1. ServerTypeOK'
      BY <1>1, <1>2, <1>3 DEF IInv, LogInv, ServerTypeOK, HeadSeq, UpTo
    <2>2. SnapshotOK(snapshot)'
      <3>1. SnapshotOK(snapshot) /\ snapshot' = snapshot
        BY <1>2 DEF IInv, LogInv
      <3> QED BY <3>1, <1>4, SnapshotStays DEF IInv
    <2>3. \A seq \in UpTo(HeadSeq)' :
             /\ entries'[seq].epoch \in 1..epoch'
             /\ seq \in kept' \/ (IsUpdate(seq)' /\ seq <= snapshot'.base)
      BY <1>1, <1>2 DEF IInv, LogInv, UpTo, HeadSeq, IsUpdate
    <2> QED BY <2>1, <2>2, <2>3 DEF LogInv
  <1>6. NotesInv' /\ SocketsInv' /\ PostsInv'
    BY <1>2, <1>4, NotesStay, SocketsStay, PostsShrink DEF IInv
  <1>7. RestInv'
    <2>1. rot' \in Rotation
      BY DEF NewEpoch, Rotation, IInv, RestInv
    <2> QED BY <1>2, <2>1 DEF IInv, RestInv, bounds
  <1> QED BY <1>5, <1>6, <1>7 DEF IInv

LEMMA SetEpochStep ==
    ASSUME IInv, SetEpoch
    PROVE  IInv'
  <1>1. Still
    BY DEF SetEpoch, Still, AdoptEpoch, IInv, LogInv, ServerTypeOK
  <1>2. LogInv' /\ LogGrows /\ PostsInv'
    BY <1>1, StillInv DEF SetEpoch
  <1>3. SocketsInv'
    <2>1. ASSUME NEW m \in Members PROVE SocketOK(sock'[m])
      <3> DEFINE s == sock[m]
                 t == [s EXCEPT !.role = RoleOf(m)]
      <3>1. SocketOK(s)
        BY DEF IInv, SocketsInv
      <3>2. RoleOf(m) \in Roles
        BY RoleType DEF RoleOf, IInv, LogInv, ServerTypeOK
      <3>3. SocketOK(t)
        BY <3>1, <3>2 DEF SocketOK, Socket
      <3>4. sock'[m] \in {s, NoSocket, t}
        BY DEF SetEpoch
      <3> QED BY <3>1, <3>3, <3>4, NoSocketOK
    <2>2. sock' \in [Members -> Socket]
      BY <2>1 DEF SetEpoch, SocketOK
    <2> QED BY <1>2, <2>1, <2>2, SocketStays DEF SocketsInv, IInv
  <1>4. NotesInv'
    <2>1. ASSUME NEW m \in Members PROVE DeviceOK(note'[m])
      <3> DEFINE n == note[m]
                 learns == [n EXCEPT !.epoch = epoch]
                 closes == [n EXCEPT !.flight = {}]
      <3>1. DeviceOK(n)
        BY DEF IInv, NotesInv
      <3>2. DeviceOK(learns)
        BY <3>1, LearnOK DEF IInv
      <3>3. DeviceOK(closes)
        BY <3>1, FlightOK, FS_EmptySet DEF IInv
      <3>4. note'[m] \in {n, learns, closes}
        BY DEF SetEpoch
      <3> QED BY <3>1, <3>2, <3>3, <3>4
    <2>2. note' \in [Members -> Note]
      BY <2>1 DEF SetEpoch, DeviceOK
    <2> QED BY <1>2, <2>1, <2>2, DeviceStays DEF NotesInv, IInv
  <1>5. RestInv'
    BY NoRotationType DEF SetEpoch, IInv, RestInv, bounds
  <1> QED BY <1>2, <1>3, <1>4, <1>5 DEF IInv
-----------------------------------------------------------------------------
(* The theorems *)

LEMMA InitIInv == Init => IInv
  <1> SUFFICES ASSUME Init PROVE IInv
    OBVIOUS
  <1>1. epoch = 1 /\ HeadSeq = 0 /\ UpTo(HeadSeq) = {}
    BY DEF Init, ServerInit, HeadSeq, UpTo
  <1>2. ServerTypeOK
    <2>1. [from |-> 0, roles |-> FirstRoles] \in List
      BY RoomAssumption DEF List
    <2>2. lists \in Seq(List) /\ Len(lists) = 1
      BY <2>1 DEF Init, ServerInit
    <2>3. entries \in Seq(Entry)
      BY DEF Init, ServerInit
    <2>4. snapshot \in Snapshot
      BY RoomAssumption DEF Init, ServerInit, Snapshot
    <2> QED BY <1>1, <2>2, <2>3, <2>4 DEF Init, ServerInit, ServerTypeOK
  <1>3. LogInv
    <2>1. SnapshotOK(snapshot)
      BY <1>1, <1>2 DEF SnapshotOK, Covers, Init, ServerInit, ServerTypeOK, UpTo
    <2> QED BY <1>1, <1>2, <2>1 DEF LogInv
  <1>4. PostsInv
    BY FS_EmptySet DEF PostsInv, Init
  <1>5. NotesInv
    <2>1. DeviceOK(NoteOf(0)) /\ DeviceOK(NoteOf(1))
      BY <1>1, <1>3, NewNoteOK
    <2> QED BY <2>1 DEF NotesInv, Init, DeviceOK
  <1>6. SocketsInv
    BY NoSocketOK DEF SocketsInv, Init, SocketOK
  <1>7. RestInv
    BY NoRotationType DEF RestInv, Init, Idle, Sync, Stages
  <1> QED BY <1>3, <1>4, <1>5, <1>6, <1>7 DEF IInv

LEMMA StepIInv == IInv /\ [Next]_vars => IInv'
  <1> SUFFICES ASSUME IInv, [Next]_vars PROVE IInv'
    OBVIOUS
  <1>1. ASSUME UNCHANGED vars PROVE IInv'
    BY <1>1, RotationStep DEF vars, IInv, RestInv
  <1>2. ASSUME NEW m \in Members, NEW kind \in {"u", "c"}, Write(m, kind) PROVE IInv'
    BY <1>2, WriteStep
  <1>3. ASSUME NEW m \in Members, SyncStep(m) \/ Compact(m) \/ LoseAnswer(m) PROVE IInv'
    <2>1. CASE Pull(m)
      BY <2>1, PullStep
    <2>2. CASE PushDropped(m)
      BY <2>2, PushDroppedStep
    <2>3. CASE Push(m)
      BY <2>3, PushStep
    <2>4. CASE NothingToPush(m)
      BY <2>4, StopStep DEF NothingToPush, bounds, IInv, RestInv
    <2>5. CASE Compact(m)
      BY <2>5, CompactStep DEF Compact
    <2>6. CASE LoseAnswer(m)
      BY <2>6, StopStep DEF LoseAnswer, IInv, RestInv
    <2> QED BY <1>3, <2>1, <2>2, <2>3, <2>4, <2>5, <2>6 DEF SyncStep
  <1>4. ASSUME NEW m \in Members, Hear(m) \/ Connect(m) \/ SendFrame(m)
        PROVE  IInv'
    BY <1>4, HearStoredStep, HearErrorStep, ConnectStep, SendFrameStep DEF Hear
  <1>5. ASSUME NEW m \in Members, Refresh(m) \/ Join(m) \/ Disconnect(m) \/ Crash(m)
        PROVE  IInv'
    BY <1>5, RefreshStep, JoinStep, DisconnectStep, CrashStep
  <1>6. ASSUME Room PROVE IInv'
    BY <1>6, TakeFrameStep, StoreStep, TellStep DEF Room
  <1>7. ASSUME People \/ LoseEpoch PROVE IInv'
    <2>1. LoseEpoch => IInv'
      BY NoRotationType, RotationStep DEF LoseEpoch, IInv, RestInv
    <2> QED BY <1>7, <2>1, NewEpochStep, SetEpochStep DEF People
  <1>8. ASSUME NEW roles \in [Members -> Roles], SignEpoch(roles) PROVE IInv'
    BY <1>8, SignEpochStep
  <1> QED BY <1>1, <1>2, <1>3, <1>4, <1>5, <1>6, <1>7, <1>8 DEF Next

\* The invariant the others follow from: every place an entry, a text or a
\* role waits holds what the room's one log says, in every state.
THEOREM Invariance == Spec => []IInv
  <1>1. Init => IInv
    BY InitIInv
  <1>2. IInv /\ [Next]_vars => IInv'
    BY StepIInv
  <1> QED BY <1>1, <1>2, PTL DEF Spec

\* The notes, the room and what is on its way between them have their types,
\* for any members, roles and bounds.
THEOREM TypeCorrect == Spec => []TypeOK
  <1>1. IInv => TypeOK
    BY IInvImplies
  <1> QED BY <1>1, Invariance, PTL

\* Whatever reaches a device, by its socket, by a page or in a snapshot, in
\* whatever order and through restarts and changes of epoch, the text of a
\* device that merged up to a seq holds every update up to it.
THEOREM MergedTextIsWhole == Spec => []MergedIsInText
  <1>1. IInv => MergedIsInText
    BY IInvImplies
  <1> QED BY <1>1, Invariance, PTL

\* What the room stored and members take stays readable: compaction drops an
\* update only when the snapshot has it, and never a comment.
THEOREM StoredIsKept == Spec => []NothingStoredIsLost
  <1>1. IInv => NothingStoredIsLost
    BY IInvImplies
  <1> QED BY <1>1, Invariance, PTL
=============================================================================
