------------------------- MODULE ReplicatedLog_proofs --------------------------
(***************************************************************************)
(* A shared note keeps the promises of ReplicatedLog, and nothing leaves   *)
(* an outbox unstored: for any members, roles and bounds.                  *)
(***************************************************************************)
EXTENDS NoteLog_proofs

-----------------------------------------------------------------------------
(* The inductive invariant: what names, texts and counters add to IInv *)

\* The updates of the log up to a position.
InLog(base) == {entries[seq].id : seq \in {s \in UpTo(base) : IsUpdate(s)}}

\* What a device wrote to the text and the log has not answered for.
Own(n) == {o.id : o \in {w \in n.outbox : w.kind = "u"}}

\* A write's name stays its own: in outboxes, on the way and in the log.
Name(e) == [id |-> e.id, kind |-> e.kind]
Names ==
    (UNION {note[m].outbox : m \in Members})
    \cup {Name(p.e) : p \in posts} \cup {Name(entries[seq]) : seq \in UpTo(HeadSeq)}

NamesInv == \A a \in Names : a.id <= written /\ \A b \in Names : a.id = b.id => a = b

\* Whoever sealed an entry might, in the epoch it is sealed for.
Allowed(e) == MayWrite(lists[e.epoch].roles[e.by], e.kind)
AllowedInv ==
    /\ \A p \in posts : Allowed(p.e) /\ (p.at = "stored" => entries[p.seq] = p.e)
    /\ \A seq \in UpTo(HeadSeq) : Allowed(entries[seq])

\* An envelope's counter tells which write it carries.
FlightNamed(m, f) ==
    /\ \A p \in posts : p.e.by = m /\ p.e.nr = f.nr => p.e.id = f.id
    /\ \A seq \in UpTo(HeadSeq) :
          entries[seq].by = m /\ entries[seq].nr = f.nr => entries[seq].id = f.id
AwaitsNamed(m, s) ==
    s.at = "sent" => \A p \in posts : p.http /\ p.e.by = m /\ p.e.nr = s.nr => p.e.id = s.id
CountersInv ==
    \A m \in Members : (\A f \in note[m].flight : FlightNamed(m, f)) /\ AwaitsNamed(m, sync[m])

\* No text has more than the log and the device's own writes.
FromLog(s) == s.doc \subseteq InLog(s.base)
TextOK(n) ==
    /\ n.doc \subseteq InLog(HeadSeq) \cup Own(n)
    /\ n.pending # NoSnapshot => FromLog(n.pending)
    /\ n.epoch = 0 => n.outbox = {}
TextInv == FromLog(snapshot) /\ \A m \in Members : TextOK(note[m])

RInv == NamesInv /\ AllowedInv /\ CountersInv /\ TextInv

-----------------------------------------------------------------------------
(* The log as ReplicatedLog sees it *)

LEMMA EntryType ==
    ASSUME LogInv, NEW seq \in UpTo(HeadSeq)
    PROVE  /\ entries[seq] \in Entry /\ entries[seq].id \in Ids /\ entries[seq].id # 0
           /\ entries[seq].epoch \in 1..epoch
  <1>1. entries[seq] \in Entry /\ entries[seq].epoch \in 1..epoch
    BY DEF LogInv, ServerTypeOK, UpTo, HeadSeq
  <1> QED BY <1>1, RoomAssumption DEF Entry, Ids

LEMMA AllowedCounts ==
    ASSUME LogInv, AllowedInv, NEW seq \in UpTo(HeadSeq)
    PROVE  Counts(entries[seq].epoch, seq)
  <1>1. entries[seq].epoch \in Nat /\ entries[seq].kind \in {"u", "c"}
    BY EntryType DEF Entry
  <1> QED BY <1>1 DEF AllowedInv, Allowed, MayWrite, Counts, PastItsEpoch

LEMMA LogSays ==
    ASSUME LogInv, AllowedInv
    PROVE  /\ TheLog \in Seq(Ids \cup {0}) /\ Len(TheLog) = HeadSeq /\ HeadSeq \in Nat
           /\ \A seq \in UpTo(HeadSeq) :
                 TheLog[seq] = IF IsUpdate(seq) THEN entries[seq].id ELSE 0
  <1>1. HeadSeq \in Nat
    BY DEF LogInv, ServerTypeOK, HeadSeq
  <1>2. \A seq \in UpTo(HeadSeq) : TheLog[seq] = IF IsUpdate(seq) THEN entries[seq].id ELSE 0
    BY AllowedCounts DEF TheLog
  <1>3. TheLog \in [1..HeadSeq -> Ids \cup {0}]
    BY EntryType DEF TheLog, UpTo
  <1>4. TheLog \in Seq(Ids \cup {0})
    BY <1>1, <1>3, SeqDef
  <1>5. Len(TheLog) = HeadSeq
    <2>1. 1..Len(TheLog) = 1..HeadSeq /\ Len(TheLog) \in Nat
      BY <1>3, <1>4, LenProperties
    <2> QED BY <1>1, <2>1
  <1> QED BY <1>1, <1>2, <1>4, <1>5

LEMMA UpdatesAre ==
    ASSUME LogInv, AllowedInv, NEW S \in SUBSET UpTo(HeadSeq)
    PROVE  Log!Updates(S) = {entries[seq].id : seq \in {s \in S : IsUpdate(s)}}
  <1>1. \A seq \in S : TheLog[seq] = IF IsUpdate(seq) THEN entries[seq].id ELSE 0
    BY LogSays
  <1>2. \A seq \in S : entries[seq].id # 0
    BY EntryType
  <1> QED BY <1>1, <1>2 DEF Log!Updates

-----------------------------------------------------------------------------
(* The steps of ReplicatedLog *)

LEMMA SameLog ==
    UNCHANGED <<epoch, lists, entries>> => UNCHANGED <<TheLog, LateSeqs>>
  BY DEF TheLog, LateSeqs, HeadSeq, IsUpdate, IsLate, Counts, PastItsEpoch

LEMMA SameTexts ==
    ASSUME \A m \in Members : note'[m].applied = note[m].applied /\ note'[m].doc = note[m].doc
    PROVE  UNCHANGED <<Applied, Texts>>
  BY DEF Applied, Texts

LEMMA LogStutters ==
    ASSUME UNCHANGED <<epoch, lists, entries>>,
           \A m \in Members : note'[m].applied = note[m].applied /\ note'[m].doc = note[m].doc
    PROVE  UNCHANGED Log!vars
  BY SameLog, SameTexts DEF Log!vars

LEMMA LogRestarts ==
    ASSUME UNCHANGED <<epoch, lists, entries>>, NEW m \in Members, NEW n,
           note \in [Members -> Note], note' = [note EXCEPT ![m] = n], n.applied = 0, n.doc = {}
    PROVE  Log!Restart(m)
  <1>1. UNCHANGED <<TheLog, LateSeqs>>
    BY SameLog
  <1>2. Applied' = [Applied EXCEPT ![m] = 0] /\ Texts' = [Texts EXCEPT ![m] = {}]
    BY DEF Applied, Texts
  <1> QED BY <1>1, <1>2 DEF Log!Restart

LEMMA LogWrites ==
    ASSUME UNCHANGED <<epoch, lists, entries>>, NEW m \in Members, NEW id \in Ids,
           \A k \in Members : id \notin note[k].doc,
           \A k \in Members : note'[k].applied = note[k].applied,
           \A k \in Members : note'[k].doc = IF k = m THEN note[k].doc \cup {id} ELSE note[k].doc
    PROVE  Log!Write(m)
  <1>1. UNCHANGED <<TheLog, LateSeqs>>
    BY SameLog
  <1>2. Applied' = Applied /\ Texts' = [Texts EXCEPT ![m] = @ \cup {id}]
    BY DEF Applied, Texts
  <1>3. \A k \in Members : id \notin Texts[k]
    BY DEF Texts
  <1> QED BY <1>1, <1>2, <1>3 DEF Log!Write

\* A merge reads on: everything that is not late, and late entries at will.
LEMMA LogReads ==
    ASSUME LogInv, AllowedInv, UNCHANGED <<epoch, lists, entries>>,
           NEW m \in Members, NEW n, DeviceOK(n), NEW o, DeviceOK(o),
           note \in [Members -> Note], note[m].applied = n.applied, note[m].doc = n.doc,
           n.applied <= o.applied, n.epoch <= o.epoch, n.doc \subseteq o.doc,
           o.doc \subseteq n.doc \cup InLog(o.applied),
           \A k \in Members : note'[k].applied = IF k = m THEN o.applied ELSE note[k].applied,
           \A k \in Members : note'[k].doc = IF k = m THEN o.doc ELSE note[k].doc
    PROVE  Log!Read(m)
  <1> DEFINE k == o.applied
             read == (n.applied + 1)..k
             some == o.doc \ (n.doc \cup Log!Updates(read \ LateSeqs))
  <1>1. UNCHANGED <<TheLog, LateSeqs>>
    BY SameLog
  <1>2. n.applied \in Nat /\ k \in Nat /\ k <= HeadSeq /\ HeadSeq \in Nat /\ Len(TheLog) = HeadSeq
    BY LogSays DEF DeviceOK, Note
  <1>3. Applied[m] = n.applied /\ Texts[m] = n.doc
    BY DEF Applied, Texts
  <1>4. Applied' = [Applied EXCEPT ![m] = k] /\ Texts' = [Texts EXCEPT ![m] = o.doc]
    BY DEF Applied, Texts
  <1>5. read \subseteq UpTo(HeadSeq) /\ 1..k = UpTo(k) /\ UpTo(k) \subseteq UpTo(HeadSeq)
    BY <1>2 DEF UpTo
  \* What has an entry that is not late, has it.
  <1>6. ASSUME NEW x, DeviceOK(x), x.epoch <= epoch, NEW seq \in UpTo(x.applied),
               seq \notin LateSeqs, IsUpdate(seq)
        PROVE  entries[seq].id \in x.doc
    <2>1. seq \in UpTo(HeadSeq) /\ x.epoch \in Nat /\ epoch \in Nat
      BY <1>2, <1>6 DEF DeviceOK, Note, UpTo, LogInv, ServerTypeOK
    <2>2. entries[seq].epoch \in Nat /\ entries[seq].epoch <= x.epoch
      BY <1>6, <2>1, EntryType DEF DeviceOK, Covers
    <2>3. ~PastItsEpoch(epoch, entries[seq].epoch, seq)
      BY <1>6, <2>1 DEF LateSeqs, IsLate
    <2>4. Counts(x.epoch, seq)
      BY <2>1, <2>2, <2>3, AllowedCounts, <1>6 DEF Counts, PastItsEpoch
    <2> QED BY <1>6, <2>4 DEF DeviceOK, Covers
  <1>7. Log!Updates(read \ LateSeqs) \subseteq o.doc
    <2>1. read \ LateSeqs \in SUBSET UpTo(HeadSeq) /\ read \subseteq UpTo(o.applied)
      BY <1>2, <1>5 DEF UpTo
    <2>2. \A seq \in read \ LateSeqs : IsUpdate(seq) => entries[seq].id \in o.doc
      BY <1>6, <2>1 DEF DeviceOK
    <2> QED BY <2>1, <2>2, UpdatesAre
  <1>8. some \subseteq Log!Updates(UpTo(k) \cap LateSeqs)
    <2> SUFFICES ASSUME NEW id \in some PROVE id \in Log!Updates(UpTo(k) \cap LateSeqs)
      OBVIOUS
    <2>1. PICK seq \in UpTo(k) : IsUpdate(seq) /\ id = entries[seq].id
      BY DEF InLog
    <2>2. seq \in LateSeqs
      <3> SUFFICES ASSUME seq \notin LateSeqs PROVE FALSE
        OBVIOUS
      <3>1. CASE seq \in read
        <4>1. id \in Log!Updates(read \ LateSeqs)
          BY <1>5, <2>1, <3>1, UpdatesAre
        <4> QED BY <4>1
      <3>2. CASE seq \notin read
        <4>1. seq \in UpTo(n.applied)
          BY <1>2, <2>1, <3>2 DEF UpTo
        <4> QED BY <1>6, <2>1, <4>1 DEF DeviceOK
      <3> QED BY <3>1, <3>2
    <2>3. UpTo(k) \cap LateSeqs \in SUBSET UpTo(HeadSeq)
      BY <1>5
    <2> QED BY <2>1, <2>2, <2>3, UpdatesAre
  <1>9. o.doc = n.doc \cup Log!Updates(read \ LateSeqs) \cup some
    BY <1>7
  <1>10. k \in n.applied..Len(TheLog)
    BY <1>2
  <1> QED BY <1>1, <1>3, <1>4, <1>5, <1>8, <1>9, <1>10 DEF Log!Read

\* A stored entry is the log's next; what was late stays late, and nothing
\* else becomes it.
LEMMA LogStores ==
    ASSUME LogInv, AllowedInv, LogInv', AllowedInv',
           UNCHANGED <<epoch, lists, note>>, NEW e, entries' = Append(entries, e)
    PROVE  Log!Store
  <1>1. /\ TheLog \in Seq(Ids \cup {0}) /\ Len(TheLog) = HeadSeq /\ HeadSeq \in Nat
        /\ \A seq \in UpTo(HeadSeq) : TheLog[seq] = IF IsUpdate(seq) THEN entries[seq].id ELSE 0
    BY LogSays
  <1>2. /\ entries \in Seq(Entry) /\ entries' \in Seq(Entry) /\ Len(entries) \in Nat
        /\ HeadSeq = Len(entries) /\ HeadSeq' = Len(entries')
    BY DEF LogInv, ServerTypeOK, HeadSeq
  <1>3. /\ HeadSeq' = HeadSeq + 1 /\ \A seq \in UpTo(HeadSeq) : entries'[seq] = entries[seq]
        /\ entries'[HeadSeq + 1] = e
    <2>1. entries = [i \in 1..Len(entries) |-> entries[i]]
      BY <1>2, LenProperties
    <2> QED BY <1>2 DEF UpTo
  <1> DEFINE x == TheLog'[HeadSeq + 1]
  <1>4. /\ TheLog' \in Seq(Ids \cup {0}) /\ Len(TheLog') = HeadSeq + 1
        /\ \A seq \in UpTo(HeadSeq + 1) : TheLog'[seq] = IF IsUpdate(seq)' THEN entries'[seq].id ELSE 0
    <2>1. (/\ TheLog \in Seq(Ids \cup {0}) /\ Len(TheLog) = HeadSeq /\ HeadSeq \in Nat
           /\ \A seq \in UpTo(HeadSeq) : TheLog[seq] = IF IsUpdate(seq) THEN entries[seq].id ELSE 0)'
      BY LogSays, PTL
    <2> QED BY <2>1, <1>3
  <1>5. x \in Ids \cup {0}
    BY <1>1, <1>4, ElementOfSeq
  <1>6. TheLog' = Append(TheLog, x)
    <2>1. ASSUME NEW seq \in UpTo(HeadSeq) PROVE TheLog'[seq] = TheLog[seq]
      <3>1. seq \in UpTo(HeadSeq + 1)
        BY <1>1 DEF UpTo
      <3>3. entries'[seq] = entries[seq]
        BY <1>3
      <3>2. IsUpdate(seq)' <=> IsUpdate(seq)
        BY <3>3 DEF IsUpdate
      <3> QED BY <1>1, <1>4, <3>1, <3>2, <3>3
    <2>2. /\ Append(TheLog, x) \in Seq(Ids \cup {0}) /\ Len(Append(TheLog, x)) = HeadSeq + 1
          /\ \A seq \in UpTo(HeadSeq) : Append(TheLog, x)[seq] = TheLog[seq]
          /\ Append(TheLog, x)[HeadSeq + 1] = x
      BY <1>1, <1>5, AppendProperties DEF UpTo
    <2>3. \A seq \in 1..HeadSeq + 1 : TheLog'[seq] = Append(TheLog, x)[seq]
      BY <1>1, <2>1, <2>2 DEF UpTo
    <2> HIDE DEF x
    <2> QED BY <1>4, <2>2, <2>3, SeqEqual
  <1>7. LateSeqs' \in {LateSeqs, LateSeqs \cup {Len(TheLog) + 1}}
    <2>1. \A seq \in UpTo(HeadSeq) : IsLate(seq)' <=> IsLate(seq)
      BY <1>3 DEF IsLate, PastItsEpoch
    <2>2. UpTo(HeadSeq)' = UpTo(HeadSeq) \cup {HeadSeq + 1}
      BY <1>1, <1>3 DEF UpTo
    <2> QED BY <1>1, <2>1, <2>2 DEF LateSeqs
  <1>8. UNCHANGED <<Applied, Texts>>
    BY SameTexts
  <1> HIDE DEF x
  <1> QED BY <1>5, <1>6, <1>7, <1>8 DEF Log!Store

LEMMA LogEndsEpoch ==
    ASSUME LogInv, AllowedInv, LogInv', AllowedInv', UNCHANGED <<entries, note>>, LogGrows
    PROVE  Log!EndEpoch
  <1>1. HeadSeq' = HeadSeq /\ HeadSeq \in Nat /\ Len(TheLog) = HeadSeq /\ epoch \in Nat /\ epoch' \in Nat
    BY LogSays DEF HeadSeq, LogInv, ServerTypeOK
  <1>2. TheLog' = TheLog
    <2>1. ASSUME NEW seq \in UpTo(HeadSeq)
          PROVE  Counts(entries[seq].epoch, seq) /\ Counts(entries[seq].epoch, seq)'
      <3>1. Counts(entries[seq].epoch, seq)
        BY AllowedCounts
      <3>2. lists'[entries[seq].epoch] = lists[entries[seq].epoch]
        BY EntryType DEF LogGrows
      <3>3. entries[seq].epoch \in Nat
        BY EntryType
      <3> QED BY <3>1, <3>2, <3>3 DEF Counts, PastItsEpoch
    <2>2. \A seq \in UpTo(HeadSeq) : (Counts(entries[seq].epoch, seq)' <=> Counts(entries[seq].epoch, seq))
      BY <2>1
    <2> QED BY <1>1, <2>2 DEF TheLog, IsUpdate, UpTo
  <1>3. LateSeqs \subseteq LateSeqs' /\ LateSeqs' \subseteq 1..Len(TheLog)
    <2>1. ASSUME NEW seq \in UpTo(HeadSeq), IsLate(seq) PROVE IsLate(seq)'
      <3>1. entries[seq].epoch \in 1..epoch
        BY EntryType
      <3>2. entries[seq].epoch + 1 \in 1..epoch
        BY <1>1, <2>1, <3>1 DEF IsLate, PastItsEpoch
      <3> QED BY <1>1, <2>1, <3>1, <3>2 DEF IsLate, PastItsEpoch, LogGrows
    <2> QED BY <1>1, <2>1 DEF LateSeqs, UpTo
  <1>4. UNCHANGED <<Applied, Texts>>
    BY SameTexts
  <1> QED BY <1>2, <1>3, <1>4 DEF Log!EndEpoch

-----------------------------------------------------------------------------
(* What a step leaves of the invariant *)

LEMMA AllowedStays ==
    ASSUME LogInv, LogGrows, NEW e, e.epoch \in 1..epoch, Allowed(e)
    PROVE  Allowed(e)'
  BY DEF Allowed, LogGrows

LEMMA InLogGrows ==
    ASSUME LogInv, LogGrows, NEW base \in 0..HeadSeq
    PROVE  /\ InLog(base) = InLog(base)'
           /\ InLog(HeadSeq) \subseteq InLog(HeadSeq)'
  <1>1. HeadSeq \in Nat /\ HeadSeq' \in Nat /\ HeadSeq <= HeadSeq'
    BY DEF LogGrows, LogInv, ServerTypeOK, HeadSeq
  <1>2. ASSUME NEW k \in 0..HeadSeq PROVE InLog(k) = InLog(k)'
    <2>1. UpTo(k) \subseteq UpTo(HeadSeq)
      BY <1>1 DEF UpTo
    <2>2. \A seq \in UpTo(k) : entries'[seq] = entries[seq]
      BY <2>1 DEF LogGrows
    <2> QED BY <2>2 DEF InLog, IsUpdate, UpTo
  <1>3. \A k \in Nat, j \in Nat : k <= j => InLog(k)' \subseteq InLog(j)'
    BY DEF InLog, UpTo
  <1> QED BY <1>1, <1>2, <1>3

LEMMA InLogMore ==
    ASSUME NEW j \in Nat, NEW k \in Nat, j <= k
    PROVE  InLog(j) \subseteq InLog(k)
  BY DEF InLog, UpTo

LEMMA TextStays ==
    ASSUME LogInv, LogGrows, NEW n, DeviceOK(n), TextOK(n)
    PROVE  TextOK(n)'
  <1>1. n.pending # NoSnapshot => n.pending.base \in 0..HeadSeq
    BY DEF DeviceOK, SnapshotOK, Snapshot, LogInv, ServerTypeOK, HeadSeq
  <1>2. InLog(HeadSeq) \subseteq InLog(HeadSeq)'
    <2>1. 0 \in 0..HeadSeq
      BY DEF LogInv, ServerTypeOK, HeadSeq
    <2> QED BY <2>1, InLogGrows
  <1>3. n.pending # NoSnapshot => FromLog(n.pending)'
    BY <1>1, InLogGrows DEF TextOK, FromLog
  <1> QED BY <1>2, <1>3 DEF TextOK, Own

\* What of an outbox a device may drop.
MayDrop(m, n, o) ==
    \A w \in n.outbox \ o.outbox :
        IsStored(w) \/ ~MayWrite(lists[n.epoch].roles[m], w.kind) \/ o.epoch = 0

DeviceGoes(m, n, o) ==
    o.outbox \subseteq n.outbox /\ o.flight \subseteq n.flight /\ TextOK(o) /\ MayDrop(m, n, o)

\* Envelopes go on or are gone; nothing is sealed.
PostsGo ==
    \A p \in posts' : \E q \in posts :
        p.e = q.e /\ p.http = q.http /\ (p.at = "stored" => p = q)

\* No sync awaits another answer than before.
SyncsGo ==
    \A m \in Members : sync'[m].at = "sent" =>
        sync[m].at = "sent" /\ sync'[m].nr = sync[m].nr /\ sync'[m].id = sync[m].id

Leaves == \A m \in Members : MayDrop(m, note[m], note'[m])

\* A step that neither writes, seals nor stores.
LEMMA QuietStep ==
    ASSUME IInv, RInv, IInv', LogGrows, UNCHANGED <<entries, written>>, FromLog(snapshot)',
           PostsGo, SyncsGo, \A m \in Members : DeviceGoes(m, note[m], note'[m])
    PROVE  RInv' /\ Leaves
  <1>1. HeadSeq' = HeadSeq /\ LogInv /\ LogInv'
    BY DEF HeadSeq, IInv
  <1>2. Names' \subseteq Names
    <2>1. \A p \in posts' : \E q \in posts : Name(p.e) = Name(q.e)
      BY DEF PostsGo
    <2>2. \A m \in Members : note'[m].outbox \subseteq note[m].outbox
      BY DEF DeviceGoes
    <2>3. \A seq \in UpTo(HeadSeq)' : Name(entries'[seq]) = Name(entries[seq]) /\ seq \in UpTo(HeadSeq)
      BY <1>1 DEF UpTo
    <2> HIDE DEF Name
    <2> QED BY <2>1, <2>2, <2>3 DEF Names
  <1>3. NamesInv'
    BY <1>2 DEF NamesInv, RInv
  <1>4. AllowedInv'
    <2>1. ASSUME NEW p \in posts' PROVE Allowed(p.e)' /\ (p.at = "stored" => entries'[p.seq] = p.e)
      <3>1. PICK q \in posts : p.e = q.e /\ (p.at = "stored" => p = q)
        BY DEF PostsGo
      <3>2. Allowed(q.e) /\ q.e.epoch \in 1..epoch /\ (q.at = "stored" => entries[q.seq] = q.e)
        BY DEF RInv, AllowedInv, IInv, PostsInv, PostOK
      <3>3. Allowed(q.e)'
        BY <1>1, <3>2, AllowedStays
      <3> QED BY <3>1, <3>2, <3>3 DEF Allowed
    <2>2. ASSUME NEW seq \in UpTo(HeadSeq)' PROVE Allowed(entries[seq])'
      <3>1. seq \in UpTo(HeadSeq) /\ entries'[seq] = entries[seq]
        BY <1>1 DEF UpTo
      <3>2. Allowed(entries[seq]) /\ entries[seq].epoch \in 1..epoch
        BY <1>1, <3>1, EntryType DEF RInv, AllowedInv
      <3> QED BY <3>1, <3>2 DEF Allowed, LogGrows
    <2> QED BY <2>1, <2>2 DEF AllowedInv
  <1>5. CountersInv'
    <2>1. ASSUME NEW m \in Members, NEW f \in note'[m].flight PROVE FlightNamed(m, f)'
      <3>1. FlightNamed(m, f)
        BY DEF DeviceGoes, RInv, CountersInv
      <3> QED BY <1>1, <3>1 DEF FlightNamed, PostsGo, UpTo
    <2>2. ASSUME NEW m \in Members PROVE AwaitsNamed(m, sync[m])'
      <3>1. AwaitsNamed(m, sync[m])
        BY DEF RInv, CountersInv
      <3> QED BY <3>1 DEF AwaitsNamed, PostsGo, SyncsGo
    <2> QED BY <2>1, <2>2 DEF CountersInv
  <1>6. TextInv'
    <2>1. ASSUME NEW n, TextOK(n) PROVE TextOK(n)'
      BY <1>1, <2>1 DEF TextOK, FromLog, InLog, IsUpdate, UpTo, Own
    <2> QED BY <2>1 DEF TextInv, DeviceGoes
  <1> QED BY <1>3, <1>4, <1>5, <1>6 DEF RInv, Leaves, DeviceGoes

-----------------------------------------------------------------------------
(* Merging *)

\* What a merge does to a device: it reads on, and its outbox loses what the
\* log has.
Reads(n, o) ==
    /\ n.applied <= o.applied /\ n.epoch = o.epoch
    /\ n.doc \subseteq o.doc /\ o.doc \subseteq n.doc \cup InLog(o.applied)
    /\ o.outbox \subseteq n.outbox /\ \A w \in n.outbox \ o.outbox : IsStored(w)
    /\ o.flight \subseteq n.flight
    /\ TextOK(o)

\* What is merged is of the log, up to the last of it.
LEMMA MergedFromLog ==
    ASSUME LogInv, NEW n, DeviceOK(n), TextOK(n), ~WaitsForKey(n)
    PROVE  /\ n.applied <= Last(n)
           /\ (IF TakesPending(n) THEN n.pending.doc ELSE {}) \subseteq InLog(Last(n))
           /\ IdsOf(Merged(n), "u") \subseteq InLog(Last(n))
           /\ \A seq \in Merged(n) : seq \in UpTo(HeadSeq)
  <1>1. n.applied \in Nat /\ HeadSeq \in Nat
    BY DEF DeviceOK, Note, LogInv, ServerTypeOK, HeadSeq
  <1>2. Start(n) \in n.applied..HeadSeq /\ Last(n) \in 0..HeadSeq /\ Last(n) >= Start(n)
    BY StartCovers, LastCovers
  <1>3. (IF TakesPending(n) THEN n.pending.doc ELSE {}) \subseteq InLog(Last(n))
    <2> SUFFICES ASSUME TakesPending(n) PROVE n.pending.doc \subseteq InLog(Last(n))
      OBVIOUS
    <2>1. Start(n) = n.pending.base /\ n.pending.doc \subseteq InLog(n.pending.base)
      BY DEF Start, TakesPending, TextOK, FromLog
    <2>2. InLog(Start(n)) \subseteq InLog(Last(n))
      BY <1>1, <1>2, InLogMore
    <2> QED BY <2>1, <2>2
  <1>4. Merged(n) \subseteq UpTo(HeadSeq) /\ Merged(n) \subseteq UpTo(Last(n))
    BY <1>1, <1>2 DEF Merged, DeviceOK, UpTo
  <1>5. IdsOf(Merged(n), "u") \subseteq InLog(Last(n))
    BY <1>4 DEF IdsOf, InLog, IsUpdate
  <1> QED BY <1>1, <1>2, <1>3, <1>4, <1>5

LEMMA MergeReads ==
    ASSUME LogInv, RInv, NEW m \in Members, NEW n, DeviceOK(n), TextOK(n),
           \A f \in n.flight : FlightNamed(m, f), n.outbox \subseteq Names
    PROVE  Reads(n, Merge(m, n))
  <1>1. CASE WaitsForKey(n)
    <2>1. Merge(m, n) = n /\ n.applied \in Nat
      BY <1>1 DEF Merge, DeviceOK, Note
    <2> QED BY <2>1 DEF Reads
  <1>2. CASE ~WaitsForKey(n)
    <2> DEFINE taken == IF TakesPending(n) THEN n.pending.doc ELSE {}
               doc == n.doc \cup taken \cup IdsOf(Merged(n), "u")
               echoed == EchoOf(m, n, Merged(n))
               outbox == {o \in n.outbox : \A f \in echoed : o.id # f.id}
               inbox == {seq \in n.inbox : seq > Last(n)}
               comments == n.comments \cup IdsOf(Merged(n), "c")
               merged == [n EXCEPT !.pending = NoSnapshot, !.applied = Last(n), !.inbox = inbox,
                                   !.doc = doc, !.comments = comments,
                                   !.flight = @ \ echoed, !.outbox = outbox]
    <2>1. Merge(m, n) = merged
      BY <1>2, Zenon DEF Merge
    <2>2. n \in Note
      BY DEF DeviceOK
    <2>3. /\ n.applied <= Last(n) /\ taken \subseteq InLog(Last(n))
          /\ IdsOf(Merged(n), "u") \subseteq InLog(Last(n))
          /\ \A seq \in Merged(n) : seq \in UpTo(HeadSeq)
      BY <1>2, MergedFromLog
    <2>4. /\ merged.epoch = n.epoch /\ merged.applied = Last(n) /\ merged.doc = doc
          /\ merged.flight = n.flight \ echoed /\ merged.outbox = outbox
          /\ merged.pending = NoSnapshot
      BY <2>2 DEF Note
    \* An echo is of the write its counter was given for.
    <2>5. ASSUME NEW w \in n.outbox \ outbox
          PROVE  \E seq \in UpTo(HeadSeq) : Name(entries[seq]) = w
      <3>1. PICK f \in echoed : w.id = f.id
        OBVIOUS
      <3>2. PICK seq \in Merged(n) : entries[seq].by = m /\ entries[seq].nr = f.nr /\ f \in n.flight
        BY <3>1 DEF EchoOf
      <3>3. seq \in UpTo(HeadSeq) /\ entries[seq].id = w.id
        BY <2>3, <3>1, <3>2 DEF FlightNamed
      <3>4. w \in Names /\ Name(entries[seq]) \in Names
        <4>1. Name(entries[seq]) \in Names
          BY <3>3 DEF Names
        <4> QED BY <4>1
      <3>5. Name(entries[seq]).id = w.id
        BY <3>3 DEF Name
      <3>6. Name(entries[seq]) = w
        BY <3>4, <3>5 DEF RInv, NamesInv
      <3> QED BY <3>3, <3>6
    <2>6. \A w \in n.outbox \ outbox : IsStored(w)
      BY <2>5 DEF IsStored, Name
    <2>7. InLog(Last(n)) \subseteq InLog(HeadSeq)
      <3>1. Last(n) \in 0..HeadSeq
        BY <1>2, LastCovers
      <3>2. HeadSeq \in Nat
        BY DEF LogInv, ServerTypeOK, HeadSeq
      <3> QED BY <3>1, <3>2, InLogMore
    <2>8. doc \subseteq InLog(HeadSeq) \cup {o.id : o \in {w \in outbox : w.kind = "u"}}
      <3> SUFFICES ASSUME NEW id \in Own(n), id \notin {o.id : o \in {w \in outbox : w.kind = "u"}}
                   PROVE  id \in InLog(HeadSeq)
        BY <2>3, <2>7 DEF TextOK
      <3>1. PICK w \in n.outbox : w.kind = "u" /\ w.id = id
        BY DEF Own
      <3>2. w \in n.outbox \ outbox
        BY <3>1
      <3>3. PICK seq \in UpTo(HeadSeq) : Name(entries[seq]) = w
        BY <2>5, <3>2
      <3>4. entries[seq].kind = "u" /\ entries[seq].id = id
        BY <3>1, <3>3 DEF Name
      <3> QED BY <3>4 DEF InLog, IsUpdate
    <2>9. outbox \subseteq n.outbox /\ n.doc \subseteq doc /\ doc \subseteq n.doc \cup InLog(Last(n))
      BY <2>3
    <2> HIDE DEF merged, doc, outbox, echoed
    <2>10. TextOK(merged)
      <3>1. merged.doc \subseteq InLog(HeadSeq) \cup Own(merged)
        BY <2>4, <2>8 DEF Own
      <3>2. merged.epoch = 0 => merged.outbox = {}
        BY <2>4, <2>9 DEF TextOK
      <3> QED BY <2>4, <3>1, <3>2 DEF TextOK
    <2>11. Reads(n, merged)
      BY <2>3, <2>4, <2>6, <2>9, <2>10 DEF Reads
    <2> QED BY <2>1, <2>11
  <1> QED BY <1>1, <1>2

-----------------------------------------------------------------------------
(* Kinds of steps *)

Goes == RInv' /\ Leaves /\ (Log!Next \/ UNCHANGED Log!vars)

LEMMA DeviceSame ==
    ASSUME RInv, NEW m \in Members
    PROVE  DeviceGoes(m, note[m], note[m])
  BY DEF DeviceGoes, MayDrop, RInv, TextInv

LEMMA SnapshotSame ==
    ASSUME RInv, UNCHANGED <<entries, snapshot>>
    PROVE  FromLog(snapshot)'
  BY DEF RInv, TextInv, FromLog, InLog, IsUpdate, UpTo

\* No text changes, whatever else is told, lost or refused.
LEMMA ViewStep ==
    ASSUME IInv, RInv, IInv', UNCHANGED <<epoch, lists, entries, written>>, FromLog(snapshot)',
           PostsGo, SyncsGo,
           \A m \in Members : /\ DeviceGoes(m, note[m], note'[m])
                              /\ note'[m].applied = note[m].applied /\ note'[m].doc = note[m].doc
    PROVE  Goes
  <1>1. LogGrows
    BY DEF LogGrows, IInv, LogInv, ServerTypeOK, HeadSeq
  <1>2. RInv' /\ Leaves
    BY <1>1, QuietStep
  <1>3. UNCHANGED Log!vars
    BY LogStutters
  <1> QED BY <1>2, <1>3 DEF Goes

\* One device, in a quiet step.
LEMMA OneDevice ==
    ASSUME IInv, RInv, NEW m \in Members, NEW n, DeviceGoes(m, note[m], n),
           note' = [note EXCEPT ![m] = n]
    PROVE  /\ \A k \in Members : DeviceGoes(k, note[k], note'[k])
           /\ note'[m] = n /\ \A k \in Members \ {m} : note'[k] = note[k]
  <1>1. note'[m] = n /\ \A k \in Members \ {m} : note'[k] = note[k]
    BY DEF IInv, NotesInv
  <1> QED BY <1>1, DeviceSame

LEMMA OneViewStep ==
    ASSUME IInv, RInv, IInv', UNCHANGED <<epoch, lists, entries, snapshot, written>>,
           PostsGo, SyncsGo, NEW m \in Members, NEW n, DeviceGoes(m, note[m], n),
           n.applied = note[m].applied, n.doc = note[m].doc, note' = [note EXCEPT ![m] = n]
    PROVE  Goes
  <1>1. /\ \A k \in Members : DeviceGoes(k, note[k], note'[k])
        /\ note'[m] = n /\ \A k \in Members \ {m} : note'[k] = note[k]
    BY OneDevice
  <1>2. \A k \in Members : note'[k].applied = note[k].applied /\ note'[k].doc = note[k].doc
    BY <1>1
  <1>3. FromLog(snapshot)'
    BY SnapshotSame
  <1> QED BY <1>1, <1>2, <1>3, ViewStep

LEMMA ReadStep ==
    ASSUME IInv, RInv, IInv', UNCHANGED <<epoch, lists, entries, snapshot, written>>,
           PostsGo, SyncsGo, NEW m \in Members, NEW n, DeviceOK(n), NEW o, DeviceOK(o),
           n.applied = note[m].applied, n.doc = note[m].doc, n.outbox = note[m].outbox,
           n.flight = note[m].flight, n.epoch = note[m].epoch,
           Reads(n, o), note' = [note EXCEPT ![m] = o]
    PROVE  Goes
  <1>1. LogGrows
    BY DEF LogGrows, IInv, LogInv, ServerTypeOK, HeadSeq
  <1>2. DeviceGoes(m, note[m], o)
    BY DEF DeviceGoes, MayDrop, Reads
  <1>3. /\ \A k \in Members : DeviceGoes(k, note[k], note'[k])
        /\ note'[m] = o /\ \A k \in Members \ {m} : note'[k] = note[k]
    BY <1>2, OneDevice
  <1>4. RInv' /\ Leaves
    BY <1>1, <1>3, SnapshotSame, QuietStep
  <1>5. Log!Read(m)
    <2>1. n.epoch <= o.epoch
      BY DEF Reads, DeviceOK, Note
    <2>2. /\ \A k \in Members : note'[k].applied = IF k = m THEN o.applied ELSE note[k].applied
          /\ \A k \in Members : note'[k].doc = IF k = m THEN o.doc ELSE note[k].doc
      BY <1>3
    <2> QED BY <2>1, <2>2, LogReads DEF Reads, IInv, RInv, NotesInv
  <1> QED BY <1>4, <1>5 DEF Goes, Log!Next

LEMMA RestartStep ==
    ASSUME IInv, RInv, IInv', UNCHANGED <<epoch, lists, entries, snapshot, written>>,
           PostsGo, SyncsGo, NEW m \in Members, NEW n, DeviceGoes(m, note[m], n),
           n.applied = 0, n.doc = {}, note' = [note EXCEPT ![m] = n]
    PROVE  Goes
  <1>1. LogGrows
    BY DEF LogGrows, IInv, LogInv, ServerTypeOK, HeadSeq
  <1>2. RInv' /\ Leaves
    BY <1>1, OneDevice, SnapshotSame, QuietStep
  <1>3. Log!Restart(m)
    BY LogRestarts DEF IInv, NotesInv
  <1> QED BY <1>2, <1>3 DEF Goes, Log!Next

\* An envelope is sealed: its counter was free, its write waits in the outbox.
LEMMA SealStep ==
    ASSUME IInv, RInv, IInv', UNCHANGED <<epoch, lists, entries, snapshot, written>>,
           NEW m \in Members, Active(m), NEW o \in note[m].outbox, MayWrite(MyRole(m), o.kind),
           NEW p, p.e = Sealed(m, o), p.at # "stored", posts' = posts \cup {p},
           \A k \in Members : k # m \/ ~p.http => sync'[k] = sync[k],
           p.http => sync'[m].nr = p.e.nr /\ sync'[m].id = o.id,
           NEW n, note' = [note EXCEPT ![m] = n],
           n.epoch = note[m].epoch, n.applied = note[m].applied, n.doc = note[m].doc,
           n.outbox = note[m].outbox, n.pending = note[m].pending,
           n.flight \subseteq note[m].flight \cup {[nr |-> p.e.nr, id |-> o.id]}
    PROVE  Goes
  <1>1. LogGrows /\ HeadSeq' = HeadSeq
    BY DEF LogGrows, IInv, LogInv, ServerTypeOK, HeadSeq
  <1>2. note'[m] = n /\ \A k \in Members \ {m} : note'[k] = note[k]
    BY DEF IInv, NotesInv
  <1>3. p.e.id = o.id /\ p.e.kind = o.kind /\ p.e.by = m /\ p.e.epoch = note[m].epoch /\ p.e.nr = Counter(m)
    BY DEF Sealed
  <1>4. /\ \A q \in posts : q.e.by = m => q.e.nr # p.e.nr
        /\ \A seq \in UpTo(HeadSeq) : entries[seq].by = m => entries[seq].nr # p.e.nr
        /\ \A f \in note[m].flight : f.nr # p.e.nr
    BY <1>3, CounterType DEF Used
  <1>5. NamesInv'
    <2>1. Names' \subseteq Names
      <3>1. Name(p.e) = o
        <4>1. o \in Waiting
          BY DEF IInv, NotesInv, Note
        <4> QED BY <1>3, <4>1 DEF Name, Waiting
      <3>2. \A k \in Members : note'[k].outbox = note[k].outbox
        BY <1>2
      <3>3. Name(p.e) \in Names
        BY <3>1 DEF Names
      <3>4. \A seq \in UpTo(HeadSeq)' : entries'[seq] = entries[seq] /\ seq \in UpTo(HeadSeq)
        BY <1>1 DEF UpTo
      <3> QED BY <3>2, <3>3, <3>4 DEF Names
    <2> QED BY <2>1 DEF NamesInv, RInv
  <1>6. AllowedInv'
    <2>1. ASSUME NEW e, Allowed(e) PROVE Allowed(e)'
      BY <2>1 DEF Allowed
    <2>2. Allowed(p.e)
      BY <1>3 DEF Allowed, MyRole
    <2>3. \A seq \in UpTo(HeadSeq)' : seq \in UpTo(HeadSeq) /\ Allowed(entries[seq])'
      BY <1>1 DEF UpTo, RInv, AllowedInv, Allowed
    <2> QED BY <2>1, <2>2, <2>3 DEF RInv, AllowedInv
  <1>7. CountersInv'
    <2>1. ASSUME NEW k \in Members, NEW f \in note'[k].flight PROVE FlightNamed(k, f)'
      <3>1. CASE f \in note[k].flight
        <4>1. FlightNamed(k, f)
          BY <3>1 DEF RInv, CountersInv
        <4>2. k = m => f.nr # p.e.nr
          BY <1>4, <3>1
        <4> QED BY <1>1, <1>3, <4>1, <4>2 DEF FlightNamed, UpTo
      <3>2. CASE f \notin note[k].flight
        <4>1. k = m /\ f.nr = p.e.nr /\ f.id = o.id
          BY <1>2, <2>1, <3>2
        <4> QED BY <1>1, <1>3, <1>4, <4>1 DEF FlightNamed, UpTo
      <3> QED BY <3>1, <3>2
    <2>2. ASSUME NEW k \in Members PROVE AwaitsNamed(k, sync[k])'
      <3>1. AwaitsNamed(k, sync[k])
        BY DEF RInv, CountersInv
      <3>2. CASE k = m /\ p.http
        BY <1>3, <1>4, <3>2 DEF AwaitsNamed
      <3>3. CASE k # m \/ ~p.http
        BY <1>3, <3>1, <3>3 DEF AwaitsNamed
      <3> QED BY <3>2, <3>3
    <2> QED BY <2>1, <2>2 DEF CountersInv
  <1>8. TextInv'
    <2>1. \A k \in Members : TextOK(note'[k])
      BY <1>2 DEF RInv, TextInv, TextOK, Own
    <2>2. ASSUME NEW x, TextOK(x) PROVE TextOK(x)'
      BY <1>1, <2>2 DEF TextOK, FromLog, InLog, IsUpdate, UpTo, Own
    <2>3. FromLog(snapshot)'
      BY <1>1 DEF RInv, TextInv, FromLog, InLog, IsUpdate, UpTo
    <2> QED BY <2>1, <2>2, <2>3 DEF TextInv
  <1>9. Leaves
    BY <1>2 DEF Leaves, MayDrop
  <1>10. UNCHANGED Log!vars
    BY <1>2, LogStutters
  <1> QED BY <1>5, <1>6, <1>7, <1>8, <1>9, <1>10 DEF RInv, Goes

-----------------------------------------------------------------------------
(* The actions *)

LEMMA PostsShrinkGo == posts' \subseteq posts => PostsGo
  BY DEF PostsGo

LEMMA StopGoes ==
    ASSUME IInv, NEW m \in Members, Stop(m)
    PROVE  SyncsGo
  BY DEF Stop, Idle, SyncsGo, IInv, RestInv

LEMMA GoToGoes ==
    ASSUME IInv, NEW m \in Members, NEW stage \in {"pull", "push", "again"}, GoTo(m, stage)
    PROVE  SyncsGo
  BY DEF GoTo, SyncsGo, IInv, RestInv, Sync

\* Steps that leave the notes and what is on its way.
LEMMA RestGoes ==
    ASSUME IInv, RInv, IInv', UNCHANGED <<epoch, lists, entries, snapshot, written, note, posts>>, SyncsGo
    PROVE  Goes
  BY DeviceSame, PostsShrinkGo, SnapshotSame, ViewStep

LEMMA WriteGoes ==
    ASSUME IInv, RInv, IInv', NEW m \in Members, NEW kind \in {"u", "c"}, Write(m, kind)
    PROVE  Goes
  <1> DEFINE id == written + 1
             w == [id |-> id, kind |-> kind]
             n == note[m]
             o == [n EXCEPT !.doc = IF kind = "u" THEN @ \cup {id} ELSE @, !.outbox = @ \cup {w}]
  <1>1. /\ UNCHANGED <<epoch, lists, entries, snapshot, sync, posts>> /\ written' = id
        /\ written < MaxEdits /\ Active(m)
    BY DEF Write, serverVars
  <1>2. LogGrows /\ HeadSeq' = HeadSeq /\ id \in Ids /\ written \in Nat /\ w.id = id /\ w.kind = kind
    BY <1>1, RoomAssumption DEF LogGrows, IInv, LogInv, ServerTypeOK, HeadSeq, RestInv, Ids
  <1>3. n \in Note /\ note \in [Members -> Note]
    BY DEF IInv, NotesInv
  <1>4. /\ note'[m] = o /\ \A k \in Members \ {m} : note'[k] = note[k]
        /\ o.doc = (IF kind = "u" THEN n.doc \cup {id} ELSE n.doc) /\ o.outbox = n.outbox \cup {w}
        /\ o.epoch = n.epoch /\ o.applied = n.applied /\ o.flight = n.flight /\ o.pending = n.pending
    BY <1>3 DEF Write, Note
  <1> HIDE DEF o, w
  \* The name is new.
  <1>5. \A a \in Names : a.id <= written
    BY DEF RInv, NamesInv
  <1>6. Names' = Names \cup {w}
    <2>1. \A seq : entries'[seq] = entries[seq]
      BY <1>1
    <2>2. UNION {note'[k].outbox : k \in Members} = (UNION {note[k].outbox : k \in Members}) \cup {w}
      BY <1>4
    <2> QED BY <1>1, <1>2, <2>2 DEF Names
  <1>7. NamesInv'
    <2>1. \A a \in Names : a.id # id /\ a.id <= id
      <3>1. \A a \in Names : a.id \in Nat
        <4>1. \A k \in Members : \A a \in note[k].outbox : a.id \in Nat
          BY RoomAssumption DEF IInv, NotesInv, Note, Waiting, Ids
        <4>2. \A p \in posts : p.e.id \in Nat
          BY RoomAssumption DEF IInv, PostsInv, PostOK, Post, Entry, Ids
        <4>3. \A seq \in UpTo(HeadSeq) : entries[seq].id \in Nat
          BY EntryType, RoomAssumption DEF IInv, Ids
        <4> QED BY <4>1, <4>2, <4>3 DEF Names, Name
      <3> QED BY <1>2, <1>5, <3>1
    <2>2. \A a \in Names, b \in Names : a.id = b.id => a = b
      BY DEF RInv, NamesInv
    <2>3. id <= id
      BY <1>2
    <2> HIDE DEF id
    <2> QED BY <1>1, <1>2, <1>6, <2>1, <2>2, <2>3 DEF NamesInv
  <1>8. AllowedInv'
    BY <1>1, <1>2 DEF RInv, AllowedInv, Allowed, UpTo
  <1>9. CountersInv'
    <2>1. \A k \in Members : note'[k].flight = note[k].flight
      BY <1>4
    <2> QED BY <1>1, <1>2, <2>1 DEF RInv, CountersInv, FlightNamed, AwaitsNamed, UpTo
  <1>10. TextInv'
    <2>1. TextOK(o)
      <3>1. TextOK(n)
        BY DEF RInv, TextInv
      <3>2. Own(n) \subseteq Own(o) /\ (kind = "u" => id \in Own(o))
        BY <1>2, <1>4 DEF Own
      <3>3. n.epoch # 0
        BY <1>1, <1>3 DEF Active, Note
      <3> QED BY <1>4, <3>1, <3>2, <3>3 DEF TextOK
    <2>2. \A k \in Members : TextOK(note'[k])
      BY <1>4, <2>1 DEF RInv, TextInv
    <2>3. ASSUME NEW x, TextOK(x) PROVE TextOK(x)'
      BY <1>1, <1>2, <2>3 DEF TextOK, FromLog, InLog, IsUpdate, UpTo, Own
    <2>4. FromLog(snapshot)'
      BY <1>1, <1>2 DEF RInv, TextInv, FromLog, InLog, IsUpdate, UpTo
    <2> QED BY <2>2, <2>3, <2>4 DEF TextInv
  <1>11. Leaves
    BY <1>4 DEF Leaves, MayDrop
  <1>12. Log!Next \/ UNCHANGED Log!vars
    <2>1. CASE kind = "u"
      <3>1. ASSUME NEW k \in Members PROVE id \notin note[k].doc
        <4>1. note[k].doc \subseteq InLog(HeadSeq) \cup Own(note[k])
          BY DEF RInv, TextInv, TextOK
        <4>2. ASSUME NEW i \in InLog(HeadSeq) PROVE i <= written
          <5>1. PICK seq \in UpTo(HeadSeq) : i = entries[seq].id
            BY DEF InLog
          <5>2. Name(entries[seq]) \in Names /\ Name(entries[seq]).id = i
            BY <5>1 DEF Names, Name
          <5> QED BY <1>5, <5>2
        <4>3. ASSUME NEW i \in Own(note[k]) PROVE i <= written
          <5>1. PICK a \in note[k].outbox : i = a.id
            BY DEF Own
          <5> QED BY <1>5, <5>1 DEF Names
        <4> QED BY <1>2, <4>1, <4>2, <4>3
      <3>2. /\ \A k \in Members : note'[k].applied = note[k].applied
            /\ \A k \in Members : note'[k].doc = IF k = m THEN note[k].doc \cup {id} ELSE note[k].doc
        BY <1>4, <2>1
      <3> HIDE DEF id
      <3>3. Log!Write(m)
        BY <1>1, <1>2, <3>1, <3>2, LogWrites
      <3> QED BY <3>3 DEF Log!Next
    <2>2. CASE kind # "u"
      BY <1>1, <1>4, <2>2, LogStutters
    <2> QED BY <2>1, <2>2
  <1> QED BY <1>7, <1>8, <1>9, <1>10, <1>11, <1>12 DEF RInv, Goes

LEMMA StoreGoes ==
    ASSUME IInv, RInv, IInv', NEW p \in posts, Store(p)
    PROVE  Goes
  <1>h. PICK h \in Nat : h = HeadSeq + 1
    BY DEF IInv, LogInv, ServerTypeOK, HeadSeq
  <1> DEFINE q == [p EXCEPT !.at = "stored", !.seq = h]
  <1>1. /\ p.at = "checked" /\ entries' = Append(entries, p.e)
        /\ UNCHANGED <<epoch, lists, snapshot, note, sync, written>>
        /\ posts' = (posts \ {p}) \cup {q}
    BY <1>h DEF Store, StoreEntry, bounds
  <1>2. p \in Post /\ p.e \in Entry /\ p.e.epoch \in 1..epoch
    BY DEF IInv, PostsInv, PostOK, Post
  <1>3. q.e = p.e /\ q.http = p.http /\ q.seq = h
    BY <1>2 DEF Post
  <1>4. /\ HeadSeq \in Nat /\ HeadSeq' = HeadSeq + 1
        /\ \A seq \in UpTo(HeadSeq) : entries'[seq] = entries[seq]
        /\ entries'[h] = p.e
        /\ UpTo(HeadSeq)' = UpTo(HeadSeq) \cup {h}
    <2>1. entries \in Seq(Entry) /\ HeadSeq \in Nat /\ HeadSeq = Len(entries)
      BY DEF IInv, LogInv, ServerTypeOK, HeadSeq
    <2>2. entries' \in Seq(Entry) /\ Len(entries') = Len(entries) + 1
          /\ (\A seq \in 1..Len(entries) : entries'[seq] = entries[seq])
          /\ entries'[Len(entries) + 1] = p.e
      BY <1>1, <1>2, <2>1, AppendProperties
    <2>3. HeadSeq' = HeadSeq + 1
      BY <2>1, <2>2 DEF HeadSeq
    <2> QED BY <1>h, <2>1, <2>2, <2>3 DEF UpTo
  <1>5. LogGrows
    <2>1. entries' \in Seq(Entry) /\ epoch \in Nat
      BY DEF IInv, LogInv, ServerTypeOK
    <2>2. HeadSeq <= HeadSeq'
      BY <1>4
    <2>3. epoch' = epoch /\ lists' = lists
      BY <1>1
    <2>4. \A seq \in UpTo(HeadSeq) : entries'[seq] = entries[seq]
      BY <1>4
    <2> QED BY <2>1, <2>2, <2>3, <2>4 DEF LogGrows
  <1> HIDE DEF q
  <1>6. NamesInv'
    <2>1. Names' \subseteq Names
      <3>1. \A r \in posts' : \E s \in posts : Name(r.e) = Name(s.e)
        BY <1>1, <1>3
      <3>2. \A seq \in UpTo(HeadSeq)' :
               \/ seq \in UpTo(HeadSeq) /\ Name(entries'[seq]) = Name(entries[seq])
               \/ Name(entries'[seq]) = Name(p.e)
        BY <1>4
      <3> HIDE DEF Name
      <3> QED BY <1>1, <3>1, <3>2, ZenonT(40) DEF Names
    <2> QED BY <1>1, <2>1 DEF NamesInv, RInv
  <1>7. AllowedInv'
    <2>1. ASSUME NEW e, Allowed(e) PROVE Allowed(e)'
      BY <1>1, <2>1 DEF Allowed
    <2>2. ASSUME NEW r \in posts' PROVE Allowed(r.e)' /\ (r.at = "stored" => entries'[r.seq] = r.e)
      <3>1. CASE r = q
        <4>1. Allowed(p.e)'
          BY <2>1 DEF RInv, AllowedInv
        <4> QED BY <1>3, <1>4, <3>1, <4>1
      <3>2. CASE r # q
        <4>1. r \in posts
          BY <1>1, <3>2
        <4>2. r.at = "stored" => r.seq \in UpTo(HeadSeq)
          BY <4>1 DEF IInv, PostsInv, PostOK
        <4>3. Allowed(r.e)'
          BY <2>1, <4>1 DEF RInv, AllowedInv
        <4>4. r.at = "stored" => entries[r.seq] = r.e
          BY <4>1 DEF RInv, AllowedInv
        <4> QED BY <1>4, <4>2, <4>3, <4>4
      <3> QED BY <3>1, <3>2
    <2>3. ASSUME NEW seq \in UpTo(HeadSeq)' PROVE Allowed(entries[seq])'
      <3>1. Allowed(p.e)
        BY DEF RInv, AllowedInv
      <3>2. CASE seq = h
        BY <1>1, <1>4, <3>1, <3>2 DEF Allowed
      <3>3. CASE seq # h
        <4>1. seq \in UpTo(HeadSeq) /\ entries'[seq] = entries[seq] /\ Allowed(entries[seq])
          BY <1>4, <2>3, <3>3 DEF RInv, AllowedInv
        <4> QED BY <1>1, <4>1 DEF Allowed
      <3> QED BY <3>2, <3>3
    <2> QED BY <2>2, <2>3 DEF AllowedInv
  <1>8. CountersInv'
    <2>1. \A r \in posts' : \E s \in posts : r.e = s.e /\ r.http = s.http
      BY <1>1, <1>3
    <2>2. ASSUME NEW m \in Members, NEW f \in note[m].flight PROVE FlightNamed(m, f)'
      <3>1. FlightNamed(m, f)
        BY DEF RInv, CountersInv
      <3> QED BY <1>4, <2>1, <3>1 DEF FlightNamed
    <2>3. ASSUME NEW m \in Members PROVE AwaitsNamed(m, sync[m])'
      <3>1. AwaitsNamed(m, sync[m])
        BY DEF RInv, CountersInv
      <3> QED BY <1>1, <2>1, <3>1 DEF AwaitsNamed
    <2> QED BY <1>1, <2>2, <2>3 DEF CountersInv
  <1>9. TextInv'
    <2>1. ASSUME NEW m \in Members PROVE TextOK(note[m])'
      <3>1. DeviceOK(note[m]) /\ TextOK(note[m])
        BY DEF IInv, NotesInv, RInv, TextInv
      <3> QED BY <1>1, <1>5, <3>1, TextStays DEF IInv
    <2>2. FromLog(snapshot)'
      <3>1. snapshot.base \in 0..HeadSeq /\ FromLog(snapshot)
        BY <1>4 DEF IInv, LogInv, SnapshotOK, Snapshot, RInv, TextInv
      <3> QED BY <1>1, <1>5, <3>1, InLogGrows DEF FromLog, IInv
    <2> QED BY <2>1, <2>2 DEF TextInv
  <1>10. Leaves
    BY <1>1 DEF Leaves, MayDrop
  <1>11. Log!Store
    BY <1>1, <1>7, LogStores DEF IInv, RInv
  <1> QED BY <1>6, <1>7, <1>8, <1>9, <1>10, <1>11 DEF RInv, Goes, Log!Next

LEMMA SnapshotGoes ==
    ASSUME IInv, RInv, IInv', NEW m \in Members, WriteSnapshot(m), UNCHANGED sync
    PROVE  Goes
  <1>1. /\ UNCHANGED <<epoch, lists, entries, note, sync, posts, written>>
        /\ snapshot' = MySnapshot(m) /\ MayCompact(m) /\ note[m].applied = HeadSeq
    BY DEF WriteSnapshot, Taken, TakesSnapshot, TakeSnapshot, MySnapshot
  <1>2. FromLog(snapshot)'
    <2>1. note[m].doc \subseteq InLog(HeadSeq) \cup Own(note[m])
      BY DEF RInv, TextInv, TextOK
    <2>2. Own(note[m]) = {}
      BY <1>1 DEF Own, MayCompact
    <2>3. FromLog(MySnapshot(m))
      BY <1>1, <2>1, <2>2 DEF FromLog, MySnapshot
    <2> QED BY <1>1, <2>3 DEF FromLog, InLog, IsUpdate, UpTo
  <1> QED BY <1>1, <1>2, DeviceSame, PostsShrinkGo, ViewStep DEF SyncsGo

LEMMA TakeFrameGoes ==
    ASSUME IInv, RInv, IInv', NEW p \in posts, TakeFrame(p)
    PROVE  Goes
  <1>1. UNCHANGED <<epoch, lists, entries, snapshot, written, note, sync>>
    BY DEF TakeFrame, serverVars, bounds
  <1>2. PostsGo
    <2>1. CASE posts' = posts \ {p}
      BY <2>1, PostsShrinkGo
    <2>2. CASE posts' = (posts \ {p}) \cup {[p EXCEPT !.at = "checked"]}
      <3>1. p \in Post
        BY DEF IInv, PostsInv, PostOK
      <3> QED BY <2>2, <3>1 DEF PostsGo, Post
    <2> QED BY <2>1, <2>2 DEF TakeFrame, Refuse
  <1> QED BY <1>1, <1>2, DeviceSame, SnapshotSame, ViewStep DEF SyncsGo

\* The answer is to the write it was awaited for, and that is in the log.
LEMMA TellGoes ==
    ASSUME IInv, RInv, IInv', NEW p \in posts, Tell(p)
    PROVE  Goes
  <1>1. UNCHANGED <<epoch, lists, entries, snapshot, written>> /\ posts' \subseteq posts /\ p.at = "stored"
    BY DEF Tell, serverVars, bounds
  <1>2. p.seq \in UpTo(HeadSeq) /\ entries[p.seq] = p.e
    BY <1>1 DEF IInv, PostsInv, PostOK, RInv, AllowedInv
  <1>3. SyncsGo
    BY DEF Tell, SyncsGo, IInv, RestInv, Sync
  <1>4. ASSUME NEW m \in Members
        PROVE  /\ DeviceGoes(m, note[m], note'[m])
               /\ note'[m].applied = note[m].applied /\ note'[m].doc = note[m].doc
    <2>1. CASE ~Answered(m, p)
      <3>1. note'[m] = note[m]
        BY <2>1 DEF Tell
      <3> QED BY <3>1, DeviceSame
    <2>2. CASE Answered(m, p)
      <3> DEFINE n == note[m]
                 outbox == {o \in n.outbox : o.id # sync[m].id}
                 left == [n EXCEPT !.outbox = outbox]
      <3>1. note'[m] = left
        BY <2>2 DEF Tell
      <3>2. n \in Note /\ TextOK(n)
        BY DEF IInv, NotesInv, RInv, TextInv
      <3>3. /\ left.outbox = outbox /\ left.flight = n.flight /\ left.applied = n.applied
            /\ left.doc = n.doc /\ left.epoch = n.epoch /\ left.pending = n.pending
        BY <3>2 DEF Note
      <3>4. p.e.id = sync[m].id
        BY <2>2 DEF Answered, RInv, CountersInv, AwaitsNamed
      <3>5. ASSUME NEW w \in n.outbox \ outbox PROVE Name(p.e) = w
        <4>1. w \in Names /\ Name(p.e) \in Names
          BY DEF Names
        <4>2. Name(p.e).id = w.id
          BY <3>4, <3>5 DEF Name
        <4> QED BY <4>1, <4>2 DEF RInv, NamesInv
      <3>6. \A w \in n.outbox \ outbox : IsStored(w)
        BY <1>2, <3>5 DEF IsStored, Name
      <3>7. Own(n) \subseteq InLog(HeadSeq) \cup Own(left)
        <4> SUFFICES ASSUME NEW w \in n.outbox, w.kind = "u", w.id \notin Own(left)
                     PROVE  w.id \in InLog(HeadSeq)
          BY DEF Own
        <4>1. w \in n.outbox \ outbox
          BY <3>3 DEF Own
        <4>2. p.e.kind = "u" /\ p.e.id = w.id
          BY <3>5, <4>1 DEF Name
        <4> QED BY <1>2, <4>2 DEF InLog, IsUpdate
      <3>8. outbox \subseteq n.outbox
        OBVIOUS
      <3> HIDE DEF outbox, left, n
      <3>9. TextOK(left)
        BY <3>2, <3>3, <3>7, <3>8 DEF TextOK
      <3>10. DeviceGoes(m, n, left)
        BY <3>3, <3>6, <3>8, <3>9 DEF DeviceGoes, MayDrop
      <3> QED BY <3>1, <3>3, <3>10 DEF n
    <2> QED BY <2>1, <2>2
  <1> QED BY <1>1, <1>3, <1>4, PostsShrinkGo, SnapshotSame, ViewStep

LEMMA SendFrameGoes ==
    ASSUME IInv, RInv, IInv', NEW m \in Members, SendFrame(m)
    PROVE  Goes
  <1> DEFINE allowed == {o \in Unsent(m) : MayWrite(MyRole(m), o.kind)}
             o == Oldest(allowed)
             e == Sealed(m, o)
             sent == [nr |-> e.nr, id |-> o.id]
             p == [e |-> e, http |-> FALSE, at |-> "frame", seq |-> 0]
             n == [note[m] EXCEPT !.flight = @ \cup {sent}]
  <1>1. /\ Active(m) /\ allowed # {}
        /\ note' = [note EXCEPT ![m].flight = @ \cup {sent}]
        /\ posts' = posts \cup {p}
        /\ UNCHANGED <<serverVars, sync, sock, rot, bounds>>
    BY Zenon DEF SendFrame
  <1>2. o \in allowed
    <2>1. allowed \subseteq Waiting
      BY DEF Unsent, IInv, NotesInv, Note
    <2> QED BY <1>1, <2>1, OldestOf
  <1>3. o \in note[m].outbox /\ MayWrite(MyRole(m), o.kind)
    BY <1>2 DEF Unsent
  <1> HIDE DEF o, allowed
  <1>4. p.e = Sealed(m, o) /\ p.at # "stored" /\ ~p.http
    OBVIOUS
  <1>5. note[m] \in Note /\ note' = [note EXCEPT ![m] = n]
    BY <1>1 DEF IInv, NotesInv
  <1> HIDE DEF e
  <1>6. /\ n.epoch = note[m].epoch /\ n.applied = note[m].applied /\ n.doc = note[m].doc
        /\ n.outbox = note[m].outbox /\ n.pending = note[m].pending
        /\ n.flight = note[m].flight \cup {[nr |-> p.e.nr, id |-> o.id]}
    BY <1>5 DEF Note
  <1> HIDE DEF n, p
  <1> QED BY <1>1, <1>3, <1>4, <1>5, <1>6, SealStep DEF serverVars, bounds

LEMMA PushGoes ==
    ASSUME IInv, RInv, IInv', NEW m \in Members, Push(m)
    PROVE  Goes
  <1> DEFINE o == Oldest(Unsent(m))
             e == Sealed(m, o)
             p == [e |-> e, http |-> TRUE, at |-> "checked", seq |-> 0]
  <1>1. /\ Active(m) /\ Unsent(m) # {} /\ MayWrite(MyRole(m), o.kind)
        /\ \/ /\ posts' = posts \cup {p}
              /\ sync' = [sync EXCEPT ![m].at = "sent", ![m].nr = e.nr, ![m].id = o.id]
              /\ UNCHANGED <<epoch, lists, entries, kept, snapshot, since, note, sock, rot, bounds>>
           \/ WriteSnapshot(m) /\ UNCHANGED sync
           \/ /\ Stop(m)
              /\ UNCHANGED <<epoch, lists, entries, snapshot, note, posts, bounds>>
    BY Zenon DEF Push, serverVars
  <1>2. CASE WriteSnapshot(m) /\ UNCHANGED sync
    BY <1>2, SnapshotGoes
  <1>3. CASE Stop(m) /\ UNCHANGED <<epoch, lists, entries, snapshot, note, posts, bounds>>
    BY <1>3, StopGoes, RestGoes DEF bounds
  <1>4. CASE /\ posts' = posts \cup {p}
             /\ sync' = [sync EXCEPT ![m].at = "sent", ![m].nr = e.nr, ![m].id = o.id]
             /\ UNCHANGED <<epoch, lists, entries, kept, snapshot, since, note, sock, rot, bounds>>
    <2>1. o \in note[m].outbox
      <3>1. Unsent(m) \subseteq Waiting
        BY DEF Unsent, IInv, NotesInv, Note
      <3>2. o \in Unsent(m)
        BY <1>1, <3>1, OldestOf
      <3> QED BY <3>2 DEF Unsent
    <2> HIDE DEF o
    <2>2. p.e = Sealed(m, o) /\ p.at # "stored" /\ p.http /\ p.e.nr = e.nr
      OBVIOUS
    <2> HIDE DEF e
    <2>3. \A k \in Members : k # m => sync'[k] = sync[k]
      BY <1>4 DEF IInv, RestInv
    <2>4. sync'[m].nr = e.nr /\ sync'[m].id = o.id
      BY <1>4 DEF IInv, RestInv, Sync
    <2>5. note' = [note EXCEPT ![m] = note[m]]
      BY <1>4 DEF IInv, NotesInv
    <2> HIDE DEF p
    <2>6. UNCHANGED <<epoch, lists, entries, snapshot, written>> /\ posts' = posts \cup {p}
      BY <1>4 DEF bounds
    <2> QED BY <1>1, <2>1, <2>2, <2>3, <2>4, <2>5, <2>6, SealStep, ZenonT(40)
  <1> QED BY <1>1, <1>2, <1>3, <1>4

LEMMA HearStoredGoes ==
    ASSUME IInv, RInv, IInv', NEW m \in Members, HearStored(m)
    PROVE  Goes
  <1> DEFINE inbox == note[m].inbox \cup {Head(sock[m].in)}
             n == [note[m] EXCEPT !.inbox = inbox]
  <1>1. /\ sock[m].in # <<>> /\ Head(sock[m].in) # 0
        /\ note' = [note EXCEPT ![m] = Merge(m, n)]
        /\ sync' \in {sync, [sync EXCEPT ![m] = TheLiveSync]}
        /\ UNCHANGED <<serverVars, posts, bounds>>
    BY Zenon DEF HearStored
  <1>2. UNCHANGED <<epoch, lists, entries, snapshot, written>> /\ PostsGo
    BY <1>1, PostsShrinkGo DEF serverVars, bounds
  <1>3. SyncsGo
    BY <1>1 DEF SyncsGo, TheLiveSync, Idle, IInv, RestInv
  <1>4. DeviceOK(n)
    BY <1>1, HeardOK
  <1>5. note[m] \in Note /\ TextOK(note[m])
    BY DEF IInv, NotesInv, RInv, TextInv
  <1> HIDE DEF inbox
  <1>6. /\ n.applied = note[m].applied /\ n.doc = note[m].doc /\ n.outbox = note[m].outbox
        /\ n.flight = note[m].flight /\ n.epoch = note[m].epoch /\ n.pending = note[m].pending
    BY <1>5 DEF Note
  <1> HIDE DEF n
  <1>7. TextOK(n)
    BY <1>5, <1>6 DEF TextOK, Own
  <1>8. /\ \A f \in n.flight : FlightNamed(m, f)
        /\ n.outbox \subseteq Names
    BY <1>6 DEF RInv, CountersInv, Names
  <1>9. Reads(n, Merge(m, n)) /\ DeviceOK(Merge(m, n))
    BY <1>4, <1>7, <1>8, MergeReads, MergeOK DEF IInv
  <1> QED BY <1>1, <1>2, <1>3, <1>4, <1>6, <1>9, ReadStep

LEMMA PullGoes ==
    ASSUME IInv, RInv, IInv', NEW m \in Members, Pull(m)
    PROVE  Goes
  <1>1. UNCHANGED <<epoch, lists, entries, snapshot, written>> /\ PostsGo
    BY PostsShrinkGo DEF Pull, serverVars, bounds
  <1>2. SyncsGo
    <2>1. Stop(m) \/ \E stage \in {"pull", "push", "again"} : GoTo(m, stage)
      BY DEF Pull
    <2> QED BY <2>1, StopGoes, GoToGoes
  <1>3. CASE UNCHANGED note
    BY <1>1, <1>2, <1>3, RestGoes DEF Pull
  <1>4. ASSUME NEW page, page = LogPage(Known(note[m])), NEW merged,
               merged = Merge(m, Deliver(note[m], page)),
               note' = [note EXCEPT ![m] = AfterPage(merged, page)]
        PROVE  Goes
    <2> DEFINE n == Deliver(note[m], page)
               o == AfterPage(merged, page)
    <2>1. note[m] \in Note /\ DeviceOK(note[m]) /\ TextOK(note[m])
      BY DEF IInv, NotesInv, RInv, TextInv
    <2>2. DeviceOK(n) /\ DeviceOK(merged) /\ DeviceOK(o)
      BY <1>4, <2>1, DeliverOK, MergeOK, AfterPageOK DEF IInv
    <2>3. /\ n.applied = note[m].applied /\ n.doc = note[m].doc /\ n.outbox = note[m].outbox
          /\ n.flight = note[m].flight /\ n.epoch = note[m].epoch
          /\ n.pending \in {note[m].pending, snapshot}
      <3>1. page.snapshot \in {snapshot, NoSnapshot}
        BY <1>4 DEF LogPage
      <3> HIDE <1>4
      <3> QED BY <2>1, <3>1 DEF Deliver, Note
    <2> HIDE DEF n
    <2>4. TextOK(n)
      BY <2>1, <2>3 DEF TextOK, Own, RInv, TextInv
    <2>5. (\A f \in n.flight : FlightNamed(m, f)) /\ n.outbox \subseteq Names
      BY <2>3 DEF RInv, CountersInv, Names
    <2>6. Reads(n, merged)
      <3>1. Reads(n, Merge(m, n))
        BY <2>2, <2>4, <2>5, MergeReads DEF IInv
      <3> QED BY <1>4, <3>1 DEF n
    <2>7. Reads(n, o)
      <3>1. merged \in Note
        BY <2>2 DEF DeviceOK
      <3>2. /\ o.applied = merged.applied /\ o.doc = merged.doc /\ o.outbox = merged.outbox
            /\ o.flight = merged.flight /\ o.epoch = merged.epoch /\ o.pending = merged.pending
        BY <3>1 DEF AfterPage, Note
      <3> HIDE DEF o
      <3> QED BY <2>6, <3>2 DEF Reads, TextOK, Own
    <2> HIDE DEF o
    <2> QED BY <1>1, <1>2, <1>4, <2>2, <2>3, <2>7, ReadStep DEF o
  <1> QED BY <1>3, <1>4 DEF Pull

\* A device that loses nothing but memory.
LEMMA DeviceShrinks ==
    ASSUME IInv, RInv, NEW m \in Members, NEW o,
           o.doc = note[m].doc, o.outbox = note[m].outbox, o.flight \subseteq note[m].flight,
           o.epoch = 0 => note[m].epoch = 0 \/ note[m].outbox = {},
           o.pending \in {note[m].pending, NoSnapshot}
    PROVE  DeviceGoes(m, note[m], o)
  BY DEF DeviceGoes, MayDrop, TextOK, Own, RInv, TextInv

LEMMA HearErrorGoes ==
    ASSUME IInv, RInv, IInv', NEW m \in Members, HearError(m)
    PROVE  Goes
  <1> DEFINE n == [note[m] EXCEPT !.flight = {}]
  <1>1. UNCHANGED <<epoch, lists, entries, snapshot, written>> /\ PostsGo
    BY PostsShrinkGo DEF HearError, serverVars, bounds
  <1>2. SyncsGo
    BY DEF HearError, SyncsGo, TheLiveSync, Idle, IInv, RestInv
  <1>3. note[m] \in Note /\ note' = [note EXCEPT ![m] = n]
    BY DEF HearError, IInv, NotesInv
  <1>4. /\ n.applied = note[m].applied /\ n.doc = note[m].doc /\ n.outbox = note[m].outbox
        /\ n.flight = {} /\ n.epoch = note[m].epoch /\ n.pending = note[m].pending
    BY <1>3 DEF Note
  <1> HIDE DEF n
  <1>5. DeviceGoes(m, note[m], n)
    BY <1>4, DeviceShrinks
  <1> QED BY <1>1, <1>2, <1>3, <1>4, <1>5, OneViewStep

LEMMA DisconnectGoes ==
    ASSUME IInv, RInv, IInv', NEW m \in Members, Disconnect(m)
    PROVE  Goes
  <1> DEFINE n == [note[m] EXCEPT !.flight = {}]
  <1>1. UNCHANGED <<epoch, lists, entries, snapshot, written, sync>> /\ PostsGo
    BY PostsShrinkGo DEF Disconnect, serverVars
  <1>3. note[m] \in Note /\ note' = [note EXCEPT ![m] = n]
    BY DEF Disconnect, IInv, NotesInv
  <1>4. /\ n.applied = note[m].applied /\ n.doc = note[m].doc /\ n.outbox = note[m].outbox
        /\ n.flight = {} /\ n.epoch = note[m].epoch /\ n.pending = note[m].pending
    BY <1>3 DEF Note
  <1> HIDE DEF n
  <1>5. DeviceGoes(m, note[m], n)
    BY <1>4, DeviceShrinks
  <1> QED BY <1>1, <1>3, <1>4, <1>5, OneViewStep DEF SyncsGo

LEMMA CrashGoes ==
    ASSUME IInv, RInv, IInv', NEW m \in Members, Crash(m)
    PROVE  Goes
  <1> DEFINE n == [note[m] EXCEPT !.inbox = {}, !.pending = NoSnapshot, !.flight = {},
                                  !.reloading = FALSE]
  <1>1. UNCHANGED <<epoch, lists, entries, snapshot, written>> /\ PostsGo
    BY PostsShrinkGo DEF Crash, serverVars
  <1>2. SyncsGo
    BY DEF Crash, SyncsGo, Idle, IInv, RestInv
  <1>3. note[m] \in Note /\ note' = [note EXCEPT ![m] = n]
    BY DEF Crash, IInv, NotesInv
  <1>4. /\ n.applied = note[m].applied /\ n.doc = note[m].doc /\ n.outbox = note[m].outbox
        /\ n.flight = {} /\ n.epoch = note[m].epoch /\ n.pending = NoSnapshot
    BY <1>3 DEF Note
  <1> HIDE DEF n
  <1>5. DeviceGoes(m, note[m], n)
    BY <1>4, DeviceShrinks
  <1> QED BY <1>1, <1>2, <1>3, <1>4, <1>5, OneViewStep

\* The role changed: what it no longer lets go is dropped, and after an update
\* the note starts again.
LEMMA PushDroppedGoes ==
    ASSUME IInv, RInv, IInv', NEW m \in Members, PushDropped(m)
    PROVE  Goes
  <1> DEFINE n == note[m]
             w == Oldest(Unsent(m))
             comments == {o \in n.outbox : o.kind = "c"}
             fresh == [NoteOf(n.epoch) EXCEPT !.comments = n.comments, !.reloading = TRUE,
                                              !.outbox = comments]
             outbox == n.outbox \ {w}
             left == [n EXCEPT !.outbox = outbox]
  <1>1. UNCHANGED <<epoch, lists, entries, snapshot, written>> /\ PostsGo
    BY PostsShrinkGo DEF PushDropped, serverVars, bounds
  <1>2. SyncsGo
    BY DEF PushDropped, SyncsGo, IInv, RestInv, Sync
  <1>3. n \in Note /\ TextOK(n) /\ note \in [Members -> Note]
    BY DEF IInv, NotesInv, RInv, TextInv
  <1>4. /\ ~MayWrite(MyRole(m), w.kind)
        /\ \/ w.kind = "u" /\ note' = [note EXCEPT ![m] = fresh]
           \/ w.kind # "u" /\ note' = [note EXCEPT ![m] = left]
    BY <1>3 DEF PushDropped
  <1> HIDE DEF w
  <1>5. \A o \in n.outbox : o.kind \in {"u", "c"}
    BY <1>3 DEF Note, Waiting
  <1>6. CASE w.kind = "u" /\ note' = [note EXCEPT ![m] = fresh]
    <2>1. /\ fresh.outbox = comments /\ fresh.flight = {} /\ fresh.doc = {} /\ fresh.applied = 0
          /\ fresh.pending = NoSnapshot /\ fresh.epoch = n.epoch
      BY DEF NoteOf
    <2>2. comments \subseteq n.outbox /\ \A o \in n.outbox \ comments : o.kind = "u"
      BY <1>5
    <2> HIDE DEF fresh, comments
    <2>3. TextOK(fresh)
      BY <1>3, <2>1, <2>2 DEF TextOK
    <2>4. DeviceGoes(m, n, fresh)
      BY <1>4, <1>6, <2>1, <2>2, <2>3 DEF DeviceGoes, MayDrop, MyRole
    <2> QED BY <1>1, <1>2, <1>6, <2>1, <2>4, RestartStep
  <1>7. CASE w.kind # "u" /\ note' = [note EXCEPT ![m] = left]
    <2>1. /\ left.outbox = outbox /\ left.flight = n.flight /\ left.doc = n.doc
          /\ left.applied = n.applied /\ left.pending = n.pending /\ left.epoch = n.epoch
      BY <1>3 DEF Note
    <2>2. Own(left) = Own(n)
      BY <1>7, <2>1 DEF Own
    <2>3. outbox \subseteq n.outbox /\ \A o \in n.outbox \ outbox : o = w
      OBVIOUS
    <2> HIDE DEF left, outbox
    <2>4. TextOK(left)
      BY <1>3, <2>1, <2>2, <2>3 DEF TextOK
    <2>5. DeviceGoes(m, n, left)
      BY <1>4, <2>1, <2>3, <2>4 DEF DeviceGoes, MayDrop, MyRole
    <2> QED BY <1>1, <1>2, <1>7, <2>1, <2>5, OneViewStep
  <1> QED BY <1>4, <1>6, <1>7

LEMMA NewNoteText ==
    ASSUME NEW e
    PROVE  /\ NoteOf(e).applied = 0 /\ NoteOf(e).doc = {} /\ NoteOf(e).outbox = {}
           /\ NoteOf(e).flight = {} /\ NoteOf(e).epoch = e /\ TextOK(NoteOf(e))
  <1>1. /\ NoteOf(e).applied = 0 /\ NoteOf(e).doc = {} /\ NoteOf(e).outbox = {}
        /\ NoteOf(e).flight = {} /\ NoteOf(e).epoch = e /\ NoteOf(e).pending = NoSnapshot
    BY DEF NoteOf
  <1> QED BY <1>1 DEF TextOK

LEMMA RefreshGoes ==
    ASSUME IInv, RInv, IInv', NEW m \in Members, Refresh(m)
    PROVE  Goes
  <1>1. UNCHANGED <<epoch, lists, entries, snapshot, written>> /\ PostsGo
    BY PostsShrinkGo DEF Refresh, serverVars, bounds
  <1>2. SyncsGo
    BY DEF Refresh, SyncsGo, Idle, IInv, RestInv
  <1>3. CASE note' = [note EXCEPT ![m] = NoteOf(0)]
    <2>1. DeviceGoes(m, note[m], NoteOf(0))
      BY NewNoteText DEF DeviceGoes, MayDrop
    <2> QED BY <1>1, <1>2, <1>3, <2>1, NewNoteText, RestartStep
  <1>4. CASE note' = [note EXCEPT ![m].epoch = epoch]
    <2> DEFINE n == [note[m] EXCEPT !.epoch = epoch]
    <2>1. note[m] \in Note /\ note' = [note EXCEPT ![m] = n] /\ epoch # 0
      BY <1>4 DEF IInv, NotesInv, LogInv, ServerTypeOK
    <2>2. /\ n.applied = note[m].applied /\ n.doc = note[m].doc /\ n.outbox = note[m].outbox
          /\ n.flight = note[m].flight /\ n.epoch = epoch /\ n.pending = note[m].pending
      BY <2>1 DEF Note
    <2> HIDE DEF n
    <2>3. DeviceGoes(m, note[m], n)
      BY <2>1, <2>2, DeviceShrinks
    <2> QED BY <1>1, <1>2, <2>1, <2>2, <2>3, OneViewStep
  <1> QED BY <1>3, <1>4 DEF Refresh

LEMMA JoinGoes ==
    ASSUME IInv, RInv, IInv', NEW m \in Members, Join(m)
    PROVE  Goes
  <1>1. /\ UNCHANGED <<epoch, lists, entries, snapshot, written, sync, posts>>
        /\ note' = [note EXCEPT ![m] = NoteOf(epoch)]
    BY DEF Join, serverVars, bounds
  <1>2. note[m].outbox = {}
    BY DEF Join, Active, RInv, TextInv, TextOK, IInv, NotesInv, Note
  <1>3. DeviceGoes(m, note[m], NoteOf(epoch))
    BY <1>2, NewNoteText DEF DeviceGoes, MayDrop
  <1> QED BY <1>1, <1>3, NewNoteText, PostsShrinkGo, RestartStep DEF SyncsGo

LEMMA SetEpochGoes ==
    ASSUME IInv, RInv, IInv', SetEpoch
    PROVE  Goes
  <1>1. UNCHANGED <<epoch, lists, entries, snapshot, written, sync>> /\ PostsGo
    BY PostsShrinkGo DEF SetEpoch, bounds
  <1>2. ASSUME NEW m \in Members
        PROVE  /\ DeviceGoes(m, note[m], note'[m])
               /\ note'[m].applied = note[m].applied /\ note'[m].doc = note[m].doc
    <2> DEFINE n == note[m]
               learns == [n EXCEPT !.epoch = epoch]
               closes == [n EXCEPT !.flight = {}]
    <2>1. note'[m] \in {n, learns, closes}
      BY DEF SetEpoch
    <2>2. n \in Note /\ epoch # 0
      BY DEF IInv, NotesInv, LogInv, ServerTypeOK
    <2>3. /\ learns.applied = n.applied /\ learns.doc = n.doc /\ learns.outbox = n.outbox
          /\ learns.flight = n.flight /\ learns.epoch = epoch /\ learns.pending = n.pending
          /\ closes.applied = n.applied /\ closes.doc = n.doc /\ closes.outbox = n.outbox
          /\ closes.flight = {} /\ closes.epoch = n.epoch /\ closes.pending = n.pending
      BY <2>2 DEF Note
    <2> HIDE DEF learns, closes
    <2>4. DeviceGoes(m, n, learns) /\ DeviceGoes(m, n, closes)
      BY <2>2, <2>3, DeviceShrinks
    <2> QED BY <2>1, <2>3, <2>4, DeviceSame
  <1> QED BY <1>1, <1>2, SnapshotSame, ViewStep DEF SyncsGo

LEMMA NewEpochGoes ==
    ASSUME IInv, RInv, IInv', NewEpoch
    PROVE  Goes
  <1>1. /\ epoch' = epoch + 1 /\ lists' = Append(lists, rot.list)
        /\ UNCHANGED <<entries, snapshot, note, sync, posts, written>>
    BY DEF NewEpoch, StoreEpoch, bounds
  <1>2. LogGrows
    <2>1. lists \in Seq(List) /\ Len(lists) = epoch /\ epoch \in Nat /\ rot.list \in List
      BY DEF IInv, RestInv, Rotation, LogInv, ServerTypeOK
    <2>2. \A e \in 1..epoch : lists'[e] = lists[e]
      BY <1>1, <2>1, AppendProperties
    <2> QED BY <1>1, <2>1, <2>2 DEF LogGrows, IInv, LogInv, ServerTypeOK, HeadSeq
  <1>3. RInv' /\ Leaves
    BY <1>1, <1>2, DeviceSame, PostsShrinkGo, SnapshotSame, QuietStep DEF SyncsGo
  <1>4. Log!EndEpoch
    BY <1>1, <1>2, <1>3, LogEndsEpoch DEF RInv, IInv
  <1> QED BY <1>3, <1>4 DEF Goes, Log!Next

-----------------------------------------------------------------------------
(* The theorems *)

LEMMA InitRInv == Init => RInv /\ Log!Init
  <1> SUFFICES ASSUME Init PROVE RInv /\ Log!Init
    OBVIOUS
  <1>1. /\ HeadSeq = 0 /\ UpTo(HeadSeq) = {} /\ posts = {} /\ snapshot.doc = {}
        /\ \A m \in Members : \E e \in {0, 1} : note[m] = NoteOf(e)
        /\ \A m \in Members : sync[m].at = "idle"
    BY DEF Init, ServerInit, HeadSeq, UpTo, Idle
  <1>2. \A m \in Members : /\ TextOK(note[m]) /\ note[m].outbox = {} /\ note[m].flight = {}
                           /\ note[m].applied = 0 /\ note[m].doc = {}
    BY <1>1, NewNoteText
  <1>3. NamesInv
    <2>1. Names = {}
      BY <1>1, <1>2 DEF Names
    <2> QED BY <2>1 DEF NamesInv
  <1>4. AllowedInv /\ CountersInv /\ TextInv
    BY <1>1, <1>2 DEF AllowedInv, CountersInv, AwaitsNamed, TextInv, FromLog
  <1>5. LogInv
    BY InitIInv DEF IInv
  <1>6. TheLog = <<>> /\ LateSeqs = {}
    <2>1. TheLog \in Seq(Ids \cup {0}) /\ Len(TheLog) = 0
      BY <1>1, <1>4, <1>5, LogSays
    <2>2. TheLog = <<>>
      BY <2>1, EmptySeq
    <2> QED BY <1>1, <2>2 DEF LateSeqs
  <1>7. Applied = [m \in Members |-> 0] /\ Texts = [m \in Members |-> {}]
    BY <1>2 DEF Applied, Texts
  <1> QED BY <1>3, <1>4, <1>6, <1>7 DEF RInv, Log!Init

LEMMA StepGoes ==
    ASSUME IInv, RInv, IInv', Next
    PROVE  Goes
  <1>1. ASSUME NEW m \in Members, NEW kind \in {"u", "c"}, Write(m, kind) PROVE Goes
    BY <1>1, WriteGoes
  <1>2. ASSUME NEW m \in Members, SyncStep(m) \/ Compact(m) \/ LoseAnswer(m) PROVE Goes
    <2>1. CASE Pull(m)
      BY <2>1, PullGoes
    <2>2. CASE PushDropped(m)
      BY <2>2, PushDroppedGoes
    <2>3. CASE Push(m)
      BY <2>3, PushGoes
    <2>4. CASE NothingToPush(m)
      BY <2>4, StopGoes, RestGoes DEF NothingToPush, serverVars, bounds
    <2>5. CASE Compact(m)
      BY <2>5, SnapshotGoes DEF Compact
    <2>6. CASE LoseAnswer(m)
      BY <2>6, StopGoes, RestGoes DEF LoseAnswer, serverVars
    <2> QED BY <1>2, <2>1, <2>2, <2>3, <2>4, <2>5, <2>6 DEF SyncStep
  <1>3. ASSUME NEW m \in Members, Hear(m) \/ Connect(m) \/ SendFrame(m) PROVE Goes
    <2>1. CASE Connect(m)
      BY <2>1, RestGoes DEF Connect, SyncsGo, bounds
    <2> QED BY <1>3, <2>1, HearStoredGoes, HearErrorGoes, SendFrameGoes DEF Hear
  <1>4. ASSUME NEW m \in Members, Refresh(m) \/ Join(m) \/ Disconnect(m) \/ Crash(m) PROVE Goes
    BY <1>4, RefreshGoes, JoinGoes, DisconnectGoes, CrashGoes
  <1>5. ASSUME Room PROVE Goes
    BY <1>5, TakeFrameGoes, StoreGoes, TellGoes DEF Room
  <1>6. ASSUME People \/ LoseEpoch PROVE Goes
    <2>1. CASE LoseEpoch
      BY <2>1, RestGoes DEF LoseEpoch, SyncsGo, serverVars
    <2> QED BY <1>6, <2>1, NewEpochGoes, SetEpochGoes DEF People
  <1>7. ASSUME NEW roles \in [Members -> Roles], SignEpoch(roles) PROVE Goes
    BY <1>7, RestGoes DEF SignEpoch, SyncsGo, serverVars, bounds
  <1> QED BY <1>1, <1>2, <1>3, <1>4, <1>5, <1>6, <1>7 DEF Next

LEMMA StutterGoes ==
    ASSUME IInv, RInv, IInv', UNCHANGED vars
    PROVE  Goes
  BY RestGoes DEF vars, serverVars, SyncsGo

LEMMA NothingMore == Spec => [](IInv /\ RInv)
  <1>1. Init => RInv
    BY InitRInv
  <1>2. RInv /\ IInv /\ IInv' /\ [Next]_vars => RInv'
    BY StepGoes, StutterGoes DEF Goes
  <1> QED BY <1>1, <1>2, Invariance, PTL DEF Spec

\* The devices, the room and all that is between them implement one log with
\* a reader on each device.
THEOREM LogImplemented == Spec => ImplementsLog
  <1>1. Init => Log!Init
    BY InitRInv
  <1>2. IInv /\ RInv /\ IInv' /\ [Next]_vars => [Log!Next]_(Log!vars)
    BY StepGoes, StutterGoes DEF Goes
  <1> QED BY <1>1, <1>2, NothingMore, PTL DEF Spec, ImplementsLog, Log!Spec

\* What left an outbox is in the log, unless its role no longer let it go or
\* the note ended on the device.
THEOREM OutboxIsStored == Spec => OutboxLeavesStored
  <1> DEFINE Left == \A m \in Members : \A o \in note[m].outbox \ note'[m].outbox :
                         \/ IsStored(o)
                         \/ ~MayWrite(MyRole(m), o.kind)
                         \/ note'[m].epoch = 0
  <1>1. IInv /\ RInv /\ IInv' /\ [Next]_vars => [Left]_vars
    BY StepGoes DEF Goes, Leaves, MayDrop, MyRole
  <1>2. [][Left]_vars => OutboxLeavesStored
    BY PTL DEF OutboxLeavesStored
  <1> QED BY <1>1, <1>2, NothingMore, PTL DEF Spec
===============================================================================
