------------------------------ MODULE NoteLog -------------------------------
(***************************************************************************)
(* The devices of a shared note (kanso-collab/src/engine/log.rs, live.rs,  *)
(* sharing.rs) and its room: writing, the live socket, the HTTP sync, the  *)
(* snapshots, and the owner's change of who is in the note.  Each member   *)
(* has one device, and a device runs one HTTP sync of the note at a time;  *)
(* its live connection goes on beside it.                                  *)
(***************************************************************************)
EXTENDS NoteRoom

CONSTANTS MaxEpochs, MaxSnapshots, MaxFaults, MaxEntries  \* bounds

ASSUME BoundsAssumption == {MaxEpochs, MaxSnapshots, MaxFaults, MaxEntries} \subseteq Nat

(* A device's copy of the note (Loaded, SharedNote).  `doc` and `comments` *)
(* hold the IDs of what was merged, `inbox` the seqs of the entries that   *)
(* came and are not merged, `flight` what was sent on the socket.          *)
Waiting == [id : Ids, kind : {"u", "c"}]
Sent == [nr : Nat, id : Ids]
Note == [epoch : Nat, applied : Nat, doc : SUBSET Ids, comments : SUBSET Ids,
         inbox : SUBSET Nat, pending : Snapshot \cup {NoSnapshot},
         outbox : SUBSET Waiting, flight : SUBSET Sent, reloading : BOOLEAN]

\* A note new to this device; epoch 0: not in the note.
NoteOf(e) == [epoch |-> e, applied |-> 0, doc |-> {}, comments |-> {}, inbox |-> {},
              pending |-> NoSnapshot, outbox |-> {}, flight |-> {}, reloading |-> FALSE]

(* The HTTP sync (sync_once): `nr` names the envelope an answer is awaited *)
(* for, `id` its outbox entry; `wrote`: it pulls again; `live`: the        *)
(* connection's thread runs it.                                            *)
Stages == {"idle", "pull", "push", "sent", "again"}
Sync == [at : Stages, nr : Nat, id : Nat, wrote : BOOLEAN, live : BOOLEAN]
Idle == [at |-> "idle", nr |-> 0, id |-> 0, wrote |-> FALSE, live |-> FALSE]

(* A member's socket, as the room keeps it; `in` is on its way to the      *)
(* device: a stored entry's seq, or 0 for an error.                        *)
Socket == [open : BOOLEAN, role : Roles, in : Seq(Nat)]
NoSocket == [open |-> FALSE, role |-> "none", in |-> <<>>]

(* An envelope on its way into the log: a frame the room has not seen, one *)
(* that passed the checks and awaits the quota query, one stored and not   *)
(* yet told (its seq in `seq`).                                            *)
Post == [e : Entry, http : BOOLEAN, at : {"frame", "checked", "stored"}, seq : Nat]

(* The owner's new epoch: between the head's check and D1's batch, and     *)
(* between the batch and the room's setEpoch.                              *)
Rotation == [at : {"none", "checked", "stored"}, list : List]
NoRotation == [at |-> "none", list |-> [from |-> 0, roles |-> FirstRoles]]

VARIABLES note, sync, sock, posts, rot,
          written, snaps, faults  \* counters of the bounds

vars == <<serverVars, note, sync, sock, posts, rot, written, snaps, faults>>
bounds == <<written, snaps, faults>>

TypeOK ==
    /\ ServerTypeOK
    /\ note \in [Members -> Note]
    /\ sync \in [Members -> Sync]
    /\ sock \in [Members -> Socket]
    /\ posts \subseteq Post
    /\ rot \in Rotation
    /\ {written, snaps, faults} \subseteq Nat

Init ==
    /\ ServerInit
    /\ note = [m \in Members |-> NoteOf(IF FirstRoles[m] = "none" THEN 0 ELSE 1)]
    /\ sync = [m \in Members |-> Idle]
    /\ sock = [m \in Members |-> NoSocket]
    /\ posts = {}
    /\ rot = NoRotation
    /\ written = 0 /\ snaps = 0 /\ faults = 0

\* The role this device believes it has.
MyRole(m) == lists[note[m].epoch].roles[m]
Active(m) == note[m].epoch > 0

-----------------------------------------------------------------------------
(* Merging *)

\* The end of the run of `inbox` that follows `from` without a gap.
\* Mutant: of whatever came.
LastAcrossGaps(from, inbox) == CHOOSE k \in inbox \cup {from} : \A seq \in inbox \cup {from} : k >= seq

LastOf(from, inbox) ==
    CHOOSE k \in inbox \cup {from} :
        /\ k >= from /\ k + 1 \notin inbox
        /\ \A seq \in (from + 1)..k : seq \in inbox

\* known_seq; what is in the inbox may be at or below the snapshot.
Known(n) ==
    LastOf(IF n.pending = NoSnapshot \/ n.pending.base < n.applied THEN n.applied
                                                                   ELSE n.pending.base,
           n.inbox)

\* An entry the device opens and takes.
Counts(known, seq) ==
    LET e == entries[seq]
    IN  /\ e.epoch <= known
        /\ ~PastItsEpoch(known, e.epoch, seq)
        /\ e.kind = "c" \/ MayEdit(lists[e.epoch].roles[e.by])

\* The snapshot of a page: of what is merged already, waiting for the key of
\* a later epoch, or taken.
IsOld(n) == n.pending.base <= n.applied /\ n.applied # 0
WaitsForKey(n) == n.pending # NoSnapshot /\ ~IsOld(n) /\ n.pending.epoch > n.epoch
TakesPending(n) ==
    /\ n.pending # NoSnapshot /\ ~IsOld(n)
    /\ MayEdit(lists[n.pending.epoch].roles[n.pending.by])
    /\ ~PastItsEpoch(n.epoch, n.pending.epoch, n.pending.base)

\* What the snapshot does not hold: of the entries up to it only comments,
\* then every entry that follows without a gap and opens.
Start(n) == IF TakesPending(n) THEN n.pending.base ELSE n.applied
Last(n) == LastOf(Start(n), {seq \in n.inbox : entries[seq].epoch <= n.epoch})
Merged(n) == {seq \in n.inbox : /\ seq <= Last(n)
                                /\ seq > Start(n) \/ entries[seq].kind = "c"
                                /\ Counts(n.epoch, seq)}

IdsOf(seqs, kind) == {entries[seq].id : seq \in {s \in seqs : entries[s].kind = kind}}

\* echoed: this device's own entries come back, by their counter.
\* Mutant: or anyone's.
EchoOfAny(m, n, seqs) == {f \in n.flight : \E seq \in seqs : entries[seq].nr = f.nr}

EchoOf(m, n, seqs) ==
    {f \in n.flight : \E seq \in seqs : entries[seq].by = m /\ entries[seq].nr = f.nr}

\* merge_delivered
Merge(m, n) ==
    IF WaitsForKey(n) THEN n ELSE
    LET echoed == EchoOf(m, n, Merged(n))
    IN  [n EXCEPT
           !.pending = NoSnapshot,
           !.applied = Last(n),
           !.inbox = {seq \in @ : seq > Last(n)},
           !.doc = @ \cup (IF TakesPending(n) THEN n.pending.doc ELSE {})
                     \cup IdsOf(Merged(n), "u"),
           !.comments = @ \cup IdsOf(Merged(n), "c"),
           !.flight = @ \ echoed,
           !.outbox = {o \in @ : \A f \in echoed : o.id # f.id}]

NeedsRefresh(n) == n.pending # NoSnapshot \/ (n.applied + 1) \in n.inbox

-----------------------------------------------------------------------------
(* Writing and sending *)

\* An edit the engine takes in (take_local), or a comment.
Write(m, kind) ==
    /\ Active(m) /\ MayWrite(MyRole(m), kind)
    /\ kind = "u" => ~note[m].reloading
    /\ written < MaxEdits
    /\ written' = written + 1
    /\ note' = [note EXCEPT ![m].doc = IF kind = "u" THEN @ \cup {written + 1} ELSE @,
                            ![m].outbox = @ \cup {[id |-> written + 1, kind |-> kind]}]
    /\ UNCHANGED <<serverVars, sync, sock, posts, rot, snaps, faults>>

\* The next counter, renamed: one that names no other envelope.
Used(m) ==
    {p.e.nr : p \in {q \in posts : q.e.by = m}}
    \cup {entries[seq].nr : seq \in {s \in UpTo(HeadSeq) : entries[s].by = m}}
    \cup {f.nr : f \in note[m].flight}
Counter(m) == CHOOSE nr \in 1..(Cardinality(Used(m)) + 1) : nr \notin Used(m)

Sealed(m, o) == [id |-> o.id, kind |-> o.kind, epoch |-> note[m].epoch, by |-> m, nr |-> Counter(m)]
Room4More == HeadSeq + Cardinality({p \in posts : p.at # "stored"}) < MaxEntries

\* What waits and is not on its way on the socket, oldest first.
Unsent(m) == {o \in note[m].outbox : \A f \in note[m].flight : f.id # o.id}
Oldest(waiting) == CHOOSE o \in waiting : \A other \in waiting : o.id <= other.id

\* The upgrade, with the role and the epoch the Worker reads.
Connect(m) ==
    /\ Active(m) /\ ~sock[m].open /\ RoleOf(m) # "none"
    /\ sock' = [sock EXCEPT ![m] = [open |-> TRUE, role |-> RoleOf(m), in |-> <<>>]]
    /\ AdoptEpoch
    /\ UNCHANGED <<epoch, lists, entries, kept, snapshot, since, note, sync, posts, rot, bounds>>

\* send_outbox, one entry; the thread does not send during its own sync.
SendFrame(m) ==
    /\ Active(m) /\ sock[m].open /\ ~sync[m].live
    /\ Room4More
    /\ LET allowed == {o \in Unsent(m) : MayWrite(MyRole(m), o.kind)}
           o == Oldest(allowed)
           e == Sealed(m, o)
       IN  /\ allowed # {}
           /\ note' = [note EXCEPT ![m].flight = @ \cup {[nr |-> e.nr, id |-> o.id]}]
           /\ posts' = posts \cup {[e |-> e, http |-> FALSE, at |-> "frame", seq |-> 0]}
    /\ UNCHANGED <<serverVars, sync, sock, rot, bounds>>

-----------------------------------------------------------------------------
(* The room at work *)

\* A refused frame is answered with an error.
\* Mutant: it is not.
RefuseSilently(p) == posts' = posts \ {p} /\ UNCHANGED sock

Refuse(p) ==
    /\ posts' = posts \ {p}
    /\ sock' = [sock EXCEPT ![p.e.by].in = Append(@, 0)]

\* webSocketMessage, up to the quota query.
TakeFrame(p) ==
    LET code == FrameCode(sock[p.e.by].role, p.e) IN
    /\ p.at = "frame"
    /\ \/ code # "ok" /\ Refuse(p)
       \/ code = "ok" /\ posts' = (posts \ {p}) \cup {[p EXCEPT !.at = "checked"]} /\ UNCHANGED sock
    /\ UNCHANGED <<serverVars, note, sync, rot, bounds>>

Store(p) ==
    /\ p.at = "checked"
    /\ StoreEntry(p.e)
    /\ posts' = (posts \ {p}) \cup {[p EXCEPT !.at = "stored", !.seq = HeadSeq + 1]}
    /\ UNCHANGED <<note, sync, sock, rot, bounds>>

\* The device hears that its envelope was stored.
Answered(m, p) == p.http /\ p.e.by = m /\ sync[m].at = "sent" /\ sync[m].nr = p.e.nr

\* Every socket hears of it, then the request is answered.
Tell(p) ==
    /\ p.at = "stored"
    /\ posts' = posts \ {p}
    /\ sock' = [m \in Members |-> IF sock[m].open THEN [sock[m] EXCEPT !.in = Append(@, p.seq)]
                                                  ELSE sock[m]]
    /\ sync' = [m \in Members |->
                  IF Answered(m, p) THEN [sync[m] EXCEPT !.at = "push", !.nr = 0, !.id = 0, !.wrote = TRUE]
                                    ELSE sync[m]]
    /\ note' = [m \in Members |->
                  IF Answered(m, p)
                  THEN [note[m] EXCEPT !.outbox = {o \in @ : o.id # sync[m].id}]
                  ELSE note[m]]
    /\ UNCHANGED <<serverVars, rot, bounds>>

-----------------------------------------------------------------------------
(* The live connection: one event *)

TheLiveSync == [Idle EXCEPT !.at = "pull", !.live = TRUE]

\* A stored entry: merged, and after a gap or a missing key a sync follows.
HearStored(m) ==
    LET seq == Head(sock[m].in)
        gap == seq > LastOf(note[m].applied, note[m].inbox) + 1
    IN
    /\ Active(m) /\ sock[m].in # <<>> /\ ~sync[m].live
    /\ seq # 0
    /\ note' = [note EXCEPT ![m] = Merge(m, [note[m] EXCEPT !.inbox = @ \cup {seq}])]
    /\ IF gap \/ NeedsRefresh(note'[m])
       THEN sync[m] = Idle /\ sync' = [sync EXCEPT ![m] = TheLiveSync]
       ELSE UNCHANGED sync
    /\ sock' = [sock EXCEPT ![m].in = Tail(@)]
    /\ UNCHANGED <<serverVars, posts, rot, bounds>>

\* An error frame: everything in flight is sent again over HTTP.
HearError(m) ==
    /\ Active(m) /\ sock[m].in # <<>> /\ Head(sock[m].in) = 0
    /\ sync[m] = Idle
    /\ note' = [note EXCEPT ![m].flight = {}]
    /\ sync' = [sync EXCEPT ![m] = TheLiveSync]
    /\ sock' = [sock EXCEPT ![m].in = Tail(@)]
    /\ UNCHANGED <<serverVars, posts, rot, bounds>>

\* Frames of a connection that ended and never reached the room.
Lost(m) == {p \in posts : p.at = "frame" /\ p.e.by = m}

Disconnect(m) ==
    /\ sock[m].open /\ faults < MaxFaults
    /\ faults' = faults + 1
    /\ sock' = [sock EXCEPT ![m] = NoSocket]
    /\ posts' = posts \ Lost(m)
    /\ note' = [note EXCEPT ![m].flight = {}]
    /\ UNCHANGED <<serverVars, sync, rot, written, snaps>>

\* The app ends: what is only in memory is gone.
Crash(m) ==
    /\ Active(m) /\ faults < MaxFaults
    /\ faults' = faults + 1
    /\ note' = [note EXCEPT ![m].inbox = {}, ![m].pending = NoSnapshot, ![m].flight = {},
                            ![m].reloading = FALSE]
    /\ sync' = [sync EXCEPT ![m] = Idle]
    /\ sock' = [sock EXCEPT ![m] = NoSocket]
    /\ posts' = posts \ Lost(m)
    /\ UNCHANGED <<serverVars, rot, written, snaps>>

-----------------------------------------------------------------------------
(* The HTTP sync *)

At(m, stage) == sync[m].at = stage
AllSent(m) == At(m, "push") /\ Unsent(m) = {}
GoTo(m, stage) == sync' = [sync EXCEPT ![m].at = stage]
Stop(m) == sync' = [sync EXCEPT ![m] = Idle]

\* A page of the log is delivered and merged; after the last one the note is
\* loaded again.
Deliver(n, page) ==
    [n EXCEPT !.inbox = @ \cup page.seqs,
              !.pending = IF page.snapshot = NoSnapshot THEN @ ELSE page.snapshot]
IsLast(n, page) == ~NeedsRefresh(n) /\ (~page.more \/ Known(n) >= HeadSeq)
AfterPage(n, page) == IF IsLast(n, page) THEN [n EXCEPT !.reloading = FALSE] ELSE n

\* A sync starts by pulling, and pulls again after it pushed.
Pull(m) ==
    LET first == At(m, "idle") \/ At(m, "pull") IN
    /\ Active(m)
    /\ first \/ At(m, "again") \/ (AllSent(m) /\ sync[m].wrote)
    /\ \/ RoleOf(m) = "none" /\ Stop(m) /\ UNCHANGED note
       \/ /\ RoleOf(m) # "none"
          /\ \E page \in {LogPage(Known(note[m]))} :
             \E n \in {Merge(m, Deliver(note[m], page))} :
                /\ note' = [note EXCEPT ![m] = AfterPage(n, page)]
                /\ CASE NeedsRefresh(n) -> Stop(m)
                     [] ~NeedsRefresh(n) /\ ~IsLast(n, page) ->
                            GoTo(m, IF first THEN "pull" ELSE "again")
                     [] OTHER -> IF first /\ Unsent(m)' # {} THEN GoTo(m, "push") ELSE Stop(m)
    /\ UNCHANGED <<serverVars, sock, posts, rot, bounds>>

\* The role changed: what was written can't go.  After an update, the note
\* starts again from the log (restart_doc) and a private copy keeps the text.
PushDropped(m) ==
    LET o == Oldest(Unsent(m)) IN
    /\ At(m, "push") /\ Unsent(m) # {}
    /\ ~MayWrite(MyRole(m), o.kind)
    /\ IF o.kind = "u"
       THEN /\ note' = [note EXCEPT ![m] =
                   [NoteOf(@.epoch) EXCEPT !.comments = note[m].comments, !.reloading = TRUE,
                                           !.outbox = {w \in note[m].outbox : w.kind = "c"}]]
            /\ sync' = [sync EXCEPT ![m].wrote = TRUE]
       ELSE /\ note' = [note EXCEPT ![m].outbox = @ \ {o}]
            /\ UNCHANGED sync
    /\ UNCHANGED <<serverVars, sock, posts, rot, bounds>>

\* compact, up to the server's answer.
\* Mutant: whatever waits unsent is in the snapshot too.
CompactsUnsent(m) ==
    MayEdit(MyRole(m)) /\ note[m].inbox = {} /\ note[m].pending = NoSnapshot

MayCompact(m) ==
    /\ MayEdit(MyRole(m))
    /\ \A o \in note[m].outbox : o.kind = "c"
    /\ note[m].inbox = {} /\ note[m].pending = NoSnapshot

MySnapshot(m) == [base |-> note[m].applied, epoch |-> note[m].epoch, by |-> m, doc |-> note[m].doc]

\* Written by compact, and taken while this is the log's head.
Taken(m) ==
    /\ MayCompact(m) /\ MayEdit(RoleOf(m)) /\ TakesSnapshot(MySnapshot(m))
    /\ snaps < MaxSnapshots

WriteSnapshot(m) ==
    /\ Taken(m)
    /\ TakeSnapshot(MySnapshot(m)) /\ AdoptEpoch
    /\ snaps' = snaps + 1
    /\ UNCHANGED <<note, sock, posts, rot, written, faults>>

\* The next entry, sealed and posted; the Worker and the room check it.
Push(m) ==
    LET o == Oldest(Unsent(m))
        e == Sealed(m, o)
        code == RequestCode(m, e)
    IN
    /\ Active(m) /\ At(m, "push") /\ Unsent(m) # {}
    /\ MayWrite(MyRole(m), o.kind)
    /\ \/ /\ code = "ok" /\ Room4More
          /\ posts' = posts \cup {[e |-> e, http |-> TRUE, at |-> "checked", seq |-> 0]}
          /\ sync' = [sync EXCEPT ![m].at = "sent", ![m].nr = e.nr, ![m].id = o.id]
          /\ AdoptEpoch
          /\ UNCHANGED <<epoch, lists, entries, kept, snapshot, since, note, sock, rot, bounds>>
       \/ /\ code = "compact_first"
          /\ WriteSnapshot(m) /\ UNCHANGED sync
       \/ /\ code = "compact_first" /\ ~Taken(m)
          /\ AdoptEpoch /\ Stop(m)
          /\ UNCHANGED <<epoch, lists, entries, kept, snapshot, since, note, sock, posts, rot, bounds>>
       \/ /\ code \notin {"ok", "compact_first"}
          /\ Stop(m)
          /\ UNCHANGED <<serverVars, note, sock, posts, rot, bounds>>

\* The answer is lost: what was stored is sent again by the next sync.
LoseAnswer(m) ==
    /\ At(m, "sent") /\ faults < MaxFaults
    /\ faults' = faults + 1
    /\ Stop(m)
    /\ UNCHANGED <<serverVars, note, sock, posts, rot, written, snaps>>

\* The end of a sync that found this device at the head.  Whether a snapshot
\* is due is left open; a refused one changes nothing.
Compact(m) ==
    /\ Active(m) /\ At(m, "idle")
    /\ WriteSnapshot(m) /\ UNCHANGED sync

\* The connection sent what was left.
NothingToPush(m) ==
    /\ AllSent(m) /\ ~sync[m].wrote
    /\ Stop(m)
    /\ UNCHANGED <<serverVars, note, sock, posts, rot, bounds>>

-----------------------------------------------------------------------------
(* Who is in the note *)

\* refresh: the newest epoch's list and key, or the note ends here.
Refresh(m) ==
    /\ Active(m) /\ note[m].epoch # epoch
    /\ IF RoleOf(m) = "none"
       THEN /\ note' = [note EXCEPT ![m] = NoteOf(0)]
            /\ sync' = [sync EXCEPT ![m] = Idle]
            /\ sock' = [sock EXCEPT ![m] = NoSocket]
            /\ posts' = posts \ Lost(m)
       ELSE note' = [note EXCEPT ![m].epoch = epoch] /\ UNCHANGED <<sync, sock, posts>>
    /\ UNCHANGED <<serverVars, rot, bounds>>

\* An invitation accepted.
Join(m) ==
    /\ ~Active(m) /\ RoleOf(m) # "none"
    /\ note' = [note EXCEPT ![m] = NoteOf(epoch)]
    /\ UNCHANGED <<serverVars, sync, sock, posts, rot, bounds>>

\* rotate: the owner's list, signed again until it names the head the
\* Worker reads.
SignEpoch(roles) ==
    /\ rot = NoRotation
    /\ note[Owner].epoch = epoch /\ epoch < MaxEpochs
    /\ roles[Owner] = "owner" /\ \A m \in Members \ {Owner} : roles[m] # "owner"
    /\ roles # lists[epoch].roles
    /\ rot' = [at |-> "checked", list |-> [from |-> HeadSeq, roles |-> roles]]
    /\ UNCHANGED <<serverVars, note, sync, sock, posts, bounds>>

NewEpoch ==
    /\ rot.at = "checked"
    /\ StoreEpoch(rot.list)
    /\ rot' = [rot EXCEPT !.at = "stored"]
    /\ UNCHANGED <<note, sync, sock, posts, bounds>>

\* setEpoch: removed members' sockets close, the others take their role; the
\* owner's device hears the answer.
SetEpoch ==
    /\ rot.at = "stored"
    /\ AdoptEpoch
    /\ sock' = [m \in Members |->
                  CASE ~sock[m].open -> sock[m]
                    [] RoleOf(m) = "none" -> NoSocket
                    [] OTHER -> [sock[m] EXCEPT !.role = RoleOf(m)]]
    /\ posts' = posts \ UNION {Lost(m) : m \in {n \in Members : RoleOf(n) = "none"}}
    /\ note' = [m \in Members |->
                  CASE m = Owner -> [note[m] EXCEPT !.epoch = epoch]
                    [] m # Owner /\ RoleOf(m) = "none" -> [note[m] EXCEPT !.flight = {}]
                    [] OTHER -> note[m]]
    /\ rot' = NoRotation
    /\ UNCHANGED <<epoch, lists, entries, kept, snapshot, since, sync, bounds>>

\* The request dies after D1's batch: the room is not told.
LoseEpoch ==
    /\ rot.at = "stored" /\ faults < MaxFaults
    /\ faults' = faults + 1
    /\ rot' = NoRotation
    /\ UNCHANGED <<serverVars, note, sync, sock, posts, written, snaps>>

-----------------------------------------------------------------------------
SyncStep(m) ==
    \/ Pull(m) \/ PushDropped(m) \/ Push(m) \/ NothingToPush(m)
Hear(m) == HearStored(m) \/ HearError(m)
Room == \E p \in posts : TakeFrame(p) \/ Store(p) \/ Tell(p)
People == NewEpoch \/ SetEpoch

Next ==
    \/ \E m \in Members :
        \/ \E kind \in {"u", "c"} : Write(m, kind)
        \/ SyncStep(m) \/ Compact(m) \/ Refresh(m) \/ Join(m)
        \/ Hear(m) \/ Connect(m) \/ SendFrame(m)
        \/ Disconnect(m) \/ Crash(m) \/ LoseAnswer(m)
    \/ Room \/ People \/ LoseEpoch
    \/ \E roles \in [Members -> Roles] : SignEpoch(roles)

Spec == Init /\ [][Next]_vars

(* The app syncs again and again and the server answers; nobody has to     *)
(* write, connect, write a snapshot, change the members or fail.           *)
Fairness ==
    /\ \A m \in Members :
        WF_vars(SyncStep(m)) /\ WF_vars(Refresh(m)) /\ WF_vars(Join(m)) /\ WF_vars(Hear(m))
    /\ WF_vars(Room) /\ WF_vars(People)

FairSpec == Spec /\ Fairness
=============================================================================
