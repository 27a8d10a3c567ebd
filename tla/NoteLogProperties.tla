------------------------- MODULE NoteLogProperties --------------------------
(***************************************************************************)
(* What a shared note owes its members.                                    *)
(***************************************************************************)
EXTENDS NoteLog

\* Past the epoch it was written under, as a device that is up to date sees it.
IsLate(seq) == PastItsEpoch(epoch, entries[seq].epoch, seq)
IsUpdate(seq) == entries[seq].kind = "u"

-----------------------------------------------------------------------------
(* Safety *)

\* What the room stored and members take can still be had from it: comments
\* for ever, an update until a snapshot holds it.
NothingStoredIsLost ==
    \A seq \in UpTo(HeadSeq) : Counts(epoch, seq) =>
        \/ seq \in kept
        \/ IsUpdate(seq) /\ seq <= snapshot.base /\ entries[seq].id \in snapshot.doc

\* A device that merged up to a sequence number has the text of every update
\* up to it, whatever came by socket, by page or by snapshot, in any order.
MergedIsInText ==
    \A m \in Members : \A seq \in UpTo(note[m].applied) :
        IsUpdate(seq) /\ Counts(note[m].epoch, seq) => entries[seq].id \in note[m].doc

\* In the log.
IsStored(o) == \E seq \in UpTo(HeadSeq) : entries[seq].id = o.id

\* What a device wrote leaves its outbox once the log has it, when its role no
\* longer lets it go, or with the note.
OutboxLeavesStored ==
    [][\A m \in Members : \A o \in note[m].outbox \ note'[m].outbox :
         \/ IsStored(o)
         \/ ~MayWrite(MyRole(m), o.kind)
         \/ note'[m].epoch = 0]_vars

\* What the log says: the update at each position that an editor of its epoch
\* wrote, the late positions, and what each device has of them.
TheLog ==
    [seq \in UpTo(HeadSeq) |->
        IF IsUpdate(seq) /\ Counts(entries[seq].epoch, seq) THEN entries[seq].id ELSE 0]
LateSeqs == {seq \in UpTo(HeadSeq) : IsLate(seq)}
Applied == [m \in Members |-> note[m].applied]
Texts == [m \in Members |-> note[m].doc]

\* Every device's text is that of a beginning of one log, with its own unsent
\* writes: sockets, pages, snapshots, restarts and epochs show nothing else.
Log == INSTANCE ReplicatedLog WITH log <- TheLog, late <- LateSeqs, at <- Applied, text <- Texts
ImplementsLog == Log!Spec

-----------------------------------------------------------------------------
(* Liveness *)

\* Every device in the note ends with the log's head merged, and everything it
\* wrote and still keeps is in the log, whatever was refused, lost or answered
\* too late.
CaughtUp(m) == Active(m) => note[m].applied = HeadSeq /\ \A o \in note[m].outbox : IsStored(o)
Agreement == <>[](\A m \in Members : CaughtUp(m))

-----------------------------------------------------------------------------
(* Stated by the repository, and not what the code does *)

\* "they can read the comments written before they came, which are never
\* compacted" (docs/ACCOUNTS.md:4888): merged up to a seq, a device has every
\* comment up to it.
CommentsAreRead ==
    \A m \in Members : \A seq \in UpTo(note[m].applied) :
        ~IsUpdate(seq) /\ Counts(note[m].epoch, seq) => entries[seq].id \in note[m].comments
=============================================================================
