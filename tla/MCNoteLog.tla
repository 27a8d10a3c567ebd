----------------------------- MODULE MCNoteLog ------------------------------
(***************************************************************************)
(* Small instances of NoteLogProperties.                                   *)
(***************************************************************************)
EXTENDS NoteLogProperties

CONSTANT Guest, First, Later

MCFirstRoles == [m \in Members |-> IF m = Owner THEN "owner" ELSE First]

\* Bound of the inputs: the guest's roles after the change.
LaterRoles == \A m \in Members : m # Owner => rot'.list.roles[m] \in Later \cup {First}

(* The cases of a run: each bounds what happens together.                  *)
NoSockets == \A m \in Members : ~sock[m].open
OneSocket == ~sock[Owner].open
NoComments ==
    /\ \A m \in Members : \A o \in note[m].outbox : o.kind = "u"
    /\ \A seq \in UpTo(HeadSeq) : IsUpdate(seq)
OneWrite == written <= 1 /\ snaps = 0 /\ NoComments
Unchanged == epoch = 1 /\ rot = NoRotation

OneChange == Len(lists) = 1 \/ (Len(lists) = 2 /\ rot.at # "checked")
Stays == \A list \in {lists[epoch], rot.list} : list.roles[Guest] # "none"
ChangeOverHttp == NoSockets /\ OneChange /\ Stays /\ faults = 0
ChangeWhileLive == OneSocket /\ OneWrite /\ OneChange /\ (faults = 0 \/ roomEpoch < epoch)
Live == OneSocket /\ Unchanged /\ NoComments /\ faults = 0
LiveWithFaults == OneSocket /\ Unchanged /\ OneWrite
Resent == HeadSeq >= 2 /\ entries[1].by = Owner /\ entries[1].id = entries[2].id
HttpWithFaults == NoSockets /\ Unchanged /\ (OneWrite \/ Resent)

\* No snapshot of the old epoch above the head the new one names.
SnapshotsAtRest == snaps' # snaps => rot = NoRotation \/ HeadSeq = rot.list.from

Cases ==
    ChangeOverHttp \/ ChangeWhileLive \/ Live \/ LiveWithFaults \/ HttpWithFaults
JoinAndChange == NoSockets /\ faults = 0
AfterJoin == written = 0 \/ Len(lists) > 1
JoinWhileLive == OneSocket /\ OneWrite /\ AfterJoin /\ faults = 0
JoinWithFaults == OneSocket /\ OneWrite /\ AfterJoin /\ OneChange /\ rot = NoRotation
Joins == JoinAndChange \/ JoinWhileLive \/ JoinWithFaults
=============================================================================
