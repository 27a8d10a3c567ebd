------------------------------ MODULE NoteRoom ------------------------------
(***************************************************************************)
(* The live room of one shared note (cloud/src/room.ts) and what the       *)
(* server keeps of its members (cloud/src/collab.ts): the log, the one     *)
(* snapshot, the epoch D1 has and the epoch the room has heard of.         *)
(***************************************************************************)
EXTENDS Integers, Sequences, FiniteSets

CONSTANTS Members,     \* the accounts, one device each
          Owner,
          FirstRoles,  \* roles when the note is shared, at epoch 1
          MaxEdits,    \* bound: updates and comments written
          PageSize,    \* entries of a log page
          Cap          \* COMPACT_ENTRIES

Roles == {"owner", "edit", "comment", "view", "none"}
MayEdit(role) == role \in {"owner", "edit"}
MayWrite(role, kind) == MayEdit(role) \/ (role = "comment" /\ kind = "c")

ASSUME RoomAssumption ==
    /\ Owner \in Members
    /\ FirstRoles \in [Members -> Roles]
    /\ \A m \in Members : (FirstRoles[m] = "owner") <=> (m = Owner)
    /\ MaxEdits \in Nat
    /\ PageSize \in Nat \ {0} /\ Cap \in Nat \ {0}

(* A text is the set of updates merged into it; an update or a comment is  *)
(* named by the local write that made it.  With `by`, the counter `nr`     *)
(* names the envelope.                                                     *)
Ids == 1..MaxEdits
Entry == [id : Ids, kind : {"u", "c"}, epoch : Nat, by : Members, nr : Nat]
Snapshot == [base : Nat, epoch : Nat, by : Members, doc : SUBSET Ids]
List == [from : Nat, roles : [Members -> Roles]]

VARIABLES
    epoch, lists,       \* collab_shares.epoch, collab_lists (D1)
    roomEpoch,          \* the room's: the highest it has been told
    entries,            \* every entry stored; its position is its seq
    kept,               \* the seqs still in `log`
    snapshot,
    since               \* entries since the snapshot

serverVars == <<epoch, lists, roomEpoch, entries, kept, snapshot, since>>

HeadSeq == Len(entries)
RoleOf(m) == lists[epoch].roles[m]
UpTo(seq) == 1..seq

ServerTypeOK ==
    /\ epoch \in Nat \ {0} /\ roomEpoch \in Nat
    /\ lists \in Seq(List) /\ Len(lists) = epoch
    /\ entries \in Seq(Entry)
    /\ kept \subseteq UpTo(HeadSeq)
    /\ snapshot \in Snapshot
    /\ since \in Nat

ServerInit ==
    /\ epoch = 1 /\ roomEpoch = 1
    /\ lists = <<[from |-> 0, roles |-> FirstRoles]>>
    /\ entries = <<>> /\ kept = {}
    /\ snapshot = [base |-> 0, epoch |-> 1, by |-> Owner, doc |-> {}]
    /\ since = 0

-----------------------------------------------------------------------------
(* Appending *)

\* What the Worker (for a request) and the room (for a frame) answer first.
RequestCode(m, e) ==
    CASE RoleOf(m) = "none" -> "not_found"
      [] e.epoch # epoch -> "epoch_changed"
      [] ~MayWrite(RoleOf(m), e.kind) -> "forbidden_role"
      [] since >= Cap -> "compact_first"
      [] OTHER -> "ok"

FrameCode(role, e) ==
    CASE e.epoch # roomEpoch -> "epoch_changed"
      [] ~MayWrite(role, e.kind) -> "forbidden_role"
      [] since >= Cap -> "compact_first"
      [] OTHER -> "ok"

\* adoptEpoch, told by a request the Worker checked against D1.
AdoptEpoch == roomEpoch' = IF epoch > roomEpoch THEN epoch ELSE roomEpoch

\* After the quota query: the epoch and the cap are not looked at again.
\* Mutant: the next sequence number is one too far.
StoresPastHead(e) ==
    /\ entries' = Append(entries, e)
    /\ kept' = kept \cup {HeadSeq + 2}
    /\ since' = since + 1
    /\ UNCHANGED <<epoch, lists, roomEpoch, snapshot>>

StoreEntry(e) ==
    /\ entries' = Append(entries, e)
    /\ kept' = kept \cup {HeadSeq + 1}
    /\ since' = since + 1
    /\ UNCHANGED <<epoch, lists, roomEpoch, snapshot>>

-----------------------------------------------------------------------------
(* Snapshots and reading *)

TakesSnapshot(s) == s.epoch = epoch /\ s.base = HeadSeq

\* Mutant: comments go with the updates.
KeepsNothing(base) == {seq \in kept : seq > base}

KeepsAfter(base) == {seq \in kept : seq > base \/ entries[seq].kind = "c"}

TakeSnapshot(s) ==
    /\ snapshot' = s
    /\ kept' = KeepsAfter(s.base)
    /\ since' = 0
    /\ UNCHANGED <<epoch, lists, entries>>

NoSnapshot == [base |-> -1]

\* read: the first PageSize entries after `from`, and the snapshot for a
\* reader that starts or is behind it.
FirstOf(seqs) == {seq \in seqs : Cardinality({s \in seqs : s <= seq}) <= PageSize}
LogPage(from) ==
    LET after == {seq \in kept : seq > from}
    IN  [snapshot |-> IF from = 0 \/ from < snapshot.base THEN snapshot ELSE NoSnapshot,
         seqs |-> FirstOf(after), more |-> Cardinality(after) > PageSize]

-----------------------------------------------------------------------------
(* Epochs *)

\* An entry of `of`, seen with the lists up to `known`: did a later epoch
\* begin before it (log.rs past_its_epoch)?
PastItsEpoch(known, of, seq) == of < known /\ seq > lists[of + 1].from

\* The compare-and-swap batch of newEpoch.
StoreEpoch(list) ==
    /\ epoch' = epoch + 1
    /\ lists' = Append(lists, list)
    /\ UNCHANGED <<roomEpoch, entries, kept, snapshot, since>>
=============================================================================
