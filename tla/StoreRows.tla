------------------------------ MODULE StoreRows ------------------------------
(***************************************************************************)
(* A document's row in the local store and what each store transaction     *)
(* does to it (kanso-store/src/sync.rs, write.rs).  The module has no      *)
(* variables: an operator takes a row and returns the row the transaction  *)
(* leaves.                                                                 *)
(***************************************************************************)
EXTENDS Revisions

(* plain: a tag; note: a note, or a notebook other than the ones below;    *)
(* canvas: an unlocked, unshared canvas; daily: a daily note; role: the    *)
(* Journal, Inbox or Templates notebook; review: a month of answers.       *)
Kinds == {"plain", "note", "canvas", "daily", "role", "review"}

(* rev     the current revision                                            *)
(* synced  synced_rev: what this account's server holds, as far as known   *)
(* floor   synced_gen: the highest generation seen on this account         *)
(* sent    sent_rev: in a push whose answer isn't processed                *)
(* past    the contents in the revision history                            *)
(* seen    history variable: the edits this version takes into account     *)
Row == [rev : Rev, synced : Rev, floor : Nat, sent : Rev,
        past : SUBSET Content, seen : SUBSET Edits]

NoRow == [rev |-> NoRev, synced |-> NoRev, floor |-> 0, sent |-> NoRev,
          past |-> {}, seen |-> {}]

Exists(r) == r.rev.gen # 0
Deleted(r) == r.rev.hash = Tomb
Live(r) == Exists(r) /\ ~Deleted(r)

\* The WHERE clause of pending_push and pending_count.
Pending(r) == Exists(r) /\ r.synced # r.rev

\* SyncState::never_on_account: the tombstones reset_sync leaves.
NeverOnAccount(r) == Deleted(r) /\ r.floor = 0 /\ r.synced = r.rev

\* Mutant: every push goes as a new document's.
NoPushBase(r) == NoRev

\* The base_rev pending_push sends with a row.
PushBase(r) == IF r.floor = 0 THEN NoRev ELSE r.synced

-----------------------------------------------------------------------------
(* Local writes *)

\* Mutant: tombstones go into history too.
SnapshotOfAny(kind, r) ==
    IF Exists(r) /\ kind # "review" THEN r.past \cup {r.rev.hash} ELSE r.past

\* store_row's snapshot of the live version it replaces.
Snapshot(kind, r) ==
    IF Live(r) /\ kind # "review" THEN r.past \cup {r.rev.hash} ELSE r.past

\* put_in: a new revision on the current one, tombstones included.  A save
\* from the editor within five minutes of the last snapshot keeps none.
EditRow(kind, r, content, edit, snapshots) ==
    [r EXCEPT !.rev  = NextRev(r.rev, content),
              !.past = IF snapshots THEN Snapshot(kind, r) ELSE r.past,
              !.seen = r.seen \cup {edit}]

\* delete_row: the version it deletes goes into history, a month of answers
\* only when the deletion is the app's (`ui`) and not the API's.
DeleteRow(kind, r, edit, ui) ==
    [r EXCEPT !.rev  = NextRev(r.rev, Tomb),
              !.past = IF ui THEN r.past \cup {r.rev.hash} ELSE Snapshot(kind, r),
              !.seen = r.seen \cup {edit}]

-----------------------------------------------------------------------------
(* Sync bookkeeping *)

\* The server holds `rev`: it is the next base, and the floor rises to it.
Learned(r, rev) ==
    [r EXCEPT !.synced = rev, !.floor = Higher(r.floor, rev.gen), !.sent = NoRev]

\* Mutant: a sent revision isn't recorded.
SentForgotten(r, rev) == r

MarkSent(r, rev) == [r EXCEPT !.sent = rev]

\* The floor stays.
MarkUnsynced(r) == [r EXCEPT !.synced = NoRev, !.sent = NoRev]

\* mark_missing_unsynced, for a row the server's whole feed did not carry.
MarkMissingRow(r) ==
    IF r.synced = NoRev \/ NeverOnAccount(r) THEN r ELSE MarkUnsynced(r)

\* bump_revision: pushed again, on the revision the server holds broken.
BumpRevision(r) == [r EXCEPT !.rev = Rebased(r.rev, r.rev.gen)]

\* Mutant: the other account's bookkeeping stays.
KeepSync(r) == r

\* reset_sync, for a binding to another account.
ResetSync(r) ==
    [r EXCEPT !.synced = IF Deleted(r) THEN r.rev ELSE NoRev,
              !.floor = 0, !.sent = NoRev]

-----------------------------------------------------------------------------
(* apply_remote.  A version v is [rev, seen]; an outcome is the row and    *)
(* what the engine is told.                                                *)

Version == [rev : Rev, seen : SUBSET Edits]
VDeleted(v) == v.rev.hash = Tomb
BothLive(r, v) == Live(r) /\ ~VDeleted(v)
Dirty(r) == r.synced # r.rev

HoldsContent(r, v) == v.rev.hash = r.rev.hash \/ v.rev.hash \in r.past

\* keep_remote, for a version that has a content to keep.
KeepRemote(past, v) == IF VDeleted(v) THEN past ELSE past \cup {v.rev.hash}

\* store_row of the version itself.
StoreRemote(kind, r, v) ==
    Learned([r EXCEPT !.rev = v.rev, !.past = Snapshot(kind, r), !.seen = v.seen],
            v.rev)

\* Mutant: at the higher generation instead of one above it.
StoreLevel(r, v, past, content) ==
    Learned([r EXCEPT !.rev  = [gen |-> Higher(r.rev.gen, v.rev.gen), hash |-> content],
                      !.past = past,
                      !.seen = r.seen \cup v.seen],
            v.rev)

\* A content of this device's, one generation above both sides.
StoreAbove(r, v, past, content) ==
    Learned([r EXCEPT !.rev  = [gen  |-> Higher(r.rev.gen, v.rev.gen) + 1,
                                hash |-> content],
                      !.past = past,
                      !.seen = r.seen \cup v.seen],
            v.rev)

\* set_rev to rebased(): the local content again, above the remote version.
Rebase(r, v, past) == StoreAbove(r, v, past, r.rev.hash)

\* Two first versions made apart: the local one never reached this account.
MadeApart(r, v) == BothLive(r, v) /\ r.synced = NoRev /\ r.floor = 0

Later(r, v) == Higher(r.rev.hash.at, v.rev.hash.at)
AllBody(r, v) == r.rev.hash.body \cup v.rev.hash.body
AllFacts(r, v) == r.rev.hash.facts \cup v.rev.hash.facts

\* Mutant: the merge keeps the remote lines alone.
RemoteLines(r, v) == v.rev.hash

\* merge_daily: the remote note with both sides' lines.
DailyMerge(r, v) == [v.rev.hash EXCEPT !.body = AllBody(r, v), !.at = Later(r, v)]

\* review_doc::merge_fields, merge_canvas_fields.
Union(r, v) == [body |-> AllBody(r, v), at |-> Later(r, v), facts |-> AllFacts(r, v)]

\* Mutants: a deletion beats an edit; a live month of answers beats a deletion.
DeletionWins(kind, r, v) ==
    \/ ~Dirty(r) \/ VDeleted(v)
    \/ BothLive(r, v) /\ v.rev.hash.at >= r.rev.hash.at
AnswersComeBack(kind, r, v) ==
    \/ ~Dirty(r) \/ Deleted(r)
    \/ BothLive(r, v) /\ v.rev.hash.at >= r.rev.hash.at

RemoteWins(kind, r, v) ==
    \/ ~Dirty(r)
    \/ Deleted(r) /\ ~VDeleted(v) /\ kind # "review"
    \/ Live(r) /\ VDeleted(v) /\ kind = "review"
    \/ Deleted(r) /\ VDeleted(v)
    \/ BothLive(r, v) /\ v.rev.hash.at >= r.rev.hash.at

\* union_loops_and_acks into the winner of last-writer-wins.
Winner(kind, r, v) == IF RemoteWins(kind, r, v) THEN v.rev.hash ELSE r.rev.hash
\* Mutant: the loser's facts are dropped.
NotFolded(kind, r, v) == Winner(kind, r, v)
Folded(kind, r, v) == [Winner(kind, r, v) EXCEPT !.facts = AllFacts(r, v)]

\* A live version at or below the floor that this device never held.
NeverHeld(r, v) == ~VDeleted(v) /\ ~HoldsContent(r, v)

Outcome(row, told) == [row |-> row, told |-> told]

\* Mutant: a version below the floor is taken.
StaleReverts(kind, r, v) == Outcome(StoreRemote(kind, r, v), "RemoteWon")
\* At or below the replay floor: never reverts, unless an edit meets a deletion.
ApplyStale(kind, r, v) ==
    IF NeverHeld(r, v) /\ Deleted(r) /\ kind # "review"
      THEN Outcome(StoreRemote(kind, r, v), "RemoteWon")
    ELSE IF NeverHeld(r, v)
      THEN Outcome(Rebase(r, v, KeepRemote(r.past, v)), "StaleConflict")
    ELSE Outcome(Rebase(r, v, r.past), "Stale")

ApplyDaily(kind, r, v) ==
    IF r.rev.hash.body \subseteq v.rev.hash.body
      THEN Outcome(StoreRemote(kind, r, v), "Applied")
      ELSE Outcome(StoreAbove(r, v, KeepRemote(Snapshot(kind, r), v), DailyMerge(r, v)),
                   "LocalWon")

\* The remote version of a canvas is kept as history; answers keep none.
ApplyUnion(kind, r, v) ==
    IF Union(r, v) = v.rev.hash
      THEN Outcome(StoreRemote(kind, r, v), "RemoteWon")
      ELSE Outcome(StoreAbove(r, v, IF kind = "canvas" THEN KeepRemote(Snapshot(kind, r), v)
                                                       ELSE r.past,
                              Union(r, v)),
                   "LocalWon")

\* Mutant: a replaced local edit isn't told from a clean copy.
LastWriterUntold(kind, r, v) ==
    IF RemoteWins(kind, r, v)
      THEN Outcome(StoreRemote(kind, r, v), "Applied")
      ELSE Outcome(Rebase(r, v, KeepRemote(r.past, v)), "LocalWon")

ApplyLastWriter(kind, r, v) ==
    IF /\ Dirty(r) /\ kind \in {"note", "canvas", "daily", "role"} /\ BothLive(r, v)
       /\ Folded(kind, r, v) # Winner(kind, r, v)
      THEN Outcome(StoreAbove(r, v, KeepRemote(Snapshot(kind, r), v), Folded(kind, r, v)),
                   "LocalWon")
    ELSE IF RemoteWins(kind, r, v)
      THEN Outcome(StoreRemote(kind, r, v), IF Dirty(r) THEN "RemoteWon" ELSE "Applied")
    ELSE Outcome(Rebase(r, v, KeepRemote(r.past, v)), "LocalWon")

\* Mutant: only a template the remote one has none of counts.
GivenAlone(r, v) == r.rev.hash.body # {} /\ v.rev.hash.body = {}

\* A role notebook whose template (its body here) the remote one lacks.
Given(r, v) == r.rev.hash.body # {} /\ r.rev.hash.body # v.rev.hash.body

\* The rules of `apply`, in its order.
ApplyRemote(kind, r, v) ==
    IF ~Exists(r)
      THEN Outcome(StoreRemote(kind, r, v), "Applied")
    ELSE IF r.rev = v.rev
      THEN Outcome([Learned(r, v.rev) EXCEPT !.seen = r.seen \cup v.seen], "Unchanged")
    ELSE IF r.synced = v.rev
      THEN Outcome(r, "Unchanged")
    ELSE IF r.sent = v.rev
      THEN Outcome(Learned(r, v.rev), "Unchanged")
    ELSE IF v.rev.gen <= r.floor
      THEN ApplyStale(kind, r, v)
    ELSE IF kind = "daily" /\ MadeApart(r, v)
      THEN ApplyDaily(kind, r, v)
    ELSE IF kind = "role" /\ MadeApart(r, v) /\ ~Given(r, v)
      THEN Outcome(StoreRemote(kind, r, v), "Applied")
    ELSE IF kind \in {"review", "canvas"} /\ Dirty(r) /\ BothLive(r, v)
      THEN ApplyUnion(kind, r, v)
    ELSE ApplyLastWriter(kind, r, v)

-----------------------------------------------------------------------------
(* What every transaction keeps of a row *)

\* `old` is on the way to `rev`, or `rev` itself.
Upto(old, rev) == old = rev \/ old.gen < rev.gen

\* A row exists from generation 1 on, and what it holds for synced or sent is
\* its own revision or one of a lower generation.
RowInv(r) ==
    /\ r.rev.gen = 0 => r.rev = NoRev /\ r.past = {}
    /\ Upto(r.synced, r.rev)
    /\ Upto(r.sent, r.rev)
=============================================================================
