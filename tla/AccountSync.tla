----------------------------- MODULE AccountSync -----------------------------
(***************************************************************************)
(* The devices of one account and their sync engines                       *)
(* (kanso-sync/src/engine.rs) over their stores and the server.  An action *)
(* is one store transaction or one request: everything else may run        *)
(* between two of them, and a sync may stop after any of them.             *)
(***************************************************************************)
EXTENDS AccountServer

CONSTANTS Kind,           \* [Docs -> Kinds]
          PageSize,       \* SyncOptions::page_size
          MaxRounds,      \* SyncOptions::max_rounds
          Snapshots,      \* whether an edit may, or must, keep the version it replaces
          MaxDeletes,     \* bound: local deletions
          MaxInterrupts,  \* bound: syncs that stop midway
          MaxLate,        \* bound: requests the server runs after the device gave up
          MaxBehind,      \* bound: answers the server has no room for
          MaxBackups,     \* bound: points a restore may return to
          MaxRestores,    \* bound
          MaxDamage,      \* bound: server rows that stop opening
          MaxBinds        \* bound: bindings after the first

ASSUME SyncAssumption ==
    /\ Kind \in [Docs -> Kinds]
    /\ PageSize \in Nat \ {0} /\ MaxRounds \in Nat \ {0}
    /\ Snapshots \subseteq BOOLEAN
    /\ {MaxDeletes, MaxInterrupts, MaxLate, MaxBehind, MaxBackups, MaxRestores, MaxDamage, MaxBinds}
         \subseteq Nat

NoEpoch == 0     \* no saved epoch: the library was just bound
Remerging == -1  \* engine.rs REMERGING, never a server's epoch

(* idle      no sync runs                                                  *)
(* lengths, rows           the two reads of a page                         *)
(* adopt                   saves the account's epoch                       *)
(* rewind, rewindThis      sets the cursor to 0; rewindThis keeps the page *)
(* mark, markThis          sets the epoch to Remerging                     *)
(* entries   applies the page, then saves the cursor                       *)
(* missing, adoptLast      the end of a re-merge                           *)
(* pick      reads what is pending                                         *)
(* send, wait, results     a push request                                  *)
Steps == {"idle", "lengths", "rows", "adopt", "rewind", "rewindThis", "mark", "markThis",
          "entries", "missing", "adoptLast", "pick", "send", "wait", "results"}

Statuses == {"none", "ok", "conflict", "lost", "behind", "broken", "newer"}
Answer == [status : Statuses, row : ServerRow]
NoAnswer == [status |-> "none", row |-> NoServerRow]

VARIABLES
    rows, cursor, saved,            \* the store: documents, last_seq, epoch
    pc,                             \* the step of the device's sync, if any
    upto, more, page, last,         \* the page being read and applied
    runEpoch, remerging, present,   \* Run::epoch, remerging, present
    batch, answer,                  \* the push request and its results
    round, again, needPull, held,   \* the push loop
    report,                         \* SyncReport::conflicted
    late,                           \* requests given up on, not yet run
    edits, deletes, interrupts, behinds, backups, restores, damages, binds \* bounds

storeVars == <<rows, cursor, saved>>
pageVars == <<upto, more, page, last>>
runVars == <<runEpoch, remerging, present>>
pushVars == <<batch, answer, round, again, needPull, held>>
otherBounds == <<backups, restores, damages, binds>>
bounds == <<edits, deletes, interrupts, behinds, otherBounds>>
vars == <<storeVars, pc, pageVars, runVars, pushVars, report, late, bounds, serverVars>>

NoPage == [doc \in Docs |-> NoServerRow]
NoBatch == [doc \in Docs |-> NoPush]
NoAnswers == [doc \in Docs |-> NoAnswer]

StoreTypeOK ==
    /\ rows \in [Devices -> [Docs -> Row]]
    /\ cursor \in [Devices -> Nat]
    /\ saved \in [Devices -> Nat \cup {Remerging}]

PullTypeOK ==
    /\ upto \in [Devices -> Nat] /\ more \in [Devices -> BOOLEAN]
    /\ page \in [Devices -> [Docs -> ServerRow]]
    /\ last \in [Devices -> Nat]
    /\ runEpoch \in [Devices -> Nat]
    /\ remerging \in [Devices -> BOOLEAN]
    /\ present \in [Devices -> SUBSET Docs]

PushTypeOK ==
    /\ batch \in [Devices -> [Docs -> Push]]
    /\ answer \in [Devices -> [Docs -> Answer]]
    /\ round \in [Devices -> Nat]
    /\ again \in [Devices -> BOOLEAN] /\ needPull \in [Devices -> BOOLEAN]
    /\ held \in [Devices -> SUBSET Docs]

RunTypeOK ==
    /\ pc \in [Devices -> Steps]
    /\ report \in [Devices -> SUBSET Docs]
    /\ late \in [Devices -> SUBSET [Docs -> Push]]

BoundsTypeOK ==
    /\ edits \in Nat /\ deletes \in Nat /\ interrupts \in Nat /\ behinds \in Nat
    /\ backups \in Nat /\ restores \in Nat /\ damages \in Nat /\ binds \in Nat

TypeOK == ServerTypeOK /\ StoreTypeOK /\ PullTypeOK /\ PushTypeOK /\ RunTypeOK /\ BoundsTypeOK

Each(value) == [d \in Devices |-> value]

Init ==
    /\ ServerInit
    /\ rows = Each([doc \in Docs |-> NoRow])
    /\ cursor = Each(0) /\ saved = Each(NoEpoch)
    /\ pc = Each("idle")
    /\ upto = Each(0) /\ more = Each(FALSE) /\ page = Each(NoPage) /\ last = Each(0)
    /\ runEpoch = Each(NoEpoch) /\ remerging = Each(FALSE) /\ present = Each({})
    /\ batch = Each(NoBatch) /\ answer = Each(NoAnswers)
    /\ round = Each(0) /\ again = Each(FALSE) /\ needPull = Each(FALSE) /\ held = Each({})
    /\ report = Each({}) /\ late = Each({})
    /\ edits = 0 /\ deletes = 0 /\ interrupts = 0 /\ behinds = 0
    /\ backups = 0 /\ restores = 0 /\ damages = 0 /\ binds = 0

Goto(d, step) == pc' = [pc EXCEPT ![d] = step]
SetRow(d, doc, row) == rows' = [rows EXCEPT ![d][doc] = row]

-----------------------------------------------------------------------------
(* The person, the editor and the local API: writes at any moment *)

\* What a write makes of a content: the text rewritten, a piece added to it
\* or a fact recorded, at whatever time the device's clock says.
EditsOf(kind, content, edit, at) ==
    LET rewritten == [content EXCEPT !.body = {edit}, !.at = at]
        appended == [content EXCEPT !.body = @ \cup {edit}, !.at = at]
        recorded == [content EXCEPT !.facts = @ \cup {edit}, !.at = at]
    IN  CASE kind \in {"plain", "role"} -> {rewritten}
          [] kind = "note" -> {rewritten, recorded}
          [] kind = "canvas" -> {appended}
          [] kind = "daily" -> {appended, recorded}
          [] kind = "review" -> {recorded}

\* A role notebook may be made with no template; a note has no facts yet.
FirstContents(kind, edit, at) ==
    LET empty == [body |-> {}, at |-> at, facts |-> {}]
        written == [empty EXCEPT !.body = {edit}]
        answered == [empty EXCEPT !.facts = {edit}]
    IN  CASE kind = "role" -> {empty, written}
          [] kind = "review" -> {answered}
          [] kind \in {"plain", "note", "canvas", "daily"} -> {written}

LocalOnly == UNCHANGED <<cursor, saved, pc, pageVars, runVars, pushVars, report, late,
                         interrupts, behinds, otherBounds, serverVars>>

Write(d, doc) ==
    /\ edits < MaxEdits
    /\ edits' = edits + 1
    /\ \E at \in Times, snapshots \in Snapshots :
         \E content \in IF Live(rows[d][doc])
                          THEN EditsOf(Kind[doc], rows[d][doc].rev.hash, edits', at)
                          ELSE FirstContents(Kind[doc], edits', at) :
           SetRow(d, doc, EditRow(Kind[doc], rows[d][doc], content, edits', snapshots))
    /\ UNCHANGED deletes
    /\ LocalOnly

Delete(d, doc) ==
    /\ edits < MaxEdits /\ deletes < MaxDeletes
    /\ deletes' = deletes + 1
    /\ Live(rows[d][doc])
    /\ edits' = edits + 1
    /\ \E ui \in BOOLEAN : SetRow(d, doc, DeleteRow(Kind[doc], rows[d][doc], edits', ui))
    /\ LocalOnly

-----------------------------------------------------------------------------
(* Binding.  The caller has cancelled and joined the running sync. *)

\* Mutant: the cursor isn't reset.
BoundInPlace(d) ==
    /\ binds < MaxBinds /\ pc[d] = "idle"
    /\ binds' = binds + 1
    /\ saved' = [saved EXCEPT ![d] = NoEpoch]
    /\ UNCHANGED <<cursor, pc, pageVars, runVars, pushVars, report, late, edits, deletes,
                   interrupts, behinds, backups, restores, damages, serverVars>>

Bound(d) ==
    /\ binds < MaxBinds /\ pc[d] = "idle"
    /\ binds' = binds + 1
    /\ cursor' = [cursor EXCEPT ![d] = 0]
    /\ saved' = [saved EXCEPT ![d] = NoEpoch]
    /\ UNCHANGED <<pc, pageVars, runVars, pushVars, report, late, edits, deletes, interrupts, behinds,
                   backups, restores, damages, serverVars>>

\* The row after another account's server took it.
TakenElsewhere(r) == IF Exists(r) THEN Learned(r, r.rev) ELSE r

\* Choice::Add, after the library was another account's, which took some of it.
BindAdd(d) ==
    /\ Bound(d)
    /\ \E taken \in SUBSET Docs :
         rows' = [rows EXCEPT ![d] = [doc \in Docs |->
                    ResetSync(IF doc \in taken THEN TakenElsewhere(rows[d][doc]) ELSE rows[d][doc])]]

\* Choice::Replace: the library is emptied.
BindReplace(d) ==
    /\ Bound(d)
    /\ rows' = [rows EXCEPT ![d] = [doc \in Docs |-> NoRow]]

-----------------------------------------------------------------------------
(* The pull *)

\* A sync begins with this read, and so does every later page.
ReadLengths(d) ==
    /\ pc[d] \in {"idle", "lengths"}
    /\ LET seqs == FirstSeqs(cursor[d], PageSize)
       IN  /\ \E to \in IF seqs = {} THEN {cursor[d]} ELSE seqs :
                /\ \A s \in seqs : s <= to
                /\ upto' = [upto EXCEPT ![d] = to]
           /\ more' = [more EXCEPT ![d] = Cardinality(seqs) = PageSize]
    /\ Goto(d, "rows")
    /\ UNCHANGED <<storeVars, page, last, runVars, pushVars, report, late, bounds, serverVars>>

\* The server's copy was restored or rewound.
Restored(d) == saved[d] \notin {NoEpoch, epoch} \/ lastSeq < cursor[d]

FirstPageStep(d) ==
    IF Restored(d) THEN (IF cursor[d] = 0 THEN "rewindThis" ELSE "rewind")
    ELSE IF saved[d] = NoEpoch THEN "adopt"
    ELSE "entries"

\* The page arrives.  Its epoch must be the one this sync began with, and a
\* page that says more follow must hold something: the sync fails otherwise.
ReadRows(d) ==
    /\ pc[d] = "rows"
    /\ runEpoch[d] \in {NoEpoch, epoch}
    /\ LET got == RowsBetween(cursor[d], upto[d])
       IN  /\ more[d] => got # NoPage
           /\ page' = [page EXCEPT ![d] = got]
    /\ runEpoch' = [runEpoch EXCEPT ![d] = epoch]
    /\ last' = [last EXCEPT ![d] = cursor[d]]
    /\ Goto(d, IF runEpoch[d] = NoEpoch THEN FirstPageStep(d) ELSE "entries")
    /\ UNCHANGED <<storeVars, upto, more, remerging, present, pushVars, report, late, bounds,
                   serverVars>>

\* The first sync after binding.
AdoptEpoch(d) ==
    /\ pc[d] = "adopt"
    /\ saved' = [saved EXCEPT ![d] = runEpoch[d]]
    /\ Goto(d, "entries")
    /\ UNCHANGED <<rows, cursor, pageVars, runVars, pushVars, report, late, bounds, serverVars>>

RewindCursor(d) ==
    /\ pc[d] \in {"rewind", "rewindThis"}
    /\ cursor' = [cursor EXCEPT ![d] = 0]
    /\ Goto(d, IF pc[d] = "rewind" THEN "mark" ELSE "markThis")
    /\ UNCHANGED <<rows, saved, pageVars, runVars, pushVars, report, late, bounds, serverVars>>

MarkRemerging(d) ==
    /\ pc[d] \in {"mark", "markThis"}
    /\ saved' = [saved EXCEPT ![d] = Remerging]
    /\ remerging' = [remerging EXCEPT ![d] = TRUE]
    /\ present' = [present EXCEPT ![d] = {}]
    /\ Goto(d, IF pc[d] = "mark" THEN "lengths" ELSE "entries")
    /\ UNCHANGED <<rows, cursor, pageVars, runEpoch, pushVars, report, late, bounds, serverVars>>

\* The next entry of the page, in the feed's order.
NextEntry(d, doc) ==
    /\ page[d][doc] # NoServerRow
    /\ \A other \in Docs : page[d][other] # NoServerRow => page[d][doc].seq <= page[d][other].seq

\* Mutant: what a re-merge replaces isn't flagged.
FlaggedOutright(d, kind, r, v) ==
    ApplyRemote(kind, r, v).told \in {"RemoteWon", "LocalWon", "StaleConflict"}

\* Engine::apply: the outcome of apply_remote and what it adds to the report.
\* During a re-merge a version that replaces other live content is flagged.
Flagged(d, kind, r, v) ==
    LET told == ApplyRemote(kind, r, v).told
    IN  \/ told \in {"RemoteWon", "LocalWon", "StaleConflict"}
        \/ told = "Applied" /\ remerging[d] /\ Live(r) /\ r.rev.hash # v.rev.hash

EngineApply(d, doc, v) ==
    /\ SetRow(d, doc, ApplyRemote(Kind[doc], rows[d][doc], v).row)
    /\ report' = [report EXCEPT ![d] = IF Flagged(d, Kind[doc], rows[d][doc], v)
                                         THEN @ \cup {doc} ELSE @]

EntryDone(d, doc) ==
    /\ page' = [page EXCEPT ![d][doc] = NoServerRow]
    /\ last' = [last EXCEPT ![d] = page[d][doc].seq]
    /\ UNCHANGED <<cursor, saved, pc, upto, more, runEpoch, remerging, pushVars, late, bounds,
                   serverVars>>

AsVersion(row) == [rev |-> row.rev, seen |-> row.seen]

ApplyEntry(d, doc) ==
    /\ pc[d] = "entries" /\ NextEntry(d, doc) /\ page[d][doc].form = "sealed"
    /\ present' = [present EXCEPT ![d] = IF remerging[d] THEN @ \cup {doc} ELSE @]
    /\ EngineApply(d, doc, AsVersion(page[d][doc]))
    /\ EntryDone(d, doc)

\* A damaged copy is repaired only when it is the version this device last
\* synced; any other is passed over.
UndecryptableEntry(d, doc) ==
    /\ pc[d] = "entries" /\ NextEntry(d, doc) /\ page[d][doc].form = "broken"
    /\ present' = [present EXCEPT ![d] =
                     IF remerging[d] /\ Exists(rows[d][doc]) THEN @ \cup {doc} ELSE @]
    /\ IF Exists(rows[d][doc]) /\ rows[d][doc].synced = page[d][doc].rev
         THEN SetRow(d, doc, BumpRevision(rows[d][doc]))
         ELSE UNCHANGED rows
    /\ UNCHANGED report
    /\ EntryDone(d, doc)

TooNew(d) == \E doc \in Docs : NextEntry(d, doc) /\ page[d][doc].form = "newer"

\* Mutants: the cursor goes to the account's head; it passes a document in a
\* newer format.
SaveHead(d) ==
    /\ pc[d] = "entries"
    /\ page[d] = NoPage \/ TooNew(d)
    /\ cursor' = [cursor EXCEPT ![d] = Higher(@, lastSeq)]
    /\ page' = [page EXCEPT ![d] = NoPage]
    /\ Goto(d, IF TooNew(d) THEN "pick"
               ELSE IF more[d] THEN "lengths"
               ELSE IF remerging[d] THEN "missing" ELSE "pick")
    /\ UNCHANGED <<rows, saved, upto, more, last, runVars, pushVars, report, late, bounds,
                   serverVars>>
SavePastNewer(d) ==
    /\ pc[d] = "entries"
    /\ page[d] = NoPage \/ TooNew(d)
    /\ cursor' = [cursor EXCEPT ![d] = Higher(@, upto[d])]
    /\ page' = [page EXCEPT ![d] = NoPage]
    /\ Goto(d, IF more[d] THEN "lengths" ELSE IF remerging[d] THEN "missing" ELSE "pick")
    /\ UNCHANGED <<rows, saved, upto, more, last, runVars, pushVars, report, late, bounds,
                   serverVars>>

\* The page is applied, or stops before a document in a newer format, which
\* also ends the pull.
SaveCursor(d) ==
    /\ pc[d] = "entries"
    /\ page[d] = NoPage \/ TooNew(d)
    /\ cursor' = [cursor EXCEPT ![d] = Higher(@, last[d])]
    /\ page' = [page EXCEPT ![d] = NoPage]
    /\ Goto(d, IF TooNew(d) THEN "pick"
               ELSE IF more[d] THEN "lengths"
               ELSE IF remerging[d] THEN "missing" ELSE "pick")
    /\ UNCHANGED <<rows, saved, upto, more, last, runVars, pushVars, report, late, bounds,
                   serverVars>>

\* After a re-merge's last page: what the feed did not carry, the server lost.
MarkMissing(d) ==
    /\ pc[d] = "missing"
    /\ rows' = [rows EXCEPT ![d] = [doc \in Docs |->
                  IF doc \in present[d] THEN rows[d][doc] ELSE MarkMissingRow(rows[d][doc])]]
    /\ Goto(d, "adoptLast")
    /\ UNCHANGED <<cursor, saved, pageVars, runVars, pushVars, report, late, bounds, serverVars>>

FinishRemerge(d) ==
    /\ pc[d] = "adoptLast"
    /\ saved' = [saved EXCEPT ![d] = runEpoch[d]]
    /\ remerging' = [remerging EXCEPT ![d] = FALSE]
    /\ present' = [present EXCEPT ![d] = {}]
    /\ Goto(d, "pick")
    /\ UNCHANGED <<rows, cursor, pageVars, runEpoch, pushVars, report, late, bounds, serverVars>>

-----------------------------------------------------------------------------
(* The push *)

ToPush(d, doc) == Pending(rows[d][doc]) /\ doc \notin held[d]

PushOf(r) == [rev |-> r.rev, base |-> PushBase(r), seen |-> r.seen]

PickPending(d) ==
    /\ pc[d] = "pick"
    /\ round[d] < MaxRounds
    /\ \E doc \in Docs : ToPush(d, doc)
    /\ batch' = [batch EXCEPT ![d] =
                   [doc \in Docs |-> IF ToPush(d, doc) THEN PushOf(rows[d][doc]) ELSE NoPush]]
    /\ round' = [round EXCEPT ![d] = @ + 1]
    /\ again' = [again EXCEPT ![d] = FALSE]
    /\ needPull' = [needPull EXCEPT ![d] = FALSE]
    /\ Goto(d, "send")
    /\ UNCHANGED <<storeVars, pageVars, runVars, answer, held, report, late, bounds, serverVars>>

\* mark_sent for the whole batch, then the request.
SendPush(d) ==
    /\ pc[d] = "send"
    /\ rows' = [rows EXCEPT ![d] = [doc \in Docs |->
                  IF doc \in Pushed(batch[d]) THEN MarkSent(rows[d][doc], batch[d][doc].rev)
                                              ELSE rows[d][doc]]]
    /\ Goto(d, "wait")
    /\ UNCHANGED <<cursor, saved, pageVars, runVars, pushVars, report, late, bounds, serverVars>>

\* What the device makes of one result: a conflict's version may not open.
StatusOf(doc, accepted, behind) ==
    IF doc \in accepted THEN "ok"
    ELSE IF srv[doc].rev = NoRev THEN "lost"
    ELSE IF doc \in behind THEN "behind"
    ELSE CASE srv[doc].form = "sealed" -> "conflict"
           [] srv[doc].form = "broken" -> "broken"
           [] srv[doc].form = "newer" -> "newer"

ServerAnswers(d) ==
    /\ pc[d] = "wait"
    /\ AcceptPush(batch[d], d)
    /\ \E behind \in SUBSET {doc \in Pushed(batch[d]) \ Accepts(batch[d]) : srv[doc].rev # NoRev} :
         /\ behinds' = behinds + Cardinality(behind)
         /\ behinds' <= MaxBehind
         /\ answer' = [answer EXCEPT ![d] = [doc \in Docs |->
                         IF doc \in Pushed(batch[d])
                           THEN [status |-> StatusOf(doc, Accepts(batch[d]), behind),
                                 row |-> srv[doc]]
                           ELSE NoAnswer]]
    /\ Goto(d, "results")
    /\ UNCHANGED <<storeVars, pageVars, runVars, batch, round, again, needPull, held, report,
                   late, edits, deletes, interrupts, otherBounds>>

\* One result is processed.
Processed(d, doc) ==
    /\ answer' = [answer EXCEPT ![d][doc] = NoAnswer]
    /\ UNCHANGED <<cursor, saved, pc, pageVars, runVars, batch, round, late, bounds, serverVars>>

Result(d, doc, status) == pc[d] = "results" /\ answer[d][doc].status = status

\* Mutant: the row's current revision is taken for the accepted one.
OkIsCurrent(d, doc) ==
    /\ Result(d, doc, "ok")
    /\ SetRow(d, doc, Learned(rows[d][doc], rows[d][doc].rev))
    /\ Processed(d, doc)
    /\ UNCHANGED <<again, needPull, held, report>>

ResultOk(d, doc) ==
    /\ Result(d, doc, "ok")
    /\ SetRow(d, doc, Learned(rows[d][doc], batch[d][doc].rev))
    /\ Processed(d, doc)
    /\ UNCHANGED <<again, needPull, held, report>>

ResultConflict(d, doc) ==
    /\ Result(d, doc, "conflict")
    /\ EngineApply(d, doc, AsVersion(answer[d][doc].row))
    /\ again' = [again EXCEPT ![d] = TRUE]
    /\ Processed(d, doc)
    /\ UNCHANGED <<needPull, held>>

ResultLost(d, doc) ==
    /\ Result(d, doc, "lost")
    /\ SetRow(d, doc, MarkUnsynced(rows[d][doc]))
    /\ again' = [again EXCEPT ![d] = TRUE]
    /\ Processed(d, doc)
    /\ UNCHANGED <<needPull, held, report>>

\* Mutant: a result the server left out is taken for an ok.
BehindIsOk(d, doc) ==
    /\ Result(d, doc, "behind")
    /\ SetRow(d, doc, Learned(rows[d][doc], batch[d][doc].rev))
    /\ Processed(d, doc)
    /\ UNCHANGED <<again, needPull, held, report>>

ResultBehind(d, doc) ==
    /\ Result(d, doc, "behind")
    /\ again' = [again EXCEPT ![d] = TRUE]
    /\ needPull' = [needPull EXCEPT ![d] = TRUE]
    /\ Processed(d, doc)
    /\ UNCHANGED <<rows, held, report>>

\* The server's copy does not open: repaired when it is this push's base.
ResultBroken(d, doc) ==
    /\ Result(d, doc, "broken")
    /\ IF batch[d][doc].base # NoRev /\ answer[d][doc].row.rev = batch[d][doc].base
         THEN /\ SetRow(d, doc, BumpRevision(rows[d][doc]))
              /\ again' = [again EXCEPT ![d] = TRUE]
              /\ UNCHANGED held
         ELSE /\ held' = [held EXCEPT ![d] = @ \cup {doc}]
              /\ UNCHANGED <<rows, again>>
    /\ Processed(d, doc)
    /\ UNCHANGED <<needPull, report>>

ResultNewer(d, doc) ==
    /\ Result(d, doc, "newer")
    /\ held' = [held EXCEPT ![d] = @ \cup {doc}]
    /\ Processed(d, doc)
    /\ UNCHANGED <<rows, again, needPull, report>>

\* Another round.
EndRound(d) ==
    /\ pc[d] = "results" /\ answer[d] = NoAnswers /\ again[d]
    /\ batch' = [batch EXCEPT ![d] = NoBatch]
    /\ Goto(d, IF needPull[d] THEN "lengths" ELSE "pick")
    /\ UNCHANGED <<storeVars, pageVars, runVars, answer, round, again, needPull, held, report,
                   late, bounds, serverVars>>

-----------------------------------------------------------------------------
(* The end of a sync *)

\* A new Run starts from nothing.
ForgetRun(d) ==
    /\ pc' = [pc EXCEPT ![d] = "idle"]
    /\ upto' = [upto EXCEPT ![d] = 0] /\ more' = [more EXCEPT ![d] = FALSE]
    /\ page' = [page EXCEPT ![d] = NoPage] /\ last' = [last EXCEPT ![d] = 0]
    /\ runEpoch' = [runEpoch EXCEPT ![d] = NoEpoch]
    /\ remerging' = [remerging EXCEPT ![d] = FALSE]
    /\ present' = [present EXCEPT ![d] = {}]
    /\ batch' = [batch EXCEPT ![d] = NoBatch] /\ answer' = [answer EXCEPT ![d] = NoAnswers]
    /\ round' = [round EXCEPT ![d] = 0] /\ again' = [again EXCEPT ![d] = FALSE]
    /\ needPull' = [needPull EXCEPT ![d] = FALSE] /\ held' = [held EXCEPT ![d] = {}]
    /\ report' = [report EXCEPT ![d] = {}]
    /\ UNCHANGED <<storeVars, edits, deletes, behinds, otherBounds, serverVars>>

\* The report goes to the app, which shows its conflicts.
FinishSync(d) ==
    /\ \/ pc[d] = "pick" /\ (round[d] = MaxRounds \/ \A doc \in Docs : ~ToPush(d, doc))
       \/ pc[d] = "results" /\ answer[d] = NoAnswers /\ ~again[d]
    /\ ForgetRun(d)
    /\ UNCHANGED <<late, interrupts>>

\* A crash, a cancelled sync, an error or a lost answer.  The request the
\* device was waiting for may still reach the server, much later.
Interrupt(d) ==
    /\ pc[d] # "idle"
    /\ interrupts < MaxInterrupts
    /\ interrupts' = interrupts + 1
    /\ IF pc[d] = "wait" /\ Cardinality(late[d]) < MaxLate
         THEN late' \in {late, [late EXCEPT ![d] = @ \cup {batch[d]}]}
         ELSE UNCHANGED late
    /\ ForgetRun(d)

\* The page breaks the protocol: the epoch changed during the sync, or an
\* empty page says more follow.  Nothing after the last finished step.
PageRefused(d) ==
    /\ pc[d] = "rows"
    /\ \/ runEpoch[d] \notin {NoEpoch, epoch}
       \/ more[d] /\ RowsBetween(cursor[d], upto[d]) = NoPage
    /\ ForgetRun(d)
    /\ UNCHANGED <<late, interrupts>>

-----------------------------------------------------------------------------
(* The server's side of the world *)

DevicesUnchanged == UNCHANGED <<storeVars, pc, pageVars, runVars, pushVars, report>>

\* A request the device gave up on reaches the server.
RunLate(d) ==
    \E push \in late[d] :
      /\ AcceptPush(push, d)
      /\ late' = [late EXCEPT ![d] = @ \ {push}]
      /\ DevicesUnchanged /\ UNCHANGED bounds

TakeBackup ==
    /\ backups < MaxBackups /\ backups' = backups + 1
    /\ Backup
    /\ DevicesUnchanged /\ UNCHANGED <<late, edits, deletes, interrupts, behinds, restores, damages, binds>>

RestoreServer ==
    /\ restores < MaxRestores /\ restores' = restores + 1
    /\ Restore
    /\ DevicesUnchanged /\ UNCHANGED <<late, edits, deletes, interrupts, behinds, backups, damages, binds>>

RotateServerEpoch ==
    /\ RotateEpoch
    /\ DevicesUnchanged /\ UNCHANGED <<late, bounds>>

DamageRow(doc) ==
    /\ damages < MaxDamage /\ damages' = damages + 1
    /\ Damage(doc)
    /\ DevicesUnchanged /\ UNCHANGED <<late, edits, deletes, interrupts, behinds, backups, restores, binds>>

NewerAppWrites(doc) ==
    /\ damages < MaxDamage /\ damages' = damages + 1
    /\ edits < MaxEdits /\ edits' = edits + 1
    /\ \E content \in FirstContents(Kind[doc], edits', MaxTime) : PushNewerFormat(doc, content, edits')
    /\ DevicesUnchanged /\ UNCHANGED <<late, deletes, interrupts, behinds, backups, restores, binds>>

-----------------------------------------------------------------------------
\* One sync, step by step.  Interrupt is not part of it.
Engine(d) ==
    \/ ReadLengths(d) \/ ReadRows(d) \/ PageRefused(d)
    \/ AdoptEpoch(d) \/ RewindCursor(d) \/ MarkRemerging(d)
    \/ \E doc \in Docs : ApplyEntry(d, doc) \/ UndecryptableEntry(d, doc)
    \/ SaveCursor(d) \/ MarkMissing(d) \/ FinishRemerge(d)
    \/ PickPending(d) \/ SendPush(d) \/ ServerAnswers(d)
    \/ \E doc \in Docs : \/ ResultOk(d, doc) \/ ResultConflict(d, doc) \/ ResultLost(d, doc)
                         \/ ResultBehind(d, doc) \/ ResultBroken(d, doc) \/ ResultNewer(d, doc)
    \/ EndRound(d) \/ FinishSync(d)

Next ==
    \/ \E d \in Devices, doc \in Docs : Write(d, doc) \/ Delete(d, doc)
    \/ \E d \in Devices : BindAdd(d) \/ BindReplace(d)
    \/ \E d \in Devices : Engine(d) \/ Interrupt(d) \/ RunLate(d)
    \/ TakeBackup \/ RestoreServer \/ RotateServerEpoch
    \/ \E doc \in Docs : DamageRow(doc) \/ NewerAppWrites(doc)

Spec == Init /\ [][Next]_vars

\* The scheduler runs a sync at every interval and after every edit, a
\* request is answered or fails, and an app does not stop between two steps
\* for ever: each device's sync keeps taking steps.
\* `admin restore` rotates the epochs in the same command.
FairSpec == Spec /\ WF_vars(RotateServerEpoch) /\ \A d \in Devices : WF_vars(Engine(d))
=============================================================================
