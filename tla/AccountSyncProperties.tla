------------------------ MODULE AccountSyncProperties ------------------------
(***************************************************************************)
(* What account sync promises (docs/ACCOUNTS.md, Sync with encryption).    *)
(***************************************************************************)
EXTENDS AccountSync

\* A step nobody at a device took: not a write, not a binding.
SyncStep == edits' = edits /\ binds' = binds

\* A sync no restore got under: until the epoch is rotated a device may not
\* notice one (docs/ACCOUNTS.md: head_seq is a best-effort check).
Trusts(d) == runEpoch[d] = epoch /\ ~rotationDue

\* M2: every revision the server accepts for a document has a higher
\* generation than the one it replaces.  The server itself compares
\* revisions only for equality (sync.ts ACCEPT); a restore is no push.
GenerationStep ==
    restores' = restores =>
      \A doc \in Docs : srv'[doc].rev # srv[doc].rev => srv'[doc].rev.gen > srv[doc].rev.gen
GenerationsGrow == [][GenerationStep]_vars

\* The inductive invariant behind GenerationsGrow, over every place a revision
\* waits: a row's base is below its revision (RowInv), so is a push's, sent
\* or given up on, and what the server accepted of a push is still on the way
\* to the row's revision when its result is processed (pending_push,
\* mark_sent, Run::push).
ServerRowInv(row) == row # NoServerRow => row.rev.gen > 0
PushInv(push) == push # NoPush => push.rev.gen > push.base.gen

StoredInv ==
    /\ \A d \in Devices, doc \in Docs : RowInv(rows[d][doc]) /\ ServerRowInv(page[d][doc])
    /\ \A doc \in Docs : ServerRowInv(srv[doc]) /\ ServerRowInv(backup.srv[doc])
PushesInv ==
    /\ \A d \in Devices, doc \in Docs : PushInv(batch[d][doc])
    /\ \A d \in Devices : \A push \in late[d], doc \in Docs : PushInv(push[doc])
AnswersInv ==
    \A d \in Devices, doc \in Docs :
      /\ pc[d] # "results" => answer[d][doc].status = "none"
      /\ answer[d][doc].status \in {"conflict", "broken"} => answer[d][doc].row.rev.gen > 0
      /\ answer[d][doc].status = "ok" => batch[d][doc] # NoPush
      /\ (pc[d] \in {"send", "wait"} \/ answer[d][doc].status = "ok") /\ batch[d][doc] # NoPush
           => Upto(batch[d][doc].rev, rows[d][doc].rev)
GenerationsInv == StoredInv /\ PushesInv /\ AnswersInv

\* The live content that a sync replaces stays in the document's history
\* (store_row's snapshot); answers have none.
ReplacedStays(d, doc) ==
    LET r == rows[d][doc]
        q == rows'[d][doc]
    IN  Live(r) /\ q.rev.hash # r.rev.hash /\ Kind[doc] # "review" => r.rev.hash \in q.past

\* A sync that replaces live content takes a version made with every edit of
\* that content in view, flags the document, or (the two merges that flag
\* nothing: a daily note and a role notebook made twice) takes a version that
\* holds its text; and what it replaces stays in the document's history
\* (apply_remote, Engine::apply).
NothingLostSilently ==
    [][SyncStep =>
         \A d \in Devices, doc \in Docs :
           LET r == rows[d][doc]
               q == rows'[d][doc]
           IN  /\ ReplacedStays(d, doc)
               /\ Live(r) /\ q.rev.hash # r.rev.hash /\ Trusts(d) =>
                      \/ r.seen \subseteq q.seen
                      \/ doc \in report'[d]
                      \/ /\ Kind[doc] \in {"daily", "role"}
                         /\ Live(q) /\ r.rev.hash.body \subseteq q.rev.hash.body]_vars

\* A daily note of a device that has learned nothing of it from the account.
MadeApartDaily(d, doc) == Kind[doc] = "daily" /\ rows[d][doc].floor = 0

\* An edit that waits to be pushed outlives whatever sync brings, a restore
\* or not: no deletion takes its document and no deleted month of answers
\* comes back to life, its text is replaced only in a document that is flagged
\* or by one that holds it, and no fact of it is lost (apply_remote).
PendingKept(d, doc) ==
    LET r == rows[d][doc]
        q == rows'[d][doc]
        factual == Kind[doc] \notin {"plain", "role"} /\ ~MadeApartDaily(d, doc)
    IN  Exists(r) /\ Dirty(r) =>
          /\ IF Kind[doc] = "review" THEN Deleted(r) => Deleted(q) ELSE Live(r) => ~Deleted(q)
          /\ Live(r) /\ q.rev.hash # r.rev.hash =>
               \/ doc \in report'[d]
               \/ Kind[doc] \in {"daily", "role"} /\ r.rev.hash.body \subseteq q.rev.hash.body
          /\ Live(r) /\ Live(q) /\ factual => r.rev.hash.facts \subseteq q.rev.hash.facts
PendingEditsSurvive == [][SyncStep => \A d \in Devices, doc \in Docs : PendingKept(d, doc)]_vars

\* An edit always beats a deletion made without seeing it, except over a
\* clean copy after a restore (the residual docs/ACCOUNTS.md names), in the
\* re-merge or before the device notices.
EditBeatsDeletion ==
    [][SyncStep =>
         \A d \in Devices, doc \in Docs :
           LET r == rows[d][doc]
               q == rows'[d][doc]
           IN  Live(r) /\ Exists(q) /\ Deleted(q) /\ Kind[doc] # "review" =>
                 r.seen \subseteq q.seen \/ (~Dirty(r) /\ (remerging[d] \/ ~Trusts(d)))]_vars

\* A version this device held never comes back through the account at or
\* below the highest generation it has seen there: neither an old text nor
\* a note it deleted (M2, the replay floor).
NoRevertStep ==
    SyncStep =>
      \A d \in Devices, doc \in Docs :
        LET r == rows[d][doc]
            q == rows'[d][doc]
        IN  q.rev.hash \in r.past /\ q.rev.hash # r.rev.hash => q.rev.gen > r.floor
ReplayNeverReverts == [][NoRevertStep]_vars

\* A closed loop stays closed, a stroke drawn or a card answered stays: sync
\* never takes a fact away from a live document that stays live, unless the
\* version it applies was made with the fact in view, through a deletion.  Not
\* so a daily note that never reached the account: its merge (merge_daily)
\* keeps lines and not loops.
Incoming(d, doc) == IF pc[d] = "entries" THEN page[d][doc] ELSE answer[d][doc].row
FactsKept(d, doc) ==
    LET r == rows[d][doc]
        q == rows'[d][doc]
        inView == Incoming(d, doc).seen
    IN  Live(r) /\ Live(q) => /\ r.rev.hash.facts \subseteq q.rev.hash.facts \cup inView
                              /\ Kind[doc] = "canvas" =>
                                   r.rev.hash.body \subseteq q.rev.hash.body \cup inView
FactsOutliveConflicts ==
    [][SyncStep => \A d \in Devices, doc \in Docs : MadeApartDaily(d, doc) \/ FactsKept(d, doc)]_vars

\* A device that trusts the server's epoch never takes for synced what the
\* server does not hold: after a restore, a document the server lost is
\* pushed again (M1).  What it claims of a row is the base it pushes on.
SyncedIsOnServer ==
    \A d \in Devices : saved[d] = epoch /\ ~rotationDue =>
      \A doc \in Docs :
        LET base == PushBase(rows[d][doc])
        IN  base = srv[doc].rev \/ base.gen < srv[doc].rev.gen

\* Between two syncs, a device whose cursor is at the account's head has
\* every document as the server has it, or pending.
CaughtUpAgrees ==
    \A d \in Devices : pc[d] = "idle" /\ saved[d] = epoch /\ ~rotationDue /\ cursor[d] = lastSeq =>
      \A doc \in Docs :
        \/ rows[d][doc].rev = srv[doc].rev
        \/ Pending(rows[d][doc])
        \/ srv[doc].rev = NoRev /\ NeverOnAccount(rows[d][doc])
        \/ srv[doc].form = "broken"

\* A deleted month of answers stays deleted: only a version made with the
\* deletion in view brings it back (apply_remote, DocType::Review).
DeletedAnswersStayDeleted ==
    [][SyncStep =>
         \A d \in Devices, doc \in Docs :
           LET r == rows[d][doc]
               q == rows'[d][doc]
           IN  Kind[doc] = "review" /\ Exists(r) /\ Deleted(r) /\ Live(q) =>
                 r.seen \subseteq q.seen]_vars

\* The echo of a device's own push is never a conflict (sync.rs, sent_rev).
OwnPushIsNoConflict ==
    [][\A d \in Devices, doc \in Docs :
         doc \in report'[d] \ report[d] => Incoming(d, doc).by # d]_vars

\* A daily note that never reached this account is merged with the account's:
\* no line of it is lost to the other (sync.rs is_separate_daily_creation).
DailyNotesAreMerged ==
    [][SyncStep =>
         \A d \in Devices, doc \in Docs :
           LET r == rows[d][doc]
               q == rows'[d][doc]
           IN  Kind[doc] = "daily" /\ Live(r) /\ r.floor = 0 /\ Live(q) =>
                 r.rev.hash.body \subseteq q.rev.hash.body]_vars

\* Once nobody writes, every device has every document as the server has it.
Agreement ==
    \A d \in Devices, doc \in Docs : rows[d][doc].rev = srv[doc].rev
Convergence == <>[]Agreement
=============================================================================
