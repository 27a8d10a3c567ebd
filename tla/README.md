# Kanso: sync, shared notes, encryption and locking, specified and proved

Kanso keeps a library of notes in a local SQLite store. It syncs the library, sealed, through an account
server, shares single notes through live rooms, encrypts the library on disk and locks notes under passwords.
This directory specifies the parts where several devices, threads or interrupted steps meet. TLC checks the
modules on small instances; TLAPS proves the central invariants for every value of the constants.

Source references are paths in the repository, shortened: `store/sync.rs`, `encrypt.rs` and `write.rs` are in
`crates/kanso-store/src`; `engine.rs`, `sealed.rs`, `binding.rs` and `library_key.rs` in `crates/kanso-sync/src`;
`log.rs`, `live.rs`, `sharing.rs` and `mod.rs` in `crates/kanso-collab/src/engine`; `sync.rs` and `driver.rs` alone
are `crates/kanso-engine/src/sync.rs` and `sync/driver.rs`; `files.rs`, `notebook.rs` and `attachments.rs` in
`crates/kanso-engine/src/lock`; `sync.ts`, `accounts.ts`, `room.ts` and `collab.ts` in `cloud/src`.

## 1. The system

| Part | State it keeps | Operations | What makes it hard |
|---|---|---|---|
| Revisions (`kanso-core/src/rev.rs`) | generation and content hash | `Rev::next` | generations must grow although the server only tests equality |
| Store (`kanso-store`) | per document: fields, `rev`, `synced_rev`, `synced_gen`, `sent_rev`, history; `last_seq` and `epoch` of the account | `put_in`, `delete`, `apply_remote`, `mark_sent`, `mark_synced`, `mark_unsynced`, `mark_missing_unsynced`, `bump_revision`, `reset_sync`, `replace_library` | local writers (editor, API, agents) run between any two transactions of a sync |
| Sync engine (`engine.rs`, `sealed.rs`) | one `Run`: epoch, re-merge flag, page, batch | `sync`: pull pages, re-merge, push rounds | stops anywhere: crash, cancel, error, lost answer |
| Account server (`sync.ts`) | `account_docs`, `last_seq`, `epoch` | `push`, `changes` | a page is read in two transactions; a request may run long after its sender gave up |
| Server restore (`accounts.ts`) | – | `restore`: time travel, then new epochs | two steps; revisions the devices replaced come back |
| Binding (`binding.rs`) | which account a library belongs to | Add, Replace, unbind | bookkeeping of another account |
| Scheduler and driver (`sync.rs`, `driver.rs`, `kanso-app/src/services.rs`, `account_flow.rs`) | hold, running, queued; timers, worker threads, one slot for all drivers | request, finish, cancel, replace, account task | a request while a sync runs, a driver replaced while its sync ends |
| Live room (`room.ts`, `collab.ts`) | a shared note's log, snapshot, epoch, sockets | append, snapshot, log page, epoch change | awaits between the checks and the insert; D1 and the room learn of an epoch apart |
| Collab engine (`log.rs`, `live.rs`, `sharing.rs`, `mod.rs`) | text, applied seq, inbox, outbox, in flight, key and role of an epoch | write, live events, HTTP sync, compact, rotate, join, refresh | two channels deliver one log in any order; roles change under an edit |
| Library encryption (`encrypt.rs`, `library_key.rs`) | the library, two files beside it, a marker, a key's name and the keychain | open, convert, recover, clean up | a crash between any two file operations |
| Note locking (`files.rs`, `notebook.rs`, `attachments.rs`) | a list of wrapped file keys, itself the journal | lock, lock a notebook, save, remove, undo | one transaction per file, other writers between them |
| Files, quotas, rate limits (`engine.rs`) | blobs, quota entries, waits | upload, refetch, hold | partial failure, retry |
| Approvals and pairings (`cloud/src/approvals.ts`, `pairings.ts`) | requests with a deadline | ask, challenge, name, approve, cancel | expiry and double answers |
| Local API (`kanso-server`) | leases on API keys | requests, revoke | revoke against running requests |

Also in the repository and not modelled: sign-in flows, publishing and shares, search and derived tables,
backups, the updater, plugins, import, rendering, PDF, voice, AI, metrics, the feedback pipeline and the
applications. `PROJECT.json` lists each with its reason.

How the modelled parts talk. A device's sync engine calls the store (each call one SQLite transaction) and the
server (`GET /v2/changes`, `POST /v2/push`); devices meet only in the server's rows. The driver decides when that
engine runs, and after it the collab engine's HTTP sync (`after_sync`). A shared note's text does not go through
the account's documents: its devices meet in the room's log, by requests and by a socket. The conversion of a
library runs before anything opens it. Locking works on the store through its guards alone: a pass holds nothing
between two transactions but what it read.

### What must hold

* Account sync: generations never fall on the server; what a device takes for synced is on the server; no edit is
  discarded silently; an edit beats a deletion nobody made in view of it; facts that only grow survive
  concurrent versions; a cursor passes nothing that was not applied; once nobody writes, all agree.
* Scheduling: one sync of a library at a time; what was asked for runs; an account task works alone; every edit is
  synced, and the shared notes sync even while the library's sync is held.
* Shared notes: what the room stored can be had from it; a device that says it merged up to a number did; nothing
  leaves an outbox unstored; a device's text is that of a beginning of one log and its own unsent writes.
* Encryption: at no moment are the notes only half there; what opens is whole; no plaintext stays; it ends.
* Locking: a locked note opens what it shows with its own list; what a plain note reads stays readable for it as long as
  it shows it; a locked note's file is not unsealed from under it; no edit is lost.

## 2. Modules

| Module | Models | Notes |
|---|---|---|
| `Revisions` | `rev.rs` | A revision is a generation and the content it hashes (hashing is injective here). A content is a set of pieces of text, an `updatedAt` and a set of facts, all named by the local write that made them. |
| `StoreRows` | the row operations of `store/sync.rs` and `write.rs` | No variables: each operator takes a row and returns what the transaction leaves. `ApplyRemote` has the rules of `apply` in the code's order. |
| `AccountServer` | `sync.ts`, `restore` of `accounts.ts` | Rows, `last_seq`, `epoch`; the push transaction; the two reads of a change page. |
| `AccountSync` | `engine.rs`, `sealed.rs`, `binding.rs` | Devices, their stores and their running sync, composed with the server. |
| `NoteRoom` | `room.ts`, `collab.ts` | The log, the snapshot, the two epochs: what a request or a frame is answered, what is stored. |
| `NoteLog` | `log.rs`, `live.rs`, `sharing.rs`, `mod.rs` | The devices of a shared note composed with its room: HTTP sync, socket, compaction, epochs. |
| `ReplicatedLog` | – | What a shared note promises: one log, texts of its beginnings. `NoteLog` implements it. |
| `SyncDriver` | `sync.rs`, `driver.rs`, `services.rs`, `account_flow.rs` | Drivers of one library: control thread, worker thread, owner. |
| `LibraryEncryption` | `encrypt.rs`, `library_key.rs` | The files, the keychain and a program that stops anywhere. |
| `NoteLock` | `files.rs`, `notebook.rs`, `attachments.rs`, the guards of `write.rs` | Passes over notes and files, and the other writers. |
| `...Properties` | – | What each component owes, and the inductive invariant of `AccountSync`. |
| `MCAccountSync`, `MCNoteLog`, `MCNoteLock` | – | The instances, and the constraints of their runs. |
| `StoreRows_proofs`, `AccountSync_proofs`, `AccountFeed_proofs` | – | Lemmas about one row; theorems of account sync. |
| `NoteLog_proofs`, `ReplicatedLog_proofs` | – | Theorems of shared notes, and the refinement. |
| `SyncDriver_proofs`, `LibraryEncryption_proofs`, `NoteLock_proofs` | – | Theorems of their components. |

### Correspondence: account sync

*Row.* `rev`, `synced` (`synced_rev`), `floor` (`synced_gen`), `sent` (`sent_rev`), `past` (contents in
`revisions`). `NoRev` is SQL's NULL. `seen` is a history variable: the local writes a version was made in
view of. The program has no such column; the properties need it to say "without seeing it".

*Steps.* `pc[d]` is where device d's sync is. One action is one store transaction or one request:

| Code | Actions |
|---|---|
| `changes`: lengths, then rows | `ReadLengths`, `ReadRows` (other pushes may run between) |
| `Run::pull`, the epoch of the first page | `AdoptEpoch`, `RewindCursor`, `MarkRemerging` (two writes, engine.rs:602-603), `PageRefused` |
| entries of the page | `ApplyEntry`, `UndecryptableEntry`, in the feed's order; `SaveCursor` also stops at a document in a newer format |
| end of a re-merge | `MarkMissing`, `FinishRemerge` |
| `Run::push` | `PickPending`, `SendPush` (`mark_sent`), `ServerAnswers`, one `Result...` per kind of answer, `EndRound` |
| end | `FinishSync`, or `Interrupt` at any step: crash, cancel, error, lost answer |
| local writers | `Write`, `Delete` at any moment |
| binding | `BindAdd` (of a library another account took any part of), `BindReplace`, between syncs |
| the server's world | `RunLate` (a push given up on arrives), `TakeBackup`, `RestoreServer`, `RotateServerEpoch`, `DamageRow`, `NewerAppWrites` |

Abstractions, and why they are sound for what is checked:

* A push is one request. The code splits a large one by size and count; each part is processed before the
  next is sent. The results of one request are processed in any order.
* Accepted documents take their sequence numbers in any order; the code uses the request's order.
* The editor keeps at most one snapshot in five minutes: `Snapshots` says whether an edit may keep none. The
  limit on history's length is not modelled: pruning forgets a version, after which a replay of it counts as new.
* The read of the replaced row in `Run::apply` and the `apply_remote` after it are one step. A local write
  between them can only make a re-merge's flag compare an older content.
* `plain` stands for a tag, `note` for a note or an ordinary notebook, `role` for Journal, Inbox and Templates.
  A notebook's deletion that moves its notes is not modelled, one document's is.
* A document that cannot be normalised, quotas and rate limits, wrong keys and session expiry end or shorten a
  sync at a step; `Interrupt` has the same effect on the store.
* `repair_base` (a repair pushed over a damaged base) is represented by the base itself.

### Correspondence: shared notes

*Room.* `entries` is every entry ever stored (a history variable: its position is its sequence number), `kept` the
rows that `log` still has, `since` the count that compaction is asked by. `epoch` and `lists` are D1's, `roomEpoch`
the room's. An envelope on its way is a `Post`: `frame` before the room looks at it, `checked` while the room
awaits the owner's quota, `stored` until every socket heard of it; the room looks at nothing again between
`checked` and `stored`.

*Device.* A text is the set of its updates (the CRDT merge is external: yrs merges in any order). `applied`, `doc`,
`comments` and `outbox` are on disk; `inbox`, `pending`, `flight` and `reloading` in memory, and `Crash` empties
them. `sync[m].at` is where the HTTP sync is. The connection's thread does not run beside a sync that it
runs itself, but beside one of the account's.

| Code | Actions |
|---|---|
| `take_local`, comments | `Write` |
| `webSocketMessage`, `append` | `TakeFrame`, `Store`, `Tell` |
| `live.rs`, one event | `HearStored`, `HearError`; `Connect`, `SendFrame`, `Disconnect` |
| `sync_once` | `Pull` (one page, merged), `Push` (up to the checks; the answer is `Tell`), `PushDropped`, `NothingToPush`, `LoseAnswer` |
| `compact` and the room's snapshot | `Compact`, `WriteSnapshot` inside `Push` after `compact_first` |
| `refresh`, an accepted invitation | `Refresh`, `Join` |
| `rotate` | `SignEpoch`, `NewEpoch` (D1), `SetEpoch` (the room), `LoseEpoch` between them |

A counter (`nr`) is renamed to one in no use, which is what the per-device counters give. One device per member;
comments are entries that are never compacted, with no threads.

### Correspondence: drivers

`ctl[d]` holds what the `Scheduler`, the `Control` thread and its owner keep of driver d. `life` follows its
thread; `stop` is the flag it looks at between two messages. `pending` is a library sync that waits for the
worker that runs the hook. Time is abstract: `Tick` and `EditTimer` may fire at any moment they are armed, a
pause (`until`) ends by `PauseEnds`. `hook` chooses between `kanso serve`, which has `after_sync` and one driver, and
the app, which has neither and replaces drivers. Functions that run in one turn of the control
thread (`request`, `start`, `finished` with what was queued) are one action.

### Correspondence: encryption

A file is its kind, the newest edit it holds and its key. `same` says `<db>.plain` is a second hard link of the library.
Each action is one file operation or one write of the marker; `Crash` comes between any two. `then` is where
`recover` returns to. `lost` says the keychain lost the key of a library whose conversion was over: nothing can be
promised then, and every property leaves it out.

### Correspondence: locking

A pass (`at[n]`) reads the note (`StartLock`, `StartSave`), plans (`Plan`, `PlanFails`), writes the wrapped keys
into the note (`Journal`), and per file seals and checks (`SealFile`, `CheckSealed`), then writes all notes of
the pass (`LockNotes`). `cur[n]` says the stored revision is the one the pass goes by. `Remove` is prepared by `StartRemove`;
`StartUndo`, `UndoFile`, `UndoEnds` are `undo_locking`, which makes no seal and so counts against no bound. A seal is a number, the pass that made it: an entry of
a list opens a file when both have the same. Cryptography and passwords are abstracted to that.

`Replace` is `apply` where another device's whole version of a plain note wins (store/sync.rs:910-915). It brings
the links that version has: only `put_in` has the guard against links to sealed files, which `Edit` keeps. It comes with or without
the list of a stopped lock, and the version it replaces goes to the history (`store_row`'s snapshot, write.rs:153-159), where
its list is still found.

## 3. Runs

| Run | Question | Bounds |
|---|---|---|
| `kinds` | Note, canvas, answers, daily note, Journal: is an edit ever lost unflagged, does it beat a deletion, do facts survive, is a line or an edit that waits lost? | one document, 3 writes of which 1 may be a deletion; 4 writes where lines merge |
| `clocks` | Two clock values, throttled snapshots, interruption, a late request, a library of another account: generations, synced claims, cursors | 2 writes, 1 deletion, 1 interruption, 1 late request; or 3 writes, 1 binding |
| `pages_restore` | Two documents over two pages, mixed results, a damaged row, a newer format; or a restore and its rotation | 2 writes, 1 interruption, 1 damage, 1 `behind`; or 1 restore and 3 writes and deletions, of the writes at most 2 before the rotation |
| `converges` | Agreement once nobody writes, also after a restore | 3 writes, 1 deletion, 1 interruption; or 1 write, 1 backup, 1 restore |
| `shared_note` | Owner and guest over HTTP and sockets, compaction, faults, a role taken away | 2 writes, 2 epochs, 1 snapshot, 1 fault, 3 entries, cap 2, pages of 1 |
| `note_agrees` | A guest joins and changes role: does every device end at the head? | 1 write, 3 epochs, 1 snapshot, 1 fault |
| `schedule` | Drivers, timers, faults, replacement and a task: who syncs, who waits, what is left | 2 drivers, 1 edit, 1 Sync now, 1 task, 1 fault |
| `encrypt` | A conversion that stops anywhere, with and without hard links and keys | 3 edits, 5 faults |
| `locks` | Locks, saves, removals and undone locks of two notes that share files | 2 edits (by writers and by sync) and 2 passes or removals, or 1 and 3; any undos, 1 fault, 3 files |
| `comments_read`, `put_back`, `lock_edit` | The disagreements of section 5 | as small as the case needs |

Why the bounds are enough. A conflict needs two writes, one on each device; a deletion that meets an edit of a version
already synced needs three; a restore needs writes before and after it; a late request needs an interruption. The
rules of `apply` look at one row, and documents meet only in cursors, pages and batches, so one run has two
documents. `MaxRounds` is 2: a conflict is resolved and pushed again in one sync, and a third answer
leaves documents pending. A shared note needs two entries with a gap between them, a third past a snapshot, and
an epoch that ends under each. A file shared by two notes needs two notes, a file each sees, one it does
not, and one name free for a copy. Five faults let every second launch of a conversion fail somewhere else.

The constraints say which faults come together, so that each run ends in minutes:

* `OneDocument`, `WritesOfKind`, `ClocksOrBindings`, `PagesOrRestore`, `WritesOrRestore`: which document, how many writes
  with which fault. `WriteAtUse` puts a write right before a step that uses it; it commutes with every other step.
* `Cases` of `shared_note`: a role change over HTTP; a role change while the guest is connected; the room and one
  connection without faults; with one fault; HTTP with one fault. `Joins` is the like of `note_agrees`. `LaterRoles`
  bounds the roles, `SnapshotsAtRest` leaves out a snapshot of the old epoch above the head the new one names.
* The three schedules of `locks` each keep out one order of events in which a property fails (section 5). `FewStarts` is
  the bound on edits and passes together.
* `OwnPushIsNoConflict` is checked without late requests, `DailyNotesAreMerged` without bindings: section 5 too.

Devices are symmetric; documents are too when all are of one kind; so are the files of `locks` that exist at first; liveness runs use no symmetry. A sync may start at
any moment, so no run of account sync can deadlock and deadlock is checked there. In the other components a
behaviour may stop when the counters that bound it are used up, so their runs say `CHECK_DEADLOCK FALSE`.

### Properties

Account sync:

* `TypeOK`: the one type invariant; every component has one.
* `GenerationsGrow`, with its inductive invariant `GenerationsInv`: section 4.
* `ReplayNeverReverts`: a content in a document's history comes back through sync only above the floor.
* `SyncedIsOnServer`: a device that trusts the server's epoch pushes on a base the server has or has replaced.
* `CaughtUpAgrees`: between syncs, a cursor at the head means every document is equal, pending, never on the
  account or unreadable there. A write taken for pushed, or a skipped feed entry, breaks it.
* `NothingLostSilently`, `EditBeatsDeletion`, `DeletedAnswersStayDeleted`, `FactsOutliveConflicts`,
  `DailyNotesAreMerged`: what one sync step may do to a live document, in terms of what each side had seen.
* `PendingEditsSurvive`: the same for an edit that waits to be pushed, in terms of the row alone, so that it needs no `seen` and no
  trust: a restore changes nothing in it.
* `OwnPushIsNoConflict`: a flag is never raised for a version this device wrote.
* `Convergence`.

Some are stated for a device that *trusts* the server (`Trusts`, or the saved epoch): between a restore and
the rotation of the epoch a device may not notice it, and `docs/ACCOUNTS.md` calls the `head_seq` check best
effort. After the rotation they hold again without exception, and the rotation comes at any later moment.

Shared notes: `NothingStoredIsLost` (of the room: comments for ever, an update until a snapshot has it);
`MergedIsInText` (of a device); `OutboxLeavesStored`; `ImplementsLog`, the refinement of `ReplicatedLog` under the mapping in
`NoteLogProperties`; `Agreement`. `ReplicatedLog` leaves open whether a late entry, written under an epoch
that had ended, is in a text: a device that merged it before it heard of the new epoch keeps it.

Drivers: `SchedulerKnows` (one worker, and the scheduler believes what is so: otherwise every later request
queues behind nothing), `TaskWorksAlone`, `QueuedSyncNowRuns`, `EditsAreSynced`, `TasksGoOn`, `SharedNotesSync`.

Encryption: `NotesAreKept`, `OpenShowsEverything`, `NoPlaintextBeside`, `EncryptedInTheEnd`. Locking: `LockedHasKeys`
(a locked note has the key of every file it shows in its own list), `ListedStaysSealed`, `SealsListed` (a file is sealed only under
a key that a list already has), and `PlainStaysReadable`: a file that a plain note shows, and that is plain or has its key in the
note's own list or history, is so after every step too while the note shows it, and a note whose lock came off shows plain files
only. It is a property of steps because a link that sync brings may be one the note could never read; two steps are
named in it as exceptions (section 5).

### Fairness

* `AccountSync`: weak fairness of `Engine(d)` for each device, and of `RotateServerEpoch`. The scheduler runs a sync at
  every interval and after edits, a request is answered or fails, and no step of a sync waits for another device.
  The admin command rotates the epochs in the invocation that restores, and says to run the rotation again if
  it fails. Fairness of the whole `Engine` is enough: at each `pc` its enabled actions are the code's next step.
* `NoteLog`: of each device's `SyncStep`, `Refresh`, `Join` and `Hear`, of `Room` and of `People` (a rotation that began). The app
  syncs shared notes at every tick; an isolate that took a request finishes it. Nobody has to write, connect,
  write a snapshot, begin a change of members or fail.
* `SyncDriver`: of each kind of control step, of `ThreadStep`, of `PauseEnds` and of `TaskStep`. These are threads the system
  schedules, timers that fire, a server's answer or a time-out, a pause with an end. An account task waits for nothing else.
* `LibraryEncryption`: of `Program`: the app is opened and quit again and again and its steps go on.

Nothing is assumed of edits, requests, faults or late messages; all are bounded.

## 4. Proofs

Every theorem holds for all constants that satisfy the assumptions their modules name, and those in the table.

| Module | Theorem | Statement |
|---|---|---|
| `AccountSync_proofs` | `TypeCorrect` | `Spec => []TypeOK` |
| | `GenerationsCorrect` | `Spec => []GenerationsInv` |
| | `GenerationsRise` | `Spec => GenerationsGrow` |
| | `NothingReplayed` | `Spec => ReplayNeverReverts` |
| | `PendingSurvives` | `Spec => PendingEditsSurvive` |
| | `ReplacedIsKept` | `Spec => [][SyncStep => ReplacedStays(d, doc)]_vars`, for each device and document |
| | `DailyNotesMerge` | `Spec => DailyNotesAreMerged` if `MaxBinds = 0` |
| `AccountFeed_proofs` | `FeedCorrect` | `Spec => []FeedInv`, the invariant of the next three |
| | `CaughtUpIsTrue` | `Spec => []CaughtUpAgrees` |
| | `SyncedIsTrue` | `Spec => []SyncedIsOnServer` if `MaxRestores = 0` or `MaxDamage = 0` |
| | `LostComesBack` | `Spec => []LostIsPushedAgain` |
| `NoteLog_proofs` | `TypeCorrect` | `Spec => []TypeOK` |
| | `MergedTextIsWhole` | `Spec => []MergedIsInText` |
| | `StoredIsKept` | `Spec => []NothingStoredIsLost` |
| `ReplicatedLog_proofs` | `LogImplemented` | `Spec => ImplementsLog` |
| | `OutboxIsStored` | `Spec => OutboxLeavesStored` |
| `SyncDriver_proofs` | `TypeCorrect` | `Spec => []TypeOK` |
| | `SchedulerIsRight` | `Spec => []SchedulerKnows` |
| | `TasksWorkAlone` | `Spec => []TaskWorksAlone` |
| | `QueuedSyncNowsRun` | `Spec => QueuedSyncNowRuns` |
| `LibraryEncryption_proofs` | `TypeCorrect` | `Spec => []TypeOK` |
| | `NotesSurvive` | `Spec => []NotesAreKept` |
| | `OpenIsWhole` | `Spec => []OpenShowsEverything` |
| | `PlaintextIsGone` | `Spec => []NoPlaintextBeside` |
| `NoteLock_proofs` | `TypeCorrect` | `Spec => []TypeOK` |
| | `JournalLeads` | `Spec => SealsListed` |
| | `LockedOpens` | `Spec /\ [][Schedule]_vars => []LockedHasKeys` if `Book = {}` |
| | `PlainStays` | `Spec /\ [][Schedule]_vars => PlainStaysReadable` if `Book = {}` |
| | `ListedSealed` | `Spec /\ [][Schedule]_vars => ListedStaysSealed` if `Book = {}` |

**Generations.** The server accepts a push when its base equals the row's revision (`ACCEPT`); it cannot compare
generations. So `GenerationsGrow` needs: in every push that may still run, the revision is above the base. That is not
inductive alone. `PendingBase` derives it for a new push from the row: `synced` is the row's revision or of a
lower generation (`RowInv`). To keep `RowInv` when an answer is processed, the accepted revision must still be
on the way to the row's: `AnswersInv` says that of the batch while it is sent, in flight and answered, against
every write that may happen meanwhile. `StoredInv` and `PushesInv` add the pages, the server with its backup, and
the pushes given up on. `GenerationsInv` is their conjunction. `StoreRows_proofs` has the lemmas about one row:
which ways `ApplyRemote` can end (`ApplyRemoteWays`), that it keeps types and `RowInv`, that the row's
revision never falls, and `ApplyRemoteNeverReverts`, from which `NothingReplayed` follows by one case per action.

**What sync replaces.** `RowKeeps` in `AccountSync_proofs` says of any step of a sync what it may do to a row that another version
replaces: one case per end of `ApplyRemote` (`ApplyRemoteKeeps` in `StoreRows_proofs`), one for the repairs, which leave the
content. It needs that no version on its way has generation 0 (`StoredInv`, `PushesInv`). `PendingSurvives` and `ReplacedIsKept`
follow, the first without any premise on restores or trust.
`DailyNotesMerge` adds the invariant `ClaimsNothing`: without a change of account, a row with floor 0 has no synced
revision, so `MadeApart` of the code is exactly "learned nothing of it from the account".

**The feed.** `FeedInv` says what a device may conclude from the feed it read. The server gives every row its own
number up to `last_seq` (`ServerOK`). `RunOK` says what is saved at each point of a sync, so that a crash finds it.
Up to its cursor, a device has every document as the server has it, or pushes it as new, or the row is damaged
(`CursorOK`). A page is read in two transactions and rows move meanwhile, so `PageOK` allows each document one of three
places: before the page and settled, in the page as it was read, or numbered above all of the page. That is what
lets `SaveCursor` pass the page. Results are late too: each speaks of the server's row, or of one replaced by a row
still to be pulled (`ResultsOK`). `BaseOK` is the claim itself: the base of the next push is one the server has or had.
Claims are made only for a device that has the account's epoch (`Follows`), or that re-merges under it, and then only of
documents the feed has shown. A restore drops every claim at once, which is why the proof needs no history of
restores. `CaughtUpAgrees` and `LostIsPushedAgain` (a document the account lost is pushed as new by every device that
has it) follow for all constants; `SyncedIsOnServer` fails when a damaged row is also restored (section 5), hence its
hypothesis.

**The log.** The room takes a snapshot's text on trust and drops updates for it, and a device takes a
snapshot for its own text. So both properties are one: `Covers(doc, e, k)`, a text that a device of epoch `e` has read up
to `k` has every update up to `k` that counts in `e`. The invariant says it of each device's text at its
`applied` (`NotesInv`) and of the room's snapshot at its base (`RestInv`), with what keeps it: entries, lists
and heads only grow (`LogInv`), what is on its way names what its author may send (`PostsInv`), and what a socket or an inbox
holds is stored (`SocketsInv`). A new epoch only ever lets fewer entries count, so `Covers` survives it. `MayCompact` gives the
snapshot: an author with nothing waiting has in its text what it merged.

**The refinement.** `RInv` adds what `ReplicatedLog` can see and `IInv` does not say. A write's name stays its own in
outboxes, on the way and in the log (`NamesInv`); an entry's author was allowed to write it in its epoch (`AllowedInv`),
so a position of the log counts once and for all; an envelope's counter tells which write it carries (`CountersInv`), so an echo or
an answer removes from an outbox only what is stored; no text has more than the log and its own outbox, no
snapshot more than the log up to its base (`TextInv`). With `Covers`, as for the log, a text is then exactly a beginning of the
log plus its own writes. A merge maps to `Read`, a stored envelope to `Store`, a device that starts again to
`Restart`, a new epoch to `EndEpoch`, and all else to a stutter. `shared_note` checks the refinement under
`Cases` and `SnapshotsAtRest`; the theorem needs neither.

**The drivers.** `DriverInv` says what one scheduler believes: it has one worker at most, and what waits for a
worker waits for one that only runs the hook. `OwnerInv` orders the drivers: the replaced were told to stop, the current one
was not, the later ones do not exist. `TaskInv` says what an account task has made of the current one: it is
held from `asks` on, nothing waits in it from `joins` on, the sync it joins was cancelled, and while it works none runs.

**The conversion.** `MarkerInv` is the contract between the steps and the next launch: for each marker, which of the three
files must be whole, with which key, and what may be missing. `KeyInv` says the key a step writes with is
kept and named; `StepInv` says what each step may rely on between two file operations; `NotesInv` follows
the newest edit. A crash drops `StepInv` and keeps the rest, which is why no launch needs to know where the last one ended.

**Locking.** `JournalLeads` needs one fact only, `KeysFirst`: what a pass that seals has still to seal is in a list or the history,
since `Journal` wrote it and only sync takes a list away, to the history. It holds in every schedule and for notebooks. The three others
have the invariant `Inv`. `Numbers` and `Fresh` say a pass's keys are its own: numbers above every seal made before. With
`Journaled` (the list a pass wrote is stored until the note is) and `TodoApart` (no two passes seal one file), `LockedHasKeys` is
inductive. To keep it when a pass's list becomes the note's, the new list must have what the note shows: `PlanRight` says that what
a plan lists and has not to seal is sealed under the key it lists, `Covers` that the plan of a locked note's save has every
file the note shows; of a plain note the store's guard in `Journal` says it. `Apart`, `Removing` and `Undoing` say what a removal or an
undo that runs may count on, `CopiesOwn` that a copy is shown by its own note only, so that undoing a lock deletes nobody's
file. The proof first reduces each action to a *move* of one note (`MoveOf`: what changes for it and for the files) or to
a quiet step, and each part of `Inv` is proved to survive the moves. `PlainStaysReadable` is no part of `Inv`, since sync may
bring a link that is not readable: `ReadsOn` shows under `Inv` that each move leaves what a plain note reads readable, and
`RemovedReads` that a note whose lock came off shows plain files. The hypotheses are not idle. `Schedule` is `LinksApart`,
`KeepsLinks` and `RemovesAlone`, without each of which a property fails (section 5). `Book = {}` says that notes are locked one by
one: a notebook that is locked as a whole shares copies and keys between its notes, so that `Journaled` and `CopiesOwn`
do not hold of each note alone.

TLC checks every property of this table too, with mutants of the code that break each.

Only model-checked:

* `Convergence`, `Agreement`, `EditsAreSynced`, `TasksGoOn`, `SharedNotesSync` and `EncryptedInTheEnd`: liveness under
  fairness is out of the prover's reach.
* `NothingLostSilently`, `EditBeatsDeletion`, `FactsOutliveConflicts`, `DeletedAnswersStayDeleted`
  and `OwnPushIsNoConflict`. They speak of `seen`, and a revision does not determine it: two
  devices that delete the same content make the same tombstone (`rev.rs` hashes no device) in view of different writes. With three
  devices or after a restore one then stands for the other, so a theorem for all constants needs a weaker
  `seen` first; `PendingEditsSurvive` is what can be said without it. The last one is also stated for fewer kinds of events (section 3).
* Locking a notebook as a whole: `LockedHasKeys`, `PlainStaysReadable` and `ListedStaysSealed` are checked for a notebook of two notes.

## 5. Where the code and its comments disagree

With a run:

1. **`comments_read`.** A device that starts reading asks for the log from 0 and takes the snapshot with the first page.
   `known_seq` (log.rs:448) then counts the snapshot's base, so later pages are asked for from the base. Comments
   below it that the first page did not hold are never fetched. `docs/ACCOUNTS.md:4887-4889` says newcomers read them.
2. **`put_back`.** Without the key, the encrypted library is renamed aside and then the plain copy to its name
   (encrypt.rs:802). Between the two there is no library and the marker says `Cleanup`: the next launch makes an empty
   library and destroys the plain copy. encrypt.rs:12-15 says the name is never missing.
3. **`lock_edit`.** `set_note_files` (files.rs:818, write.rs:891-905) writes the keys under the note's current revision, and the pass
   goes on from that. An edit saved after the pass read the note no longer fails `lock_note`'s check: the older text is locked and the
   history deleted. lock.rs:276 says a note changed meanwhile waits for the next time.

Seen in counterexamples while the models were built; a constraint or the property's wording keeps each out:

* *Account sync.* A crash between the two writes that begin a re-merge (engine.rs:602-603), before the epoch was
  rotated, leaves cursor 0 without the mark; the next sync never marks what the server lost, until the rotation.
  `sent_rev` remembers one push: a late one's echo is taken for another device's version (store/sync.rs:760), and nothing
  is lost. `merge_daily` (store/sync.rs:1124) keeps both sides' lines, but not the local note's closed loops. A daily note
  made again over a tombstone of another account is not merged (store/sync.rs:1108), since `reset_sync` gives the
  tombstone a `synced_rev`. For the same reason a tombstone of another account that is edited back to life before the first pull
  may never be pushed: if this account holds the same tombstone, `apply` says `Unchanged` (store/sync.rs:753) and does not
  learn the row's generation, the floor stays 0, `pending_push` sends no base (store/sync.rs:207), and every push is a conflict
  until another device changes the document. `converges` has no bindings. A damaged row that this device repaired, and that a restore puts
  back from a backup made before the repair, is passed over by the re-merge as unreadable but counted as present: the device keeps
  the newer base, which the account no longer has. `SyncedIsOnServer` fails there;
  `PagesOrRestore` never combines the two.
* *Shared notes.* If every editor has an update waiting when the room asks for compaction, nobody may compact (log.rs:372,
  472-488): the note waits for one with nothing to send (`docs/ACCOUNTS.md:4995`). A late entry of the old epoch that
  a device merged before it refreshed stays in its text and in its snapshots (4805-4808, 5040-5042). An own echo
  that a snapshot skips stays in flight until the connection ends. A crash between `push_outbox` and `persist` (mod.rs:521-531) sends
  an edit twice, which merges to one. `reloading` is not on disk. The owner whose own rotation raced another reads that people
  changed meanwhile.
* *Drivers.* An account task does not join the cancelled sync of a driver that was replaced (account_flow.rs:107-111):
  `TaskWorksAlone` allows it. A Sync now that was queued when a task began is lost; the sync that resumes is an automatic one.
* *Encryption.* The put-back does not remove `<db>-wal`. A crash after its second rename leaves the marker `Cleanup` beside a
  plain library, which every launch then opens plain and calls stuck.
* *Locking*, each kept out by a schedule of `NoteLockProperties`. `KeepsLinks`: a save that drops a link to a listed file journals a
  list without its key while the note still shows it; the app may end before the note is written. `RemovesAlone`: Remove Lock counts
  the owners of a file, another note's pass wraps its key meanwhile, and the file is unsealed; or a locked note's save has planned a
  file, the other note's stopped lock is undone and done again, and the file has another key than the one the save then lists, for
  the write only asks that listed files are sealed (write.rs:1174). `LinksApart`: a plain note links a file between a
  pass's plan and its seal (files.rs:397-400), and the seal takes it from that note.
* *Locking, the last key of a sealed file*. files.rs:809-810 says no sealed file outlives its keys; it does in
  the following, which the schedules above leave in, so `LockedHasKeys` and `PlainStaysReadable` say less than that comment. (a) Note 1 is locked with f, and sync brings a link to f into plain note
  2 (`Replace`; f was plain on the other device). Note 2 cannot read it. Remove Lock on note 1 counts note 2 as an
  owner (files.rs:1405-1408, whose doc speaks of another *locked* note), makes a copy for note 1, leaves f sealed, and f's key goes with
  note 1's list. (b) An edit of a note whose lock stopped drops a link, and the lock is done again: the new list lacks the file's
  key, and the file stays sealed with no note showing it. (c) `undo_locking` counts an outdated entry of another stopped
  lock as a key; undoing that lock too drops the last. (d) A notebook's lock stops, and one of its notes is finished alone:
  a file that both show was sealed for that one, and the other, plain, has no key of its own. This is the step `SealsFor` of
  `PlainStaysReadable`, before the stop.
* *Locking, undone note by note*: `TakesForCopy`, the other exception of `PlainStaysReadable`. Note 2's lock stops after it
  made a copy of a file that note 1 shows too; the notebook's lock then seals the file itself for note 1. Note 2 lists it as well, and since
  the earlier try is remembered under the original's name (files.rs:625-632), the entry for the original is marked a copy
  (files.rs:691-697). That lock stops too; undoing it note by note gives note 1 a plain copy and deletes the original (files.rs:1266)
  while note 2 shows it. files.rs:1231 says undoing deletes the copies the lock made. `First \subseteq made` finds it as an invariant
  of `NoteLock` with `MaxEdits = 0`, `MaxPasses = 2`, `MaxFaults = 2`, a notebook of two notes and two spare names.

## 6. Not modelled, and what would come next

Left out of the modelled components. *Shared notes:* hello and epoch frames, an editor's open document, quotas, presence,
purge, leaving, `too_large`, an upgrade with a role that is out of date. *Drivers:* the window's status, signing out and changing the
session, chains of tasks, the record of the last result. *Locking:* changing a password, files sealed by older versions,
recordings, links to files whose bytes have not come, a notebook's later notes; of what sync brings, seals made on another device,
locked versions and lists other than the note's own. *Encryption:* a marker beside a library it cannot
belong to, the backups.

By importance: `AccountRegister`, an abstract account with one register per document, as a refinement of `AccountSync`;
`EditBeatsDeletion` and `FactsOutliveConflicts` with a `seen` that revisions determine; `NoteLock`'s invariant
for a notebook that is locked as a whole; files and quotas (upload before push, refetch, levels and room); device approvals; the gate of
API keys; a binding during a running sync.
