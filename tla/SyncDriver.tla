----------------------------- MODULE SyncDriver -----------------------------
(***************************************************************************)
(* When a library syncs (kanso-engine/src/sync.rs, sync/driver.rs): the    *)
(* scheduler, the driver's control thread with its timers, the worker      *)
(* thread, and their owner: `kanso serve`, with one driver that also syncs *)
(* the shared notes, or the app (kanso-app/src/services.rs,                *)
(* account_flow.rs), which replaces drivers and stops a sync for an        *)
(* account task.                                                           *)
(***************************************************************************)
EXTENDS Integers, Sequences

CONSTANTS MaxDrivers,   \* bound: drivers of the library, one replacing another
          MaxEdits, MaxRequests, MaxTasks, MaxFaults  \* bounds

ASSUME BoundsAssumption ==
    /\ MaxDrivers \in Nat \ {0}
    /\ {MaxEdits, MaxRequests, MaxTasks, MaxFaults} \subseteq Nat

Drivers == 1..MaxDrivers

(* A worker thread: a library sync waits for the slot, syncs, runs the     *)
(* hook (the shared notes) and has sent its outcome; one that is not       *)
(* `library` only runs the hook.  A sync that panicked has "died".         *)
Results == {"none", "ok", "failed", "paused", "held", "cancelled", "signed_out", "died"}
Thread == [library : BOOLEAN, hook : BOOLEAN, cancel : BOOLEAN,
           at : {"slot", "sync", "hook", "done"}, result : Results]

(* A driver: the Scheduler (hold, running, again), the Control thread's    *)
(* state and the owner's flags.  `threads` holds the workers not joined    *)
(* yet, self.worker the first of them.  Hold::Until that passed is "none". *)
Holds == {"none", "until", "until_sync_now", "stopped"}
Control == [hold : Holds, running : BOOLEAN, again : {"none", "automatic", "manual"},
            pending : {"none", "plain", "hook"}, hookNext : BOOLEAN, ended : BOOLEAN,
            editDue : BOOLEAN, automatic : BOOLEAN, busy : BOOLEAN,
            life : {"none", "starting", "live", "ending", "stopped"}, stop : BOOLEAN,
            threads : Seq(Thread)]

Fresh(automatic, hold, busy) ==
    [hold |-> hold, running |-> FALSE, again |-> "none", pending |-> "none", hookNext |-> FALSE,
     ended |-> FALSE, editDue |-> FALSE, automatic |-> automatic, busy |-> busy,
     life |-> "starting", stop |-> FALSE, threads |-> <<>>]
NoDriver == [Fresh(FALSE, "none", FALSE) EXCEPT !.life = "none"]

VARIABLES
    hook,      \* DriverSeams.after_sync is there: `kanso serve`
    ctl,
    current,   \* the owner's driver
    slot,      \* DriverSeams.exclusive: the driver whose sync holds it, or 0
    task,      \* the app's account task
    stopped,   \* the driver whose sync it stopped (stopped_for), or 0
    edits,     \* local edits, as far as synced: in a sync begun after them
    written, asked, tasks, faults  \* counters of the bounds

bounds == <<written, asked, tasks, faults>>
owner == <<hook, current, task, stopped>>
vars == <<owner, ctl, slot, edits, bounds>>

TypeOK ==
    /\ hook \in BOOLEAN
    /\ ctl \in [Drivers -> Control]
    /\ current \in Drivers /\ {slot, stopped} \subseteq Drivers \cup {0}
    /\ task \in {"none", "asks", "joins", "works", "resumes"}
    /\ edits \in {"synced", "new", "taken"}
    /\ {written, asked, tasks, faults} \subseteq Nat

Init ==
    /\ hook \in BOOLEAN
    /\ \E automatic \in {TRUE, hook} :
        ctl = [d \in Drivers |-> IF d = 1 THEN Fresh(automatic, "none", FALSE) ELSE NoDriver]
    /\ current = 1 /\ slot = 0
    /\ task = "none" /\ stopped = 0
    /\ edits = "synced"
    /\ written = 0 /\ asked = 0 /\ tasks = 0 /\ faults = 0

-----------------------------------------------------------------------------
(* Starting a worker *)

Worker(c) == c.threads # <<>>
NewThread(library, runsHook) ==
    [library |-> library, hook |-> runsHook, cancel |-> FALSE,
     at |-> IF library THEN "slot" ELSE "hook", result |-> "none"]

\* start_failed.
\* Mutant: the scheduler is not told.
StillRunning(c, library) == c

NotStarted(c, library) == IF library THEN [c EXCEPT !.running = FALSE] ELSE c

\* The driver's state becomes `c`.
Becomes(d, c) == ctl' = [ctl EXCEPT ![d] = c] /\ UNCHANGED faults

\* The thread starts, or the system has none to give.
Spawn(d, c, library, runsHook) ==
    \/ Becomes(d, [c EXCEPT !.threads = Append(@, NewThread(library, runsHook))])
    \/ /\ faults < MaxFaults /\ faults' = faults + 1
       /\ ctl' = [ctl EXCEPT ![d] = NotStarted(c, library)]

-----------------------------------------------------------------------------
(* The scheduler's answer, and what the control thread does with it *)

\* Mutant: a task's syncs are refused only while nobody asks for one.
RefusesHeld(c, manual) == ~manual /\ (c.busy \/ c.hold # "none")

Refuses(c, manual) == c.busy \/ (~manual /\ c.hold # "none")

\* queued_again
\* Mutant: the last request decides.
LastAsked(again, manual) == IF manual THEN "manual" ELSE "automatic"

QueuedAgain(again, manual) == IF manual \/ again = "manual" THEN "manual" ELSE "automatic"

\* Only a hook-only worker runs while the scheduler has no sync running.
\* Mutant: nobody looks.
StartBeside(d, c, runsHook) == Spawn(d, c, TRUE, runsHook)

Start(d, c, runsHook) ==
    IF Worker(c) THEN Becomes(d, [c EXCEPT !.pending = IF runsHook THEN "hook" ELSE "plain"])
                 ELSE Spawn(d, c, TRUE, runsHook)

\* A refused tick still syncs the shared notes.
\* Mutant: it does not.
NoTick(d, c, tick) == Becomes(d, c)

RefusedTick(d, c, tick) ==
    IF tick /\ ~c.busy /\ ~Worker(c) /\ hook THEN Spawn(d, c, FALSE, TRUE) ELSE Becomes(d, c)

Request(d, c, manual, tick) ==
    LET lifted == [c EXCEPT !.hold = IF manual THEN "none" ELSE @]
    IN  CASE c.ended -> Becomes(d, c)
          [] ~c.ended /\ Refuses(c, manual) -> RefusedTick(d, c, tick)
          [] ~c.ended /\ ~Refuses(c, manual) /\ c.running ->
                Becomes(d, [lifted EXCEPT !.again = QueuedAgain(@, manual),
                                          !.hookNext = @ \/ tick])
          [] OTHER -> Start(d, [lifted EXCEPT !.running = TRUE, !.hookNext = tick /\ @],
                            tick \/ c.hookNext)

-----------------------------------------------------------------------------
(* The control thread *)

\* It handles what reaches it until it sees the stop flag; what it had begun
\* then is done before.
Runs(d) == ctl[d].life = "live" /\ ~ctl[d].stop

\* The start of the loop, whatever the stop flag says.
Begin(d) ==
    LET c == [ctl[d] EXCEPT !.life = "live"] IN
    /\ ctl[d].life = "starting"
    /\ IF c.automatic THEN Request(d, c, FALSE, FALSE) ELSE Becomes(d, c)
    /\ UNCHANGED <<owner, slot, edits, written, asked, tasks>>

EditTimer(d) ==
    /\ Runs(d) /\ ctl[d].automatic /\ ctl[d].editDue
    /\ Request(d, [ctl[d] EXCEPT !.editDue = FALSE], FALSE, FALSE)
    /\ UNCHANGED <<owner, slot, edits, written, asked, tasks>>

Tick(d) ==
    /\ Runs(d) /\ ctl[d].automatic /\ ~ctl[d].ended
    /\ Request(d, ctl[d], FALSE, TRUE)
    /\ UNCHANGED <<owner, slot, edits, written, asked, tasks>>

\* Mutant: a hold for every problem.
HoldOf(result) == result

\* hold_after
HoldAfter(result) ==
    CASE result = "paused" -> "until"
      [] result = "held" -> "until_sync_now"
      [] result = "signed_out" -> "stopped"
      [] OTHER -> "none"

\* A worker's outcome: its thread is joined; Scheduler::finished; what was
\* queued is asked for again.
Finish(d) ==
    LET t == Head(ctl[d].threads)
        c == [ctl[d] EXCEPT !.threads = Tail(@)]
        ran == [c EXCEPT !.running = FALSE, !.again = "none",
                         !.hold = IF t.result = "cancelled" THEN @ ELSE HoldAfter(t.result)]
    IN
    /\ Runs(d) /\ Worker(ctl[d]) /\ t.at = "done"
    /\ CASE ~t.library /\ c.pending # "none" ->
              Spawn(d, [c EXCEPT !.pending = "none"], TRUE, c.pending = "hook")
         [] ~t.library /\ c.pending = "none" -> Becomes(d, c)
         [] t.library /\ t.result = "signed_out" ->
              Becomes(d, [ran EXCEPT !.ended = TRUE, !.editDue = FALSE, !.pending = "none"])
         [] t.library /\ t.result # "signed_out" /\ c.again # "none" ->
              Request(d, ran, c.again = "manual", FALSE)
         [] OTHER -> Becomes(d, ran)
    /\ UNCHANGED <<owner, slot, edits, written, asked, tasks>>

\* A paused account's time comes.
PauseEnds(d) ==
    /\ ctl[d].hold = "until"
    /\ Becomes(d, [ctl[d] EXCEPT !.hold = "none"])
    /\ UNCHANGED <<owner, slot, edits, written, asked, tasks>>

Cancelled(threads) == [k \in DOMAIN threads |-> [threads[k] EXCEPT !.cancel = TRUE]]

\* The loop ends: the worker is cancelled and joined, and nothing else of the
\* driver is read again.
EndLoop(d) ==
    /\ ctl[d].life = "live" /\ ctl[d].stop
    /\ Becomes(d, [NoDriver EXCEPT !.life = "ending", !.stop = TRUE,
                                   !.threads = Cancelled(ctl[d].threads)])
    /\ UNCHANGED <<owner, slot, edits, written, asked, tasks>>

Ends(threads) == \A k \in DOMAIN threads : threads[k].at = "done"

EndDriver(d) ==
    /\ ctl[d].life = "ending" /\ Ends(ctl[d].threads)
    /\ Becomes(d, [ctl[d] EXCEPT !.life = "stopped", !.threads = <<>>])
    /\ UNCHANGED <<owner, slot, edits, written, asked, tasks>>

-----------------------------------------------------------------------------
(* A worker's thread *)

Moves(d, k, t) == ctl' = [ctl EXCEPT ![d].threads[k] = t]

\* The library's sync begins once no other driver's goes on.
TakeSlot(d, k) ==
    LET t == ctl[d].threads[k] IN
    /\ t.at = "slot" /\ slot = 0
    /\ slot' = d
    /\ Moves(d, k, [t EXCEPT !.at = "sync"])
    /\ edits' = IF edits = "new" THEN "taken" ELSE edits
    /\ UNCHANGED <<owner, bounds>>

\* Whether the hook runs after a library sync (work).
RunsHook(t, result) ==
    /\ hook /\ ~t.cancel
    /\ result = "ok" \/ (t.hook /\ result \notin {"cancelled", "signed_out"})

\* A sync that panicked leaves the slot to the next.
\* Mutant: it keeps it.
KeptByTheDead(d, result) == IF result = "died" THEN d ELSE 0

SlotAfter(d, result) == 0

\* A panic is a failure like another (finished).
Outcome(result) == IF result = "died" THEN "failed" ELSE result

\* The sync ends; the server answers as it may, and a cancelled sync stops at
\* its next page, batch or file if there is one.
SyncEnds(d, k, result) ==
    LET t == ctl[d].threads[k] IN
    /\ t.at = "sync" /\ result # "none"
    /\ (result = "cancelled") => t.cancel
    /\ IF result \in {"ok", "cancelled"} THEN UNCHANGED faults
       ELSE faults < MaxFaults /\ faults' = faults + 1
    /\ slot' = SlotAfter(d, result)
    /\ edits' = IF edits # "taken" THEN edits ELSE IF result = "ok" THEN "synced" ELSE "new"
    /\ Moves(d, k, [t EXCEPT !.at = IF RunsHook(t, result) THEN "hook" ELSE "done",
                             !.result = Outcome(result)])
    /\ UNCHANGED <<owner, written, asked, tasks>>

HookEnds(d, k) ==
    LET t == ctl[d].threads[k] IN
    /\ t.at = "hook"
    /\ Moves(d, k, [t EXCEPT !.at = "done"])
    /\ UNCHANGED <<owner, slot, edits, bounds>>

-----------------------------------------------------------------------------
(* The owner *)

\* The feed wakes the driver of a session that goes on.
Edit ==
    LET c == ctl[current] IN
    /\ written < MaxEdits /\ written' = written + 1
    /\ edits' = "new"
    /\ ctl' = [ctl EXCEPT ![current].editDue = c.automatic /\ ~c.ended]
    /\ UNCHANGED <<owner, slot, asked, tasks, faults>>

\* The owner's thread waits for the driver's answer.
Waits == task \in {"asks", "resumes"}

\* Sync now; the owner's thread waits for the answer.
SyncNow ==
    /\ asked < MaxRequests /\ asked' = asked + 1
    /\ Runs(current) /\ ~Waits
    /\ Request(current, ctl[current], TRUE, FALSE)
    /\ UNCHANGED <<owner, slot, edits, written, tasks>>

\* start_driver: a setting changed; the old driver stops on a thread of its
\* own and its hold is kept.
Replace(automatic) ==
    /\ ~hook /\ ~Waits
    /\ current < MaxDrivers /\ current' = current + 1
    /\ ctl' = [ctl EXCEPT ![current].stop = TRUE,
                          ![current + 1] = Fresh(automatic, ctl[current].hold, task # "none")]
    /\ UNCHANGED <<hook, task, stopped, slot, edits, bounds>>

\* An account task: nothing starts from here on.
AskStop ==
    /\ ~hook /\ task = "none" /\ tasks < MaxTasks
    /\ tasks' = tasks + 1
    /\ task' = "asks"
    /\ ctl' = [ctl EXCEPT ![current].busy = TRUE]
    /\ UNCHANGED <<hook, current, stopped, slot, edits, written, asked, faults>>

\* stop_sync: the running sync is cancelled, a waiting one dropped.  Whether
\* the window still takes one that ended for running is left open.
StopSync ==
    LET c == ctl[current]
        dropped == [c EXCEPT !.pending = "none", !.running = @ /\ c.pending = "none"]
    IN
    /\ task = "asks" /\ Runs(current)
    /\ task' = "joins"
    /\ stopped' \in IF Worker(c) THEN {current} ELSE {0, current}
    /\ ctl' = [ctl EXCEPT ![current] = [dropped EXCEPT !.threads = Cancelled(@)]]
    /\ UNCHANGED <<hook, current, slot, edits, bounds>>

\* The task's thread joins what was cancelled, and works.
Joined ==
    stopped # 0 => \A k \in DOMAIN ctl[stopped].threads :
        ctl[stopped].threads[k].cancel => ctl[stopped].threads[k].at = "done"

StartTask ==
    /\ task = "joins" /\ Joined
    /\ task' = "works"
    /\ UNCHANGED <<hook, current, stopped, ctl, slot, edits, bounds>>

\* It ends and leaves the same session.
EndTask ==
    /\ task = "works"
    /\ task' = IF stopped # 0 THEN "resumes" ELSE "none"
    /\ ctl' = [ctl EXCEPT ![current].busy = FALSE]
    /\ UNCHANGED <<hook, current, stopped, slot, edits, bounds>>

\* The sync it stopped starts again.
Resume ==
    /\ task = "resumes" /\ Runs(current)
    /\ task' = "none" /\ stopped' = 0
    /\ Request(current, ctl[current], FALSE, FALSE)
    /\ UNCHANGED <<hook, current, slot, edits, written, asked, tasks>>

-----------------------------------------------------------------------------
ControlStep(d) ==
    \/ Begin(d) \/ EditTimer(d) \/ Tick(d) \/ Finish(d) \/ EndLoop(d) \/ EndDriver(d)
ThreadStep(d) ==
    \E k \in DOMAIN ctl[d].threads :
        TakeSlot(d, k) \/ HookEnds(d, k) \/ \E result \in Results : SyncEnds(d, k, result)
TaskStep == StopSync \/ StartTask \/ EndTask \/ Resume

Next ==
    \/ \E d \in Drivers : ControlStep(d) \/ ThreadStep(d) \/ PauseEnds(d)
    \/ Edit \/ SyncNow \/ AskStop \/ TaskStep
    \/ \E automatic \in BOOLEAN : Replace(automatic)

Spec == Init /\ [][Next]_vars

(* Threads run, timers fire, a pause passes and a request ends; nobody has *)
(* to edit, ask for a sync, change a setting or start a task.              *)
Fairness ==
    /\ \A d \in Drivers :
        /\ WF_vars(Begin(d)) /\ WF_vars(EditTimer(d)) /\ WF_vars(Tick(d)) /\ WF_vars(Finish(d))
        /\ WF_vars(EndLoop(d)) /\ WF_vars(EndDriver(d))
        /\ WF_vars(ThreadStep(d)) /\ WF_vars(PauseEnds(d))
    /\ WF_vars(TaskStep)

FairSpec == Spec /\ Fairness
=============================================================================
