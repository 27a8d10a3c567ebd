------------------------ MODULE SyncDriverProperties ------------------------
(***************************************************************************)
(* What a library's sync drivers owe their owner.                          *)
(***************************************************************************)
EXTENDS SyncDriver

-----------------------------------------------------------------------------
(* Safety *)

LibraryThread(c) == \E k \in DOMAIN c.threads : c.threads[k].library

\* A driver runs one worker at a time, though a Sync now may come while the
\* shared notes sync; its scheduler thinks a sync runs exactly while one does
\* or waits for that worker, so no request queues behind nothing; and an ended
\* session syncs no more.
SchedulerKnows ==
    \A d \in Drivers :
        /\ Len(ctl[d].threads) <= 1
        /\ ctl[d].life \in {"starting", "live"} =>
             (ctl[d].running <=> LibraryThread(ctl[d]) \/ ctl[d].pending # "none")
        /\ ctl[d].ended => ~Worker(ctl[d])

\* While an account task works, no sync of the driver it stopped, or of one
\* started since, reads or writes the library; only the cancelled sync of a
\* driver replaced before may still be ending.
TaskWorksAlone ==
    task = "works" =>
        \A d \in Drivers : \A k \in DOMAIN ctl[d].threads :
            ctl[d].threads[k].library /\ ctl[d].threads[k].at # "done" => ctl[d].stop

\* A Sync now that was queued behind a running sync stays queued as one until
\* that one ends and then starts, whatever problem it ended with, unless the session ended, an account task
\* runs, the driver is replaced or no thread starts.
QueuedSyncNowRuns ==
    [][\A d \in Drivers : ctl[d].again = "manual" /\ ctl'[d].again # "manual" =>
         \/ LibraryThread(ctl'[d]) /\ ctl'[d].hold = "none"
         \/ ctl'[d].ended \/ ctl[d].busy \/ ctl[d].stop \/ faults' > faults]_vars

-----------------------------------------------------------------------------
(* Liveness *)

\* Nothing syncs on its own: the setting, an ended session, or a problem that
\* waits for Sync now.
HeldBack ==
    LET c == ctl[current] IN ~c.automatic \/ c.ended \/ c.hold \in {"until_sync_now", "stopped"}

\* An edit is synced in the end, in whatever step of a sync, a task or a
\* replacement it came, and whatever failed or was cancelled meanwhile.
EditsAreSynced == <>[](edits = "synced" \/ HeldBack)

\* An account task is never stuck behind the syncs it stops.
TasksGoOn == []<>(task \in {"none", "works"})

\* The shared notes sync for ever, though a problem holds the library's syncs,
\* until the session ends.
SharedNotesSync ==
    hook => \/ []<>(\E k \in DOMAIN ctl[1].threads : ctl[1].threads[k].at = "hook")
            \/ <>[]ctl[1].ended
=============================================================================
