-------------------------- MODULE SyncDriver_proofs --------------------------
(***************************************************************************)
(* Proofs about SyncDriver, for every number of drivers, edits, requests,  *)
(* tasks and faults.  The inductive invariant says of one driver what its  *)
(* scheduler knows of its worker, and of the owner which drivers still     *)
(* take requests and what an account task has made of the current one.     *)
(***************************************************************************)
EXTENDS SyncDriverProperties, SequenceTheorems, TLAPS

\* What a driver knows of its worker.  What waits for a worker waits for one
\* that only runs the hook.
DriverInv(c) ==
    /\ Len(c.threads) <= 1
    /\ c.life \in {"starting", "live"} => (c.running <=> LibraryThread(c) \/ c.pending # "none")
    /\ c.pending # "none" => c.life \in {"starting", "live"} /\ Worker(c) /\ ~LibraryThread(c)
    /\ c.ended => ~Worker(c)

\* The owner's drivers: replaced, current, still to come.
OwnerInv ==
    /\ ctl[current].life \in {"starting", "live"} /\ ~ctl[current].stop
    /\ \A d \in Drivers : d < current => ctl[d].stop
    /\ \A d \in Drivers : d > current => ctl[d] = NoDriver

Syncing(t) == t.library /\ t.at # "done"

\* What a task has made of the current driver.
TaskInv ==
    LET c == ctl[current] IN
    /\ task \in {"asks", "joins", "works"} => c.busy
    /\ task \in {"joins", "works"} => c.pending = "none"
    /\ task = "joins" => \A k \in DOMAIN c.threads :
          Syncing(c.threads[k]) => c.threads[k].cancel /\ stopped = current
    /\ task = "works" => \A k \in DOMAIN c.threads : ~Syncing(c.threads[k])

IInv == TypeOK /\ (\A d \in Drivers : DriverInv(ctl[d])) /\ OwnerInv /\ TaskInv

-----------------------------------------------------------------------------
(* One driver's state, and what the control thread makes of it *)

\* A driver without a worker, or with one.
LEMMA OneWorker ==
  ASSUME NEW c \in Control, Len(c.threads) <= 1
  PROVE  \/ c.threads = <<>>
         \/ \E t \in Thread : c.threads = <<t>>
<1>1. c.threads \in Seq(Thread) BY DEF Control
<1>2. CASE Len(c.threads) = 0 BY <1>1, <1>2
<1>3. CASE Len(c.threads) = 1
    <2>1. c.threads[1] \in Thread /\ c.threads = <<c.threads[1]>> BY <1>1, <1>3
    <2> QED BY <2>1
<1> QED BY <1>1, <1>2, <1>3

LEMMA NewThreadType ==
  ASSUME NEW library \in BOOLEAN, NEW runsHook \in BOOLEAN
  PROVE  /\ NewThread(library, runsHook) \in Thread
         /\ NewThread(library, runsHook).library = library
BY DEF NewThread, Thread, Results

\* What a driver that starts a worker becomes.
LEMMA SpawnDoes ==
  ASSUME NEW d \in Drivers, NEW c \in Control, c.threads = <<>>, faults \in Nat,
         NEW library \in BOOLEAN, NEW runsHook \in BOOLEAN,
         Spawn(d, c, library, runsHook)
  PROVE  \E n \in Control :
            /\ ctl' = [ctl EXCEPT ![d] = n]
            /\ \/ /\ n = [c EXCEPT !.threads = <<NewThread(library, runsHook)>>]
                  /\ faults' = faults
               \/ n = NotStarted(c, library) /\ faults' = faults + 1
<1>1. CASE Becomes(d, [c EXCEPT !.threads = Append(@, NewThread(library, runsHook))])
    <2> DEFINE t == NewThread(library, runsHook)
               n == [c EXCEPT !.threads = <<t>>]
    <2>1. t \in Thread BY NewThreadType
    <2>2. Append(c.threads, t) = <<t>> BY <2>1
    <2>3. <<t>> \in Seq(Thread) BY <2>1
    <2> HIDE DEF t
    <2>4. n \in Control BY <2>3 DEF Control
    <2>5. ctl' = [ctl EXCEPT ![d] = n] /\ faults' = faults BY <1>1, <2>2 DEF Becomes, t
    <2> QED BY <2>4, <2>5 DEF t
<1>2. CASE faults' = faults + 1 /\ ctl' = [ctl EXCEPT ![d] = NotStarted(c, library)]
    <2>1. [c EXCEPT !.running = FALSE] \in Control BY DEF Control
    <2>2. NotStarted(c, library) \in Control BY <2>1 DEF NotStarted
    <2> QED BY <1>2, <2>2
<1> QED BY <1>1, <1>2 DEF Spawn

\* A driver without a worker knows so when it starts one that runs the library's sync.
LEMMA LibrarySpawn ==
  ASSUME NEW d \in Drivers, NEW c \in Control, c.threads = <<>>, faults \in Nat,
         NEW runsHook \in BOOLEAN,
         c.running = TRUE, c.pending = "none", c.ended = FALSE,
         Spawn(d, c, TRUE, runsHook)
  PROVE  \E n \in Control :
            /\ ctl' = [ctl EXCEPT ![d] = n]
            /\ DriverInv(n)
            /\ n.life = c.life /\ n.stop = c.stop /\ n.busy = c.busy /\ n.again = c.again
            /\ n.hold = c.hold /\ n.ended = c.ended
            /\ faults' \in Nat /\ (LibraryThread(n) \/ faults' > faults)
<1>1. PICK n \in Control :
            /\ ctl' = [ctl EXCEPT ![d] = n]
            /\ \/ /\ n = [c EXCEPT !.threads = <<NewThread(TRUE, runsHook)>>]
                  /\ faults' = faults
               \/ n = NotStarted(c, TRUE) /\ faults' = faults + 1
    BY SpawnDoes
<1>2. CASE n = [c EXCEPT !.threads = <<NewThread(TRUE, runsHook)>>] /\ faults' = faults
    <2> DEFINE t == NewThread(TRUE, runsHook)
    <2>1. t \in Thread /\ t.library = TRUE BY NewThreadType
    <2> HIDE DEF t
    <2>2. /\ n.threads = <<t>> /\ n.running = TRUE /\ n.pending = "none" /\ n.ended = FALSE
          /\ n.life = c.life /\ n.stop = c.stop /\ n.busy = c.busy /\ n.again = c.again
          /\ n.hold = c.hold
        BY <1>2 DEF Control, t
    <2>3. LibraryThread(n) BY <2>1, <2>2 DEF LibraryThread
    <2>4. Len(n.threads) <= 1 BY <2>2
    <2> QED BY <1>1, <1>2, <2>2, <2>3, <2>4 DEF DriverInv
<1>3. CASE n = NotStarted(c, TRUE) /\ faults' = faults + 1
    <2>1. /\ n.threads = <<>> /\ n.running = FALSE /\ n.pending = "none" /\ n.ended = FALSE
          /\ n.life = c.life /\ n.stop = c.stop /\ n.busy = c.busy /\ n.again = c.again
          /\ n.hold = c.hold
        BY <1>3 DEF NotStarted, Control
    <2>2. ~LibraryThread(n) BY <2>1 DEF LibraryThread
    <2>3. DriverInv(n) BY <2>1, <2>2 DEF DriverInv, Worker
    <2>4. faults' \in Nat /\ faults' > faults BY <1>3
    <2> QED BY <1>1, <2>1, <2>3, <2>4
<1> QED BY <1>1, <1>2, <1>3

\* What a Sync now finds of a driver that nothing holds back: it starts.
Started(c, n, manual) ==
    manual = TRUE /\ ~c.ended /\ ~c.busy /\ ~c.running /\ ~Worker(c) =>
        (LibraryThread(n) /\ n.hold = "none") \/ faults' > faults

\* What a request leaves of a driver.
LEMMA RequestDoes ==
  ASSUME NEW d \in Drivers, NEW c \in Control, DriverInv(c), faults \in Nat,
         c.life \in {"starting", "live"},
         NEW manual \in BOOLEAN, NEW tick \in BOOLEAN, Request(d, c, manual, tick)
  PROVE  \E n \in Control :
            /\ ctl' = [ctl EXCEPT ![d] = n]
            /\ DriverInv(n)
            /\ n.life = c.life /\ n.stop = c.stop /\ n.busy = c.busy
            /\ c.busy => n = c
            /\ c.again = "manual" => n.again = "manual"
            /\ faults' \in Nat
            /\ Started(c, n, manual)
<1> USE DEF Started
<1> DEFINE lifted == [c EXCEPT !.hold = IF manual THEN "none" ELSE @]
<1>l. /\ lifted \in Control
      /\ lifted.threads = c.threads /\ lifted.running = c.running /\ lifted.pending = c.pending
      /\ lifted.ended = c.ended /\ lifted.life = c.life /\ lifted.stop = c.stop
      /\ lifted.busy = c.busy /\ lifted.again = c.again /\ lifted.hookNext = c.hookNext
      /\ manual => lifted.hold = "none"
    BY DEF Control, Holds
<1> HIDE DEF lifted
<1>1. CASE c.ended
    <2>1. Becomes(d, c) BY <1>1 DEF Request
    <2> QED BY <1>1, <2>1 DEF Becomes
<1>2. CASE ~c.ended /\ Refuses(c, manual)
    <2>1. RefusedTick(d, c, tick) BY <1>2 DEF Request
    <2>2. CASE Becomes(d, c)
        <3>1. ~(manual /\ ~c.busy) BY <1>2 DEF Refuses
        <3> QED BY <2>2, <3>1 DEF Becomes
    <2>3. CASE ~c.busy /\ ~Worker(c) /\ Spawn(d, c, FALSE, TRUE)
        <3>1. ~manual BY <1>2, <2>3 DEF Refuses
        <3>2. c.threads = <<>> BY <2>3 DEF Worker
        <3>3. PICK n \in Control :
                /\ ctl' = [ctl EXCEPT ![d] = n]
                /\ \/ /\ n = [c EXCEPT !.threads = <<NewThread(FALSE, TRUE)>>]
                      /\ faults' = faults
                   \/ n = NotStarted(c, FALSE) /\ faults' = faults + 1
            BY <2>3, <3>2, SpawnDoes
        <3>4. CASE n = [c EXCEPT !.threads = <<NewThread(FALSE, TRUE)>>] /\ faults' = faults
            <4> DEFINE t == NewThread(FALSE, TRUE)
            <4>1. t \in Thread /\ t.library = FALSE BY NewThreadType
            <4> HIDE DEF t
            <4>2. /\ n.threads = <<t>> /\ n.running = c.running /\ n.pending = c.pending
                  /\ n.ended = c.ended /\ n.again = c.again
                  /\ n.life = c.life /\ n.stop = c.stop /\ n.busy = c.busy
                BY <3>4 DEF Control, t
            <4>3. ~LibraryThread(n) /\ ~LibraryThread(c) BY <3>2, <4>1, <4>2 DEF LibraryThread
            <4>4. c.pending = "none" BY <2>3 DEF DriverInv
            <4>5. Len(n.threads) <= 1 BY <4>2
            <4>6. DriverInv(n) BY <1>2, <4>2, <4>3, <4>4, <4>5 DEF DriverInv
            <4> QED BY <2>3, <3>1, <3>3, <3>4, <4>2, <4>6
        <3>5. CASE n = NotStarted(c, FALSE) /\ faults' = faults + 1
            <4>1. n = c BY <3>5 DEF NotStarted
            <4>2. faults' \in Nat BY <3>5
            <4>3. ctl' = [ctl EXCEPT ![d] = c] BY <3>3, <4>1
            <4> QED BY <3>1, <4>2, <4>3
        <3> QED BY <3>3, <3>4, <3>5
    <2> QED BY <2>1, <2>2, <2>3 DEF RefusedTick
<1>3. CASE ~c.ended /\ ~Refuses(c, manual) /\ c.running
    <2> DEFINE n == [lifted EXCEPT !.again = QueuedAgain(@, manual), !.hookNext = @ \/ tick]
    <2>1. Becomes(d, n) BY <1>3 DEF Request, lifted
    <2>2. QueuedAgain(lifted.again, manual) \in {"automatic", "manual"} BY DEF QueuedAgain
    <2>3. n \in Control BY <1>l, <2>2 DEF Control
    <2>4. /\ n.threads = c.threads /\ n.running = c.running /\ n.pending = c.pending
          /\ n.ended = c.ended /\ n.life = c.life /\ n.stop = c.stop /\ n.busy = c.busy
          /\ n.again = QueuedAgain(c.again, manual)
        BY <1>l DEF Control
    <2>5. DriverInv(n) BY <2>4 DEF DriverInv, LibraryThread, Worker
    <2>6. c.again = "manual" => n.again = "manual" BY <2>4 DEF QueuedAgain
    <2>7. ~c.busy BY <1>3 DEF Refuses
    <2> HIDE DEF n
    <2> QED BY <1>3, <2>1, <2>3, <2>4, <2>5, <2>6, <2>7 DEF Becomes
<1>4. CASE ~c.ended /\ ~Refuses(c, manual) /\ ~c.running
    <2> DEFINE s == [lifted EXCEPT !.running = TRUE, !.hookNext = tick /\ @]
    <2>1. Start(d, s, tick \/ c.hookNext) BY <1>4 DEF Request, lifted
    <2>2. s \in Control BY <1>l DEF Control
    <2>3. /\ s.threads = c.threads /\ s.running = TRUE /\ s.pending = c.pending
          /\ s.ended = c.ended /\ s.life = c.life /\ s.stop = c.stop /\ s.busy = c.busy
          /\ s.again = c.again /\ s.hold = lifted.hold
        BY <1>l DEF Control
    <2>4. ~c.busy BY <1>4 DEF Refuses
    <2>5. c.pending = "none" /\ ~LibraryThread(c) BY <1>4 DEF DriverInv
    <2> HIDE DEF s
    <2>6. CASE Worker(s)
        <3> DEFINE n == [s EXCEPT !.pending = IF tick \/ c.hookNext THEN "hook" ELSE "plain"]
        <3>1. Becomes(d, n) BY <2>1, <2>6 DEF Start
        <3>2. n \in Control BY <2>2 DEF Control
        <3>3. /\ n.threads = c.threads /\ n.running = TRUE /\ n.pending # "none"
              /\ n.ended = c.ended /\ n.life = c.life /\ n.stop = c.stop /\ n.busy = c.busy
              /\ n.again = c.again
            BY <2>2, <2>3 DEF Control
        <3> HIDE DEF n
        <3>4. Worker(n) /\ Worker(c) BY <2>3, <2>6, <3>3 DEF Worker
        <3>5. ~LibraryThread(n) BY <2>5, <3>3 DEF LibraryThread
        <3>6. DriverInv(n) BY <1>4, <3>3, <3>4, <3>5 DEF DriverInv
        <3> QED BY <2>4, <3>1, <3>2, <3>3, <3>4, <3>6 DEF Becomes
    <2>7. CASE ~Worker(s)
        <3>1. Spawn(d, s, TRUE, tick \/ c.hookNext) BY <2>1, <2>7 DEF Start
        <3>2. s.threads = <<>> BY <2>7 DEF Worker
        <3>3. (tick \/ c.hookNext) \in BOOLEAN BY DEF Control
        <3>4. s.pending = "none" /\ s.ended = FALSE BY <1>4, <2>3, <2>5 DEF Control
        <3>5. PICK n \in Control :
                /\ ctl' = [ctl EXCEPT ![d] = n]
                /\ DriverInv(n)
                /\ n.life = s.life /\ n.stop = s.stop /\ n.busy = s.busy /\ n.again = s.again
                /\ n.hold = s.hold /\ n.ended = s.ended
                /\ faults' \in Nat /\ (LibraryThread(n) \/ faults' > faults)
            BY <2>2, <2>3, <3>1, <3>2, <3>3, <3>4, LibrarySpawn
        <3>6. manual => n.hold = "none" BY <1>l, <2>3, <3>5
        <3> QED BY <2>3, <2>4, <3>5, <3>6
    <2> QED BY <2>6, <2>7
<1> QED BY <1>1, <1>2, <1>3, <1>4
-----------------------------------------------------------------------------
(* Steps of one driver *)

\* What an account task has stopped stays so.
StaysStopped(c, n) ==
    /\ n.busy = c.busy
    /\ c.busy /\ c.pending = "none" =>
        /\ n.pending = "none"
        /\ \A k \in DOMAIN n.threads : Syncing(n.threads[k]) =>
              /\ k \in DOMAIN c.threads /\ Syncing(c.threads[k])
              /\ c.threads[k].cancel => n.threads[k].cancel

\* What QueuedSyncNowRuns says of one driver.
QueueKept(c, n) ==
    c.again = "manual" /\ n.again # "manual" =>
        \/ LibraryThread(n) /\ n.hold = "none"
        \/ n.ended \/ c.busy \/ c.stop \/ faults' > faults

\* A step of driver d, from c to n.
DriverGoes(d, c, n) ==
    /\ ctl' = [ctl EXCEPT ![d] = n]
    /\ DriverInv(n)
    /\ c # NoDriver
    /\ c.stop => n.stop
    /\ ~c.stop => ~n.stop /\ n.life \in {"starting", "live"} /\ StaysStopped(c, n)
    /\ QueueKept(c, n)
    /\ faults' \in Nat

\* A driver that exists and still runs.
LEMMA RunsIs ==
  ASSUME TypeOK, NEW d \in Drivers
  PROVE  /\ ctl[d] \in Control
         /\ ctl[d].life # "none" => ctl[d] # NoDriver
BY DEF TypeOK, NoDriver, Fresh

\* A request that leaves the driver as it was otherwise.
LEMMA RequestGoes ==
  ASSUME IInv, NEW d \in Drivers, ctl[d].life \in {"starting", "live"},
         NEW c \in Control, DriverInv(c), c.life = "live", c.stop = ctl[d].stop,
         c.busy = ctl[d].busy, c.pending = ctl[d].pending, c.threads = ctl[d].threads,
         c.again = ctl[d].again,
         NEW manual \in BOOLEAN, NEW tick \in BOOLEAN, Request(d, c, manual, tick)
  PROVE  \E n \in Control : DriverGoes(d, ctl[d], n)
<1>1. faults \in Nat BY DEF IInv, TypeOK
<1>2. ctl[d] \in Control /\ ctl[d] # NoDriver BY RunsIs DEF IInv
<1>3. PICK n \in Control :
            /\ ctl' = [ctl EXCEPT ![d] = n]
            /\ DriverInv(n)
            /\ n.life = c.life /\ n.stop = c.stop /\ n.busy = c.busy
            /\ c.busy => n = c
            /\ c.again = "manual" => n.again = "manual"
            /\ faults' \in Nat
    BY <1>1, RequestDoes
<1>4. StaysStopped(ctl[d], n) BY <1>2, <1>3 DEF StaysStopped, Control
<1>5. QueueKept(ctl[d], n) BY <1>3 DEF QueueKept
<1> QED BY <1>2, <1>3, <1>4, <1>5 DEF DriverGoes

LEMMA BeginGoes ==
  ASSUME IInv, NEW d \in Drivers, Begin(d)
  PROVE  \E n \in Control : DriverGoes(d, ctl[d], n)
<1> DEFINE c == [ctl[d] EXCEPT !.life = "live"]
<1>1. ctl[d] \in Control /\ ctl[d] # NoDriver BY RunsIs DEF IInv, Begin
<1>2. /\ c \in Control /\ c.life = "live" /\ c.stop = ctl[d].stop /\ c.busy = ctl[d].busy
      /\ c.pending = ctl[d].pending /\ c.threads = ctl[d].threads /\ c.again = ctl[d].again
      /\ c.running = ctl[d].running /\ c.ended = ctl[d].ended
    BY <1>1 DEF Control
<1>3. DriverInv(c) BY <1>2 DEF IInv, Begin, DriverInv, LibraryThread, Worker
<1>4. CASE Request(d, c, FALSE, FALSE)
    <2> HIDE DEF c
    <2> QED BY <1>2, <1>3, <1>4, RequestGoes DEF Begin
<1>5. CASE Becomes(d, c)
    <2>1. faults' \in Nat BY <1>5 DEF Becomes, IInv, TypeOK
    <2>2. StaysStopped(ctl[d], c) BY <1>1, <1>2 DEF StaysStopped, Control
    <2>3. QueueKept(ctl[d], c) BY <1>2 DEF QueueKept
    <2> HIDE DEF c
    <2> QED BY <1>1, <1>2, <1>3, <1>5, <2>1, <2>2, <2>3 DEF DriverGoes, Becomes
<1> QED BY <1>4, <1>5 DEF Begin

LEMMA EditTimerGoes ==
  ASSUME IInv, NEW d \in Drivers, EditTimer(d)
  PROVE  \E n \in Control : DriverGoes(d, ctl[d], n)
<1> DEFINE c == [ctl[d] EXCEPT !.editDue = FALSE]
<1>1. ctl[d] \in Control BY RunsIs DEF IInv
<1>2. /\ c \in Control /\ c.life = "live" /\ c.stop = ctl[d].stop /\ c.busy = ctl[d].busy
      /\ c.pending = ctl[d].pending /\ c.threads = ctl[d].threads /\ c.again = ctl[d].again
      /\ c.running = ctl[d].running /\ c.ended = ctl[d].ended /\ ctl[d].life = "live"
    BY <1>1 DEF Control, EditTimer, Runs
<1>3. DriverInv(c) BY <1>2 DEF IInv, DriverInv, LibraryThread, Worker
<1>4. Request(d, c, FALSE, FALSE) BY DEF EditTimer
<1> HIDE DEF c
<1> QED BY <1>2, <1>3, <1>4, RequestGoes

LEMMA TickGoes ==
  ASSUME IInv, NEW d \in Drivers, Tick(d)
  PROVE  \E n \in Control : DriverGoes(d, ctl[d], n)
<1>1. ctl[d] \in Control /\ ctl[d].life = "live" BY RunsIs DEF IInv, Tick, Runs
<1>2. DriverInv(ctl[d]) BY DEF IInv
<1> QED BY <1>1, <1>2, RequestGoes DEF Tick

LEMMA PauseEndsGoes ==
  ASSUME IInv, NEW d \in Drivers, PauseEnds(d)
  PROVE  \E n \in Control : DriverGoes(d, ctl[d], n)
<1> DEFINE n == [ctl[d] EXCEPT !.hold = "none"]
<1>1. ctl[d] \in Control BY RunsIs DEF IInv
<1>2. /\ n \in Control /\ n.life = ctl[d].life /\ n.stop = ctl[d].stop /\ n.busy = ctl[d].busy
      /\ n.pending = ctl[d].pending /\ n.threads = ctl[d].threads /\ n.again = ctl[d].again
      /\ n.running = ctl[d].running /\ n.ended = ctl[d].ended
    BY <1>1 DEF Control, Holds
<1>3. DriverInv(n) BY <1>2 DEF IInv, DriverInv, LibraryThread, Worker
<1>4. ctl[d] # NoDriver BY DEF PauseEnds, NoDriver, Fresh
<1>5. ctl' = [ctl EXCEPT ![d] = n] /\ faults' \in Nat BY DEF PauseEnds, Becomes, IInv, TypeOK
<1>6. StaysStopped(ctl[d], n) /\ QueueKept(ctl[d], n)
    BY <1>1, <1>2 DEF StaysStopped, QueueKept, Control
<1>7. ~ctl[d].stop => n.life \in {"starting", "live"}
    <2>1. d \in Nat /\ current \in Nat BY BoundsAssumption DEF IInv, TypeOK, Drivers
    <2> QED BY <1>2, <1>4, <2>1 DEF IInv, OwnerInv
<1> HIDE DEF n
<1> QED BY <1>2, <1>3, <1>4, <1>5, <1>6, <1>7 DEF DriverGoes

\* Only a driver that runs, or the current one, is not asked to stop.
LEMMA AliveIs ==
  ASSUME IInv, NEW d \in Drivers, ctl[d] # NoDriver, ~ctl[d].stop
  PROVE  ctl[d].life \in {"starting", "live"}
<1>1. d \in Nat /\ current \in Nat BY BoundsAssumption DEF IInv, TypeOK, Drivers
<1> QED BY <1>1 DEF IInv, OwnerInv

\* A worker's outcome: the driver has none then, and may start another.
LEMMA FinishGoes ==
  ASSUME IInv, NEW d \in Drivers, Finish(d)
  PROVE  \E n \in Control : DriverGoes(d, ctl[d], n)
<1> DEFINE o == ctl[d]
           t == Head(o.threads)
           c == [o EXCEPT !.threads = Tail(@)]
           ran == [c EXCEPT !.running = FALSE, !.again = "none",
                            !.hold = IF t.result = "cancelled" THEN @ ELSE HoldAfter(t.result)]
<1>1. /\ o \in Control /\ DriverInv(o) /\ o # NoDriver /\ o.life = "live" /\ ~o.stop
      /\ faults \in Nat
    BY RunsIs DEF IInv, Finish, Runs, TypeOK
<1>2. PICK u \in Thread : o.threads = <<u>>
    <2>1. o.threads # <<>> BY DEF Finish, Worker
    <2> QED BY <1>1, <2>1, OneWorker DEF DriverInv
<1>3. t = u /\ Tail(o.threads) = <<>> /\ u.library \in BOOLEAN BY <1>2 DEF Thread
<1>4. LibraryThread(o) <=> u.library BY <1>2 DEF LibraryThread
<1>5. /\ c \in Control /\ c.threads = <<>> /\ c.life = "live" /\ c.stop = o.stop
      /\ c.busy = o.busy /\ c.pending = o.pending /\ c.again = o.again /\ c.hold = o.hold
      /\ c.running = o.running /\ c.ended = FALSE
    <2>1. o.ended = FALSE /\ <<>> \in Seq(Thread) BY <1>1, <1>2 DEF Control, DriverInv, Worker
    <2>2. c = [o EXCEPT !.threads = <<>>] BY <1>3
    <2> QED BY <1>1, <2>1, <2>2 DEF Control
<1>6. HoldAfter(t.result) \in Holds BY DEF HoldAfter, Holds
<1>7. /\ ran \in Control /\ ran.threads = <<>> /\ ran.life = "live" /\ ran.stop = o.stop
      /\ ran.busy = o.busy /\ ran.pending = o.pending /\ ran.again = "none"
      /\ ran.running = FALSE /\ ran.ended = FALSE
    BY <1>5, <1>6 DEF Control
<1>8. ~LibraryThread(c) /\ ~LibraryThread(ran) BY <1>5, <1>7 DEF LibraryThread
<1>9. \/ ~t.library /\ c.pending # "none"
         /\ Spawn(d, [c EXCEPT !.pending = "none"], TRUE, c.pending = "hook")
      \/ ~t.library /\ c.pending = "none" /\ Becomes(d, c)
      \/ t.library
         /\ Becomes(d, [ran EXCEPT !.ended = TRUE, !.editDue = FALSE, !.pending = "none"])
      \/ t.library /\ c.again # "none" /\ Request(d, ran, c.again = "manual", FALSE)
      \/ t.library /\ c.again = "none" /\ Becomes(d, ran)
    <2>1. CASE ~t.library BY <2>1 DEF Finish
    <2>2. CASE t.library /\ t.result = "signed_out" BY <2>2 DEF Finish
    <2>3. CASE t.library /\ t.result # "signed_out" /\ c.again # "none" BY <2>3 DEF Finish
    <2>4. CASE t.library /\ t.result # "signed_out" /\ c.again = "none" BY <2>4 DEF Finish
    <2> QED BY <2>1, <2>2, <2>3, <2>4
<1> HIDE DEF o, t, c, ran
<1>10. ASSUME NEW n \in Control, ctl' = [ctl EXCEPT ![d] = n], DriverInv(n), faults' \in Nat,
              n.life = "live", n.stop = o.stop, n.busy = o.busy, n.threads = <<>>,
              o.pending = "none" => n.pending = "none",
              n.again = o.again \/ n.ended \/ o.again = "none"
       PROVE  DriverGoes(d, o, n)
    <2>1. StaysStopped(o, n) BY <1>10 DEF StaysStopped
    <2>2. QueueKept(o, n) BY <1>10 DEF QueueKept
    <2> QED BY <1>1, <1>10, <2>1, <2>2 DEF DriverGoes
<1>11. CASE ~t.library /\ c.pending # "none"
            /\ Spawn(d, [c EXCEPT !.pending = "none"], TRUE, c.pending = "hook")
    <2> DEFINE e == [c EXCEPT !.pending = "none"]
    <2>1. /\ e \in Control /\ e.threads = <<>> /\ e.life = "live" /\ e.stop = o.stop
          /\ e.busy = o.busy /\ e.pending = "none" /\ e.again = o.again
          /\ e.running = o.running /\ e.ended = FALSE
        BY <1>5 DEF Control
    <2>2. e.running = TRUE BY <1>1, <1>5, <1>11, <2>1 DEF DriverInv, Control
    <2>3. Spawn(d, e, TRUE, c.pending = "hook") BY <1>11
    <2>4. (c.pending = "hook") \in BOOLEAN OBVIOUS
    <2> HIDE DEF e
    <2>5. PICK n \in Control :
            /\ ctl' = [ctl EXCEPT ![d] = n]
            /\ DriverInv(n)
            /\ n.life = e.life /\ n.stop = e.stop /\ n.busy = e.busy /\ n.again = e.again
            /\ faults' \in Nat
        BY <1>1, <2>1, <2>2, <2>3, <2>4, LibrarySpawn
    <2>6. StaysStopped(o, n) BY <1>5, <1>11, <2>1, <2>5 DEF StaysStopped
    <2>7. QueueKept(o, n) BY <2>1, <2>5 DEF QueueKept
    <2>8. DriverGoes(d, o, n) BY <1>1, <2>1, <2>5, <2>6, <2>7 DEF DriverGoes
    <2> QED BY <2>8 DEF o
<1>12. CASE ~t.library /\ c.pending = "none" /\ Becomes(d, c)
    <2>1. DriverInv(c) BY <1>1, <1>3, <1>4, <1>5, <1>8, <1>12 DEF DriverInv, Worker
    <2>2. DriverGoes(d, o, c) BY <1>1, <1>5, <1>10, <1>12, <2>1 DEF Becomes
    <2> QED BY <1>5, <2>2 DEF o
<1>13. CASE t.library
            /\ Becomes(d, [ran EXCEPT !.ended = TRUE, !.editDue = FALSE, !.pending = "none"])
    <2> DEFINE n == [ran EXCEPT !.ended = TRUE, !.editDue = FALSE, !.pending = "none"]
    <2>1. /\ n \in Control /\ n.threads = <<>> /\ n.life = "live" /\ n.stop = o.stop
          /\ n.busy = o.busy /\ n.pending = "none" /\ n.ended /\ n.running = FALSE
        BY <1>7 DEF Control
    <2>2. Becomes(d, n) BY <1>13
    <2> HIDE DEF n
    <2>3. DriverInv(n) BY <2>1 DEF DriverInv, Worker, LibraryThread
    <2>4. DriverGoes(d, o, n) BY <1>1, <1>10, <2>1, <2>2, <2>3 DEF Becomes
    <2> QED BY <2>1, <2>4 DEF o
<1>14. t.library => DriverInv(ran)
    <2>1. t.library => o.pending = "none" BY <1>1, <1>3, <1>4 DEF DriverInv
    <2> QED BY <1>7, <1>8, <2>1 DEF DriverInv, Worker
<1>15. CASE t.library /\ c.again # "none" /\ Request(d, ran, c.again = "manual", FALSE)
    <2>1. PICK manual \in BOOLEAN, tick \in BOOLEAN :
            manual = (c.again = "manual") /\ tick = FALSE
        OBVIOUS
    <2>2. PICK r \in Control : r = ran BY <1>7
    <2>3. Request(d, r, manual, tick) /\ DriverInv(r) BY <1>14, <1>15, <2>1, <2>2
    <2>4. /\ r.threads = <<>> /\ r.life = "live" /\ r.stop = o.stop /\ r.busy = o.busy
          /\ r.pending = o.pending /\ r.running = FALSE /\ r.ended = FALSE
        BY <1>7, <2>2
    <2>5. PICK n \in Control :
            /\ ctl' = [ctl EXCEPT ![d] = n]
            /\ DriverInv(n)
            /\ n.life = r.life /\ n.stop = r.stop /\ n.busy = r.busy
            /\ r.busy => n = r
            /\ faults' \in Nat
            /\ Started(r, n, manual)
        BY <1>1, <2>3, <2>4, RequestDoes
    <2>6. StaysStopped(o, n) BY <2>4, <2>5 DEF StaysStopped
    <2>7. QueueKept(o, n) BY <1>5, <2>1, <2>4, <2>5 DEF QueueKept, Worker, Started
    <2>8. DriverGoes(d, o, n) BY <1>1, <2>4, <2>5, <2>6, <2>7 DEF DriverGoes
    <2> QED BY <2>8 DEF o
<1>16. CASE t.library /\ c.again = "none" /\ Becomes(d, ran)
    <2>1. DriverGoes(d, o, ran) BY <1>1, <1>5, <1>7, <1>10, <1>14, <1>16 DEF Becomes
    <2> QED BY <1>7, <2>1 DEF o
<1> QED BY <1>9, <1>11, <1>12, <1>13, <1>15, <1>16

\* The driver's threads with their syncs cancelled.
LEMMA CancelledIs ==
  ASSUME NEW c \in Control
  PROVE  /\ Cancelled(c.threads) \in Seq(Thread)
         /\ DOMAIN Cancelled(c.threads) = DOMAIN c.threads
         /\ Len(Cancelled(c.threads)) = Len(c.threads)
         /\ \A k \in DOMAIN c.threads :
               /\ Cancelled(c.threads)[k].library = c.threads[k].library
               /\ Cancelled(c.threads)[k].at = c.threads[k].at
               /\ Cancelled(c.threads)[k].cancel = TRUE
<1> DEFINE new == Cancelled(c.threads)
<1>1. c.threads \in Seq(Thread) BY DEF Control
<1>2. \A k \in DOMAIN c.threads : c.threads[k] \in Thread BY <1>1
<1>3. DOMAIN new = DOMAIN c.threads BY DEF Cancelled
<1>4. \A k \in DOMAIN c.threads : new[k] = [c.threads[k] EXCEPT !.cancel = TRUE] BY DEF Cancelled
<1>5. \A k \in DOMAIN c.threads :
        /\ new[k] \in Thread
        /\ new[k].library = c.threads[k].library /\ new[k].at = c.threads[k].at
        /\ new[k].cancel = TRUE
    BY <1>2, <1>4 DEF Thread
<1>6. DOMAIN c.threads = 1..Len(c.threads) /\ Len(c.threads) \in Nat BY <1>1
<1>7. new = [k \in 1..Len(c.threads) |-> new[k]] BY <1>6 DEF Cancelled
<1> HIDE DEF new
<1>8. new \in [1..Len(c.threads) -> Thread] BY <1>5, <1>6, <1>7
<1>9. new \in Seq(Thread) BY <1>6, <1>8, SeqDef
<1>10. Len(new) = Len(c.threads) BY <1>3, <1>6, <1>9, LenProperties
<1> QED BY <1>3, <1>5, <1>9, <1>10 DEF new

\* A loop that ends is one that was asked to stop: nobody counts on it.
LEMMA EndLoopGoes ==
  ASSUME IInv, NEW d \in Drivers, EndLoop(d)
  PROVE  \E n \in Control : DriverGoes(d, ctl[d], n)
<1> DEFINE n == [NoDriver EXCEPT !.life = "ending", !.stop = TRUE,
                                 !.threads = Cancelled(ctl[d].threads)]
<1>1. /\ ctl[d] \in Control /\ DriverInv(ctl[d]) /\ ctl[d] # NoDriver
      /\ ctl[d].life = "live" /\ ctl[d].stop
    BY RunsIs DEF IInv, EndLoop
<1>2. Cancelled(ctl[d].threads) \in Seq(Thread) /\ Len(Cancelled(ctl[d].threads)) <= 1
    BY <1>1, CancelledIs DEF DriverInv
<1>3. /\ n \in Control /\ n.life = "ending" /\ n.stop /\ n.pending = "none" /\ n.ended = FALSE
      /\ n.threads = Cancelled(ctl[d].threads)
    BY <1>2 DEF Control, NoDriver, Fresh, Holds
<1>4. Becomes(d, n) BY DEF EndLoop
<1> HIDE DEF n
<1>5. DriverInv(n) BY <1>2, <1>3 DEF DriverInv
<1>6. QueueKept(ctl[d], n) BY <1>1 DEF QueueKept
<1>7. ctl' = [ctl EXCEPT ![d] = n] /\ faults' \in Nat BY <1>4 DEF Becomes, IInv, TypeOK
<1> QED BY <1>1, <1>3, <1>5, <1>6, <1>7 DEF DriverGoes

LEMMA EndDriverGoes ==
  ASSUME IInv, NEW d \in Drivers, EndDriver(d)
  PROVE  \E n \in Control : DriverGoes(d, ctl[d], n)
<1> DEFINE n == [ctl[d] EXCEPT !.life = "stopped", !.threads = <<>>]
<1>1. /\ ctl[d] \in Control /\ DriverInv(ctl[d]) /\ ctl[d] # NoDriver /\ ctl[d].life = "ending"
    BY RunsIs DEF IInv, EndDriver
<1>2. /\ n \in Control /\ n.life = "stopped" /\ n.threads = <<>> /\ n.stop = ctl[d].stop
      /\ n.pending = ctl[d].pending /\ n.again = ctl[d].again
    <2>1. <<>> \in Seq(Thread) OBVIOUS
    <2> QED BY <1>1, <2>1 DEF Control
<1>3. Becomes(d, n) BY DEF EndDriver
<1> HIDE DEF n
<1>4. ctl[d].stop BY <1>1, AliveIs
<1>5. DriverInv(n) BY <1>1, <1>2 DEF DriverInv, Worker
<1>6. QueueKept(ctl[d], n) BY <1>4 DEF QueueKept
<1>7. ctl' = [ctl EXCEPT ![d] = n] /\ faults' \in Nat BY <1>3 DEF Becomes, IInv, TypeOK
<1> QED BY <1>1, <1>2, <1>4, <1>5, <1>6, <1>7 DEF DriverGoes

\* A thread of d changes, as it is driven by nobody but itself.
LEMMA ThreadGoes ==
  ASSUME IInv, NEW d \in Drivers, NEW k \in DOMAIN ctl[d].threads, NEW t \in Thread,
         Moves(d, k, t), t.library = ctl[d].threads[k].library,
         t.cancel = ctl[d].threads[k].cancel,
         Syncing(t) => Syncing(ctl[d].threads[k]), faults' \in Nat
  PROVE  \E n \in Control : DriverGoes(d, ctl[d], n)
<1> DEFINE o == ctl[d]
           n == [o EXCEPT !.threads[k] = t]
<1>1. o \in Control /\ DriverInv(o) BY RunsIs DEF IInv
<1>2. PICK u \in Thread : o.threads = <<u>> BY <1>1, OneWorker DEF DriverInv
<1>3. k = 1 /\ o.threads[k] = u BY <1>2
<1>4. n = [o EXCEPT !.threads = <<t>>]
    <2>1. [o.threads EXCEPT ![k] = t] = <<t>> BY <1>2, <1>3
    <2> QED BY <2>1
<1>5. <<t>> \in Seq(Thread) OBVIOUS
<1>6. /\ n \in Control /\ n.threads = <<t>> /\ n.life = o.life /\ n.stop = o.stop
      /\ n.busy = o.busy /\ n.pending = o.pending /\ n.again = o.again
      /\ n.running = o.running /\ n.ended = o.ended
    BY <1>1, <1>4, <1>5 DEF Control
<1>7. ctl' = [ctl EXCEPT ![d] = n] BY DEF Moves, IInv, TypeOK
<1>8. o # NoDriver
    <2>1. NoDriver.threads = <<>> BY DEF NoDriver, Fresh
    <2>2. o.threads # <<>> BY <1>2
    <2> QED BY <2>1, <2>2
<1> HIDE DEF n
<1>9. LibraryThread(n) <=> LibraryThread(o) BY <1>2, <1>3, <1>6 DEF LibraryThread
<1>10. DriverInv(n) BY <1>1, <1>2, <1>6, <1>9 DEF DriverInv, Worker
<1>11. StaysStopped(o, n) BY <1>2, <1>3, <1>6 DEF StaysStopped
<1>12. QueueKept(o, n) BY <1>6 DEF QueueKept
<1>13. ~o.stop => n.life \in {"starting", "live"} BY <1>6, <1>8, AliveIs
<1> HIDE DEF o
<1>14. DriverGoes(d, o, n) BY <1>6, <1>7, <1>8, <1>10, <1>11, <1>12, <1>13 DEF DriverGoes
<1> QED BY <1>6, <1>14 DEF o

LEMMA ThreadIs ==
  ASSUME IInv, NEW d \in Drivers, NEW k \in DOMAIN ctl[d].threads
  PROVE  ctl[d].threads[k] \in Thread
<1>1. ctl[d].threads \in Seq(Thread) BY DEF IInv, TypeOK, Control
<1> QED BY <1>1

LEMMA TakeSlotGoes ==
  ASSUME IInv, NEW d \in Drivers, NEW k \in DOMAIN ctl[d].threads, TakeSlot(d, k)
  PROVE  \E n \in Control : DriverGoes(d, ctl[d], n)
<1> DEFINE t == [ctl[d].threads[k] EXCEPT !.at = "sync"]
<1>1. ctl[d].threads[k] \in Thread /\ ctl[d].threads[k].at = "slot"
    BY ThreadIs DEF TakeSlot
<1>2. /\ t \in Thread /\ t.library = ctl[d].threads[k].library
      /\ t.cancel = ctl[d].threads[k].cancel /\ t.at = "sync"
    BY <1>1 DEF Thread
<1>3. Moves(d, k, t) /\ faults' \in Nat BY DEF TakeSlot, bounds, IInv, TypeOK
<1> HIDE DEF t
<1>4. Syncing(t) => Syncing(ctl[d].threads[k]) BY <1>1, <1>2 DEF Syncing
<1> QED BY <1>2, <1>3, <1>4, ThreadGoes

LEMMA HookEndsGoes ==
  ASSUME IInv, NEW d \in Drivers, NEW k \in DOMAIN ctl[d].threads, HookEnds(d, k)
  PROVE  \E n \in Control : DriverGoes(d, ctl[d], n)
<1> DEFINE t == [ctl[d].threads[k] EXCEPT !.at = "done"]
<1>1. ctl[d].threads[k] \in Thread BY ThreadIs
<1>2. /\ t \in Thread /\ t.library = ctl[d].threads[k].library
      /\ t.cancel = ctl[d].threads[k].cancel /\ t.at = "done"
    BY <1>1 DEF Thread
<1>3. Moves(d, k, t) /\ faults' \in Nat BY DEF HookEnds, bounds, IInv, TypeOK
<1> HIDE DEF t
<1>4. Syncing(t) => Syncing(ctl[d].threads[k]) BY <1>2 DEF Syncing
<1> QED BY <1>2, <1>3, <1>4, ThreadGoes

LEMMA SyncEndsGoes ==
  ASSUME IInv, NEW d \in Drivers, NEW k \in DOMAIN ctl[d].threads, NEW result \in Results,
         SyncEnds(d, k, result)
  PROVE  \E n \in Control : DriverGoes(d, ctl[d], n)
<1> DEFINE u == ctl[d].threads[k]
           t == [u EXCEPT !.at = IF RunsHook(u, result) THEN "hook" ELSE "done",
                          !.result = Outcome(result)]
<1>1. u \in Thread /\ u.at = "sync" BY ThreadIs DEF SyncEnds
<1>2. Outcome(result) \in Results BY DEF Outcome, Results
<1>3. t \in Thread /\ t.library = u.library /\ t.cancel = u.cancel BY <1>1, <1>2 DEF Thread
<1>4. Moves(d, k, t) BY DEF SyncEnds
<1>5. faults' \in Nat BY DEF SyncEnds, IInv, TypeOK
<1> HIDE DEF t
<1>6. Syncing(t) => Syncing(u) BY <1>1, <1>3 DEF Syncing
<1> QED BY <1>3, <1>4, <1>5, <1>6, ThreadGoes

-----------------------------------------------------------------------------
(* Steps of the owner that go through its driver *)

LEMMA CurrentIs ==
  ASSUME IInv
  PROVE  /\ current \in Drivers /\ ctl[current] \in Control /\ DriverInv(ctl[current])
         /\ ctl[current] # NoDriver /\ ~ctl[current].stop
         /\ ctl[current].life \in {"starting", "live"}
BY RunsIs DEF IInv, TypeOK, OwnerInv, NoDriver, Fresh

LEMMA EditGoes ==
  ASSUME IInv, Edit
  PROVE  \E n \in Control : DriverGoes(current, ctl[current], n)
<1> DEFINE o == ctl[current]
           n == [o EXCEPT !.editDue = o.automatic /\ ~o.ended]
<1>1. o \in Control /\ DriverInv(o) BY CurrentIs
<1>2. (o.automatic /\ ~o.ended) \in BOOLEAN BY <1>1 DEF Control
<1>3. /\ n \in Control /\ n.threads = o.threads /\ n.life = o.life /\ n.stop = o.stop
      /\ n.busy = o.busy /\ n.pending = o.pending /\ n.again = o.again
      /\ n.running = o.running /\ n.ended = o.ended
    BY <1>1, <1>2 DEF Control
<1>4. ctl' = [ctl EXCEPT ![current] = n] /\ faults' \in Nat BY DEF Edit, IInv, TypeOK
<1> HIDE DEF n
<1>5. DriverInv(n) BY <1>1, <1>3 DEF DriverInv, Worker, LibraryThread
<1>6. StaysStopped(o, n) /\ QueueKept(o, n) BY <1>1, <1>3 DEF StaysStopped, QueueKept
<1>7. DriverGoes(current, o, n) BY <1>3, <1>4, <1>5, <1>6, CurrentIs DEF DriverGoes
<1> QED BY <1>3, <1>7

LEMMA SyncNowGoes ==
  ASSUME IInv, SyncNow
  PROVE  \E n \in Control : DriverGoes(current, ctl[current], n)
BY CurrentIs, RequestGoes DEF SyncNow, Runs

LEMMA ResumeGoes ==
  ASSUME IInv, Resume
  PROVE  \E n \in Control : DriverGoes(current, ctl[current], n)
BY CurrentIs, RequestGoes DEF Resume, Runs

\* The running sync is cancelled, and nothing waits for a worker any more.
StopLeaves(c, n) ==
    /\ n.busy = c.busy /\ n.pending = "none"
    /\ DOMAIN n.threads = DOMAIN c.threads
    /\ \A k \in DOMAIN n.threads :
        n.threads[k].cancel /\ (Syncing(n.threads[k]) => Syncing(c.threads[k]))

LEMMA StopSyncGoes ==
  ASSUME IInv, StopSync
  PROVE  \E n \in Control :
            DriverGoes(current, ctl[current], n) /\ StopLeaves(ctl[current], n)
<1> DEFINE o == ctl[current]
           x == [o EXCEPT !.pending = "none", !.running = @ /\ o.pending = "none"]
           n == [x EXCEPT !.threads = Cancelled(@)]
<1>1. o \in Control /\ DriverInv(o) BY CurrentIs
<1>2. (o.running /\ o.pending = "none") \in BOOLEAN OBVIOUS
<1>3. /\ x \in Control /\ x.threads = o.threads /\ x.life = o.life /\ x.stop = o.stop
      /\ x.busy = o.busy /\ x.pending = "none" /\ x.again = o.again /\ x.ended = o.ended
      /\ x.running = (o.running /\ o.pending = "none")
    BY <1>1, <1>2 DEF Control
<1>4. ctl' = [ctl EXCEPT ![current] = n] /\ faults' \in Nat
    BY DEF StopSync, bounds, IInv, TypeOK
<1> HIDE DEF x
<1>5. /\ n \in Control /\ n.threads = Cancelled(o.threads) /\ n.life = o.life /\ n.stop = o.stop
      /\ n.busy = o.busy /\ n.pending = "none" /\ n.again = o.again /\ n.ended = o.ended
      /\ n.running = (o.running /\ o.pending = "none")
    <2>1. Cancelled(x.threads) \in Seq(Thread) BY <1>3, CancelledIs
    <2> QED BY <1>3, <2>1 DEF Control
<1> HIDE DEF n
<1>c. /\ DOMAIN n.threads = DOMAIN o.threads /\ Len(n.threads) = Len(o.threads)
      /\ \A k \in DOMAIN o.threads :
            /\ n.threads[k].library = o.threads[k].library
            /\ n.threads[k].at = o.threads[k].at
            /\ n.threads[k].cancel = TRUE
    <2> HIDE DEF o
    <2> QED BY <1>1, <1>5, CancelledIs
<1>6. LibraryThread(n) <=> LibraryThread(o) BY <1>c DEF LibraryThread
<1>7. Worker(n) <=> Worker(o)
    <2>1. n.threads \in Seq(Thread) /\ o.threads \in Seq(Thread) BY <1>1, <1>5 DEF Control
    <2> QED BY <1>c, <2>1 DEF Worker
<1>8. DriverInv(n)
    <2>1. Len(n.threads) <= 1 BY <1>1, <1>c DEF DriverInv
    <2> QED BY <1>1, <1>5, <1>6, <1>7, <2>1 DEF DriverInv
<1>9. StopLeaves(o, n) BY <1>5, <1>c DEF StopLeaves, Syncing
<1>10. StaysStopped(o, n) BY <1>5, <1>9 DEF StaysStopped, StopLeaves
<1>11. QueueKept(o, n) BY <1>5 DEF QueueKept
<1>12. DriverGoes(current, o, n) BY <1>4, <1>5, <1>8, <1>10, <1>11, CurrentIs DEF DriverGoes
<1> QED BY <1>5, <1>9, <1>12

-----------------------------------------------------------------------------
(* The inductive invariant *)

\* The types of what is not a driver's.
RestTyped ==
    /\ hook \in BOOLEAN /\ {slot, stopped} \subseteq Drivers \cup {0}
    /\ task \in {"none", "asks", "joins", "works", "resumes"}
    /\ edits \in {"synced", "new", "taken"}
    /\ {written, asked, tasks, faults} \subseteq Nat

\* A driver's step keeps what does not depend on the account task.
LEMMA DriverKeeps ==
  ASSUME IInv, NEW d \in Drivers, NEW n \in Control, DriverGoes(d, ctl[d], n),
         current' = current, RestTyped'
  PROVE  TypeOK' /\ (\A e \in Drivers : DriverInv(ctl[e])') /\ OwnerInv'
<1>1. ctl \in [Drivers -> Control] /\ current \in Drivers BY DEF IInv, TypeOK
<1>2. ctl' = [ctl EXCEPT ![d] = n] BY DEF DriverGoes
<1>3. ctl'[d] = n /\ \A e \in Drivers : e # d => ctl'[e] = ctl[e] BY <1>1, <1>2
<1>4. TypeOK' BY <1>1, <1>2 DEF RestTyped, TypeOK
<1>5. \A e \in Drivers : DriverInv(ctl'[e]) BY <1>3 DEF IInv, DriverGoes
<1>6. d > current => FALSE BY DEF IInv, OwnerInv, DriverGoes
<1>7. OwnerInv'
    <2>1. /\ ctl'[current].life \in {"starting", "live"} /\ ~ctl'[current].stop
        BY <1>3, CurrentIs DEF DriverGoes
    <2>2. \A e \in Drivers : e < current => ctl'[e].stop
        BY <1>3 DEF IInv, OwnerInv, DriverGoes
    <2>3. \A e \in Drivers : e > current => ctl'[e] = NoDriver
        BY <1>3, <1>6 DEF IInv, OwnerInv
    <2> QED BY <2>1, <2>2, <2>3 DEF OwnerInv
<1> QED BY <1>4, <1>5, <1>7

\* A driver's step keeps what an account task has stopped.
LEMMA TaskKeeps ==
  ASSUME IInv, NEW d \in Drivers, NEW n \in Control, DriverGoes(d, ctl[d], n),
         UNCHANGED <<current, task, stopped>>
  PROVE  TaskInv'
<1>1. ctl \in [Drivers -> Control] /\ current \in Drivers BY DEF IInv, TypeOK
<1>2. ctl'[d] = n /\ \A e \in Drivers : e # d => ctl'[e] = ctl[e] BY <1>1 DEF DriverGoes
<1>3. CASE d # current BY <1>1, <1>2, <1>3 DEF IInv, TaskInv
<1>4. CASE d = current
    <2> DEFINE c == ctl[current]
    <2>1. ctl'[current] = n /\ StaysStopped(c, n) BY <1>2, <1>4, CurrentIs DEF DriverGoes
    <2>2. task \in {"asks", "joins", "works"} => n.busy BY <2>1 DEF IInv, TaskInv, StaysStopped
    <2>3. task \in {"joins", "works"} => n.pending = "none"
        BY <2>1 DEF IInv, TaskInv, StaysStopped
    <2>4. task = "joins" => \A k \in DOMAIN n.threads :
            Syncing(n.threads[k]) => n.threads[k].cancel /\ stopped = current
        BY <2>1 DEF IInv, TaskInv, StaysStopped
    <2>5. task = "works" => \A k \in DOMAIN n.threads : ~Syncing(n.threads[k])
        BY <2>1 DEF IInv, TaskInv, StaysStopped
    <2> QED BY <2>1, <2>2, <2>3, <2>4, <2>5 DEF TaskInv
<1> QED BY <1>3, <1>4

\* The steps of one driver that the account task does not see.
LEMMA DriversSteps ==
  ASSUME IInv, NEW d \in Drivers,
         ControlStep(d) \/ ThreadStep(d) \/ PauseEnds(d) \/ (d = current /\ (Edit \/ SyncNow))
  PROVE  /\ \E n \in Control : DriverGoes(d, ctl[d], n)
         /\ UNCHANGED owner /\ RestTyped'
<1> USE DEF IInv, TypeOK, RestTyped, owner, bounds
<1>1. CASE Begin(d) BY <1>1, BeginGoes DEF Begin, DriverGoes
<1>2. CASE EditTimer(d) BY <1>2, EditTimerGoes DEF EditTimer, DriverGoes
<1>3. CASE Tick(d) BY <1>3, TickGoes DEF Tick, DriverGoes
<1>4. CASE Finish(d) BY <1>4, FinishGoes DEF Finish, DriverGoes
<1>5. CASE EndLoop(d) BY <1>5, EndLoopGoes DEF EndLoop, DriverGoes
<1>6. CASE EndDriver(d) BY <1>6, EndDriverGoes DEF EndDriver, DriverGoes
<1>7. CASE PauseEnds(d) BY <1>7, PauseEndsGoes DEF PauseEnds, DriverGoes
<1>8. CASE ThreadStep(d)
    <2>1. PICK k \in DOMAIN ctl[d].threads :
            TakeSlot(d, k) \/ HookEnds(d, k) \/ \E result \in Results : SyncEnds(d, k, result)
        BY <1>8 DEF ThreadStep
    <2>2. CASE TakeSlot(d, k) BY <2>2, TakeSlotGoes DEF TakeSlot, DriverGoes
    <2>3. CASE HookEnds(d, k) BY <2>3, HookEndsGoes DEF HookEnds, DriverGoes
    <2>4. CASE \E result \in Results : SyncEnds(d, k, result)
        <3>1. PICK result \in Results : SyncEnds(d, k, result) BY <2>4
        <3>2. SlotAfter(d, result) = 0 BY DEF SlotAfter
        <3> QED BY <3>1, <3>2, SyncEndsGoes DEF SyncEnds, DriverGoes
    <2> QED BY <2>1, <2>2, <2>3, <2>4
<1>9. CASE d = current /\ Edit
    <2>1. written' \in Nat /\ edits' = "new" /\ UNCHANGED <<owner, slot, asked, tasks, faults>>
        BY <1>9 DEF Edit
    <2> QED BY <1>9, <2>1, EditGoes
<1>10. CASE d = current /\ SyncNow BY <1>10, SyncNowGoes DEF SyncNow, DriverGoes
<1> QED BY <1>1, <1>2, <1>3, <1>4, <1>5, <1>6, <1>7, <1>8, <1>9, <1>10 DEF ControlStep

LEMMA InitInv == Init => IInv
<1> SUFFICES ASSUME Init PROVE IInv OBVIOUS
<1>1. PICK automatic \in BOOLEAN :
        ctl = [d \in Drivers |-> IF d = 1 THEN Fresh(automatic, "none", FALSE) ELSE NoDriver]
    BY DEF Init
<1>2. 1 \in Drivers /\ Drivers \subseteq Nat BY BoundsAssumption DEF Drivers
<1>3. <<>> \in Seq(Thread) OBVIOUS
<1>4. /\ Fresh(automatic, "none", FALSE) \in Control /\ NoDriver \in Control
    BY <1>3 DEF Fresh, NoDriver, Control, Holds
<1>5. TypeOK
    <2>1. ctl \in [Drivers -> Control] BY <1>1, <1>4
    <2>2. /\ hook \in BOOLEAN /\ current = 1 /\ slot = 0 /\ task = "none" /\ stopped = 0
          /\ edits = "synced" /\ written = 0 /\ asked = 0 /\ tasks = 0 /\ faults = 0
        BY DEF Init
    <2> QED BY <1>2, <2>1, <2>2 DEF TypeOK
<1>6. \A d \in Drivers : DriverInv(ctl[d])
    BY <1>1 DEF Fresh, NoDriver, DriverInv, LibraryThread, Worker
<1>7. OwnerInv BY <1>1, <1>2 DEF Init, OwnerInv, Fresh, Drivers
<1>8. TaskInv BY <1>1, <1>2 DEF Init, TaskInv
<1> QED BY <1>5, <1>6, <1>7, <1>8 DEF IInv

\* A setting changed: the next driver is a fresh one, which an account task
\* that goes on keeps from syncing.
LEMMA ReplaceKeeps ==
  ASSUME IInv, NEW automatic \in BOOLEAN, Replace(automatic)
  PROVE  IInv'
<1> DEFINE o == ctl[current]
           a == [o EXCEPT !.stop = TRUE]
           b == Fresh(automatic, o.hold, task # "none")
<1>1. /\ ctl \in [Drivers -> Control] /\ current \in Drivers /\ o \in Control /\ DriverInv(o)
      /\ current \in Nat /\ Drivers \subseteq Nat
    BY CurrentIs, BoundsAssumption DEF IInv, TypeOK, Drivers
<1>2. current + 1 \in Drivers /\ current' = current + 1
    BY <1>1, BoundsAssumption DEF Replace, Drivers
<1>3. /\ a \in Control /\ a.stop /\ a.threads = o.threads /\ a.life = o.life
      /\ a.pending = o.pending /\ a.running = o.running /\ a.ended = o.ended
    BY <1>1 DEF Control
<1>4. /\ b \in Control /\ b.threads = <<>> /\ b.life = "starting" /\ ~b.stop /\ b.pending = "none"
      /\ b.running = FALSE /\ b.ended = FALSE /\ b.busy = (task # "none")
    <2>1. <<>> \in Seq(Thread) OBVIOUS
    <2>2. o.hold \in Holds /\ (task # "none") \in BOOLEAN BY <1>1 DEF Control
    <2> QED BY <2>1, <2>2 DEF Fresh, Control
<1>5. ctl' = [ctl EXCEPT ![current].stop = TRUE, ![current + 1] = b] BY DEF Replace
<1> HIDE DEF b
<1>6. /\ ctl'[current] = a /\ ctl'[current + 1] = b /\ ctl' \in [Drivers -> Control]
      /\ \A e \in Drivers \ {current, current + 1} : ctl'[e] = ctl[e]
    <2>1. ctl' = [ctl EXCEPT ![current] = a, ![current + 1] = b] BY <1>1, <1>5
    <2> HIDE DEF a
    <2> QED BY <1>1, <1>2, <1>3, <1>4, <2>1
<1> HIDE DEF a
<1>7. TypeOK' BY <1>2, <1>6 DEF IInv, TypeOK, Replace, bounds
<1>8. \A e \in Drivers : DriverInv(ctl'[e])
    <2>1. DriverInv(a) BY <1>1, <1>3 DEF DriverInv, LibraryThread, Worker
    <2>2. DriverInv(b) BY <1>4 DEF DriverInv, LibraryThread, Worker
    <2> QED BY <1>6, <2>1, <2>2 DEF IInv
<1>9. OwnerInv'
    <2>1. \A e \in Drivers : e < current + 1 => ctl'[e].stop
        BY <1>1, <1>3, <1>6 DEF IInv, OwnerInv
    <2>2. \A e \in Drivers : e > current + 1 => ctl'[e] = NoDriver
        BY <1>1, <1>6 DEF IInv, OwnerInv
    <2> QED BY <1>2, <1>4, <1>6, <2>1, <2>2 DEF OwnerInv
<1>10. TaskInv'
    <2>1. ctl'[current'] = b /\ task' = task BY <1>2, <1>6 DEF Replace
    <2>2. DOMAIN b.threads = {} BY <1>4
    <2>3. task \in {"asks", "joins", "works"} => b.busy BY <1>4
    <2> QED BY <1>4, <2>1, <2>2, <2>3 DEF TaskInv
<1> QED BY <1>7, <1>8, <1>9, <1>10 DEF IInv

\* An account task asks: nothing starts from here on.
LEMMA AskStopKeeps ==
  ASSUME IInv, AskStop
  PROVE  IInv'
<1> DEFINE n == [ctl[current] EXCEPT !.busy = TRUE]
<1>1. ctl \in [Drivers -> Control] /\ current \in Drivers BY DEF IInv, TypeOK
<1>2. ctl' = [ctl EXCEPT ![current] = n] BY DEF AskStop
<1>3. /\ n \in Control /\ n.busy /\ n.threads = ctl[current].threads /\ n.stop = ctl[current].stop
      /\ n.life = ctl[current].life /\ n.pending = ctl[current].pending
      /\ n.running = ctl[current].running /\ n.ended = ctl[current].ended
    BY CurrentIs DEF Control
<1> HIDE DEF n
<1>4. /\ ctl'[current] = n /\ ctl' \in [Drivers -> Control]
      /\ \A e \in Drivers : e # current => ctl'[e] = ctl[e]
    BY <1>1, <1>2, <1>3
<1>5. tasks' \in Nat /\ task' = "asks" /\ UNCHANGED <<hook, current, stopped, slot, edits, written, asked, faults>>
    BY DEF AskStop, IInv, TypeOK
<1>6. TypeOK' BY <1>4, <1>5 DEF IInv, TypeOK
<1>7. DriverInv(n) BY <1>3, CurrentIs DEF DriverInv, LibraryThread, Worker
<1>8. \A e \in Drivers : DriverInv(ctl'[e]) BY <1>4, <1>7 DEF IInv
<1>9. OwnerInv' BY <1>3, <1>4, <1>5, BoundsAssumption DEF IInv, OwnerInv, Drivers
<1>10. TaskInv' BY <1>3, <1>4, <1>5 DEF TaskInv
<1> QED BY <1>6, <1>8, <1>9, <1>10 DEF IInv

\* It ends: syncs may start again.
LEMMA EndTaskKeeps ==
  ASSUME IInv, EndTask
  PROVE  IInv'
<1> DEFINE n == [ctl[current] EXCEPT !.busy = FALSE]
<1>1. ctl \in [Drivers -> Control] /\ current \in Drivers BY DEF IInv, TypeOK
<1>2. ctl' = [ctl EXCEPT ![current] = n] BY DEF EndTask
<1>3. /\ n \in Control /\ n.threads = ctl[current].threads /\ n.stop = ctl[current].stop
      /\ n.life = ctl[current].life /\ n.pending = ctl[current].pending
      /\ n.running = ctl[current].running /\ n.ended = ctl[current].ended
    BY CurrentIs DEF Control
<1> HIDE DEF n
<1>4. /\ ctl'[current] = n /\ ctl' \in [Drivers -> Control]
      /\ \A e \in Drivers : e # current => ctl'[e] = ctl[e]
    BY <1>1, <1>2, <1>3
<1>5. task' \in {"resumes", "none"} /\ UNCHANGED <<hook, current, stopped, slot, edits, bounds>>
    BY DEF EndTask
<1>6. TypeOK' BY <1>4, <1>5 DEF IInv, TypeOK, bounds
<1>7. DriverInv(n) BY <1>3, CurrentIs DEF DriverInv, LibraryThread, Worker
<1>8. \A e \in Drivers : DriverInv(ctl'[e]) BY <1>4, <1>7 DEF IInv
<1>9. OwnerInv' BY <1>3, <1>4, <1>5, BoundsAssumption DEF IInv, OwnerInv, Drivers
<1>10. TaskInv' BY <1>5 DEF TaskInv
<1> QED BY <1>6, <1>8, <1>9, <1>10 DEF IInv

\* A task works once every sync it cancelled has ended.
LEMMA StartTaskKeeps ==
  ASSUME IInv, StartTask
  PROVE  IInv'
<1>1. TypeOK' /\ (\A e \in Drivers : DriverInv(ctl'[e])) /\ OwnerInv'
    BY DEF StartTask, IInv, TypeOK, OwnerInv, bounds
<1>2. \A k \in DOMAIN ctl[current].threads : ~Syncing(ctl[current].threads[k])
    <2>1. ASSUME NEW k \in DOMAIN ctl[current].threads, Syncing(ctl[current].threads[k])
          PROVE  FALSE
        <3>1. ctl[current].threads[k].cancel /\ stopped = current
            BY <2>1 DEF IInv, TaskInv, StartTask
        <3>2. current # 0 BY BoundsAssumption DEF IInv, TypeOK, Drivers
        <3>3. ctl[current].threads[k].at = "done" BY <3>1, <3>2 DEF StartTask, Joined
        <3> QED BY <2>1, <3>3 DEF Syncing
    <2> QED BY <2>1
<1>3. TaskInv' BY <1>2 DEF StartTask, IInv, TaskInv
<1> QED BY <1>1, <1>3 DEF IInv

LEMMA StopSyncKeeps ==
  ASSUME IInv, StopSync
  PROVE  IInv'
<1>1. PICK n \in Control : DriverGoes(current, ctl[current], n) /\ StopLeaves(ctl[current], n)
    BY StopSyncGoes
<1>2. ctl \in [Drivers -> Control] /\ current \in Drivers BY DEF IInv, TypeOK
<1>3. /\ task' = "joins" /\ stopped' \in Drivers \cup {0}
      /\ Worker(ctl[current]) => stopped' = current
      /\ UNCHANGED <<hook, current, slot, edits, bounds>>
    BY <1>2 DEF StopSync
<1>4. RestTyped' BY <1>3 DEF IInv, TypeOK, RestTyped, bounds
<1>5. TypeOK' /\ (\A e \in Drivers : DriverInv(ctl[e])') /\ OwnerInv'
    BY <1>1, <1>2, <1>3, <1>4, DriverKeeps
<1>6. ctl'[current] = n BY <1>1, <1>2 DEF DriverGoes
<1>7. n.busy BY <1>1 DEF IInv, TaskInv, StopSync, StopLeaves
<1>8. DOMAIN n.threads # {} => Worker(ctl[current]) BY <1>1 DEF StopLeaves, Worker
<1>9. TaskInv' BY <1>1, <1>3, <1>6, <1>7, <1>8 DEF TaskInv, StopLeaves
<1> QED BY <1>5, <1>9 DEF IInv

LEMMA ResumeKeeps ==
  ASSUME IInv, Resume
  PROVE  IInv'
<1>1. PICK n \in Control : DriverGoes(current, ctl[current], n) BY ResumeGoes
<1>2. current \in Drivers BY DEF IInv, TypeOK
<1>3. /\ task' = "none" /\ stopped' = 0
      /\ UNCHANGED <<hook, current, slot, edits, written, asked, tasks>>
    BY DEF Resume
<1>4. RestTyped' BY <1>1, <1>3 DEF IInv, TypeOK, RestTyped, DriverGoes
<1>5. TypeOK' /\ (\A e \in Drivers : DriverInv(ctl[e])') /\ OwnerInv'
    BY <1>1, <1>2, <1>3, <1>4, DriverKeeps
<1>6. TaskInv' BY <1>3 DEF TaskInv
<1> QED BY <1>5, <1>6 DEF IInv

LEMMA StepInv ==
  ASSUME IInv, [Next]_vars
  PROVE  IInv'
<1>1. ASSUME NEW d \in Drivers,
             ControlStep(d) \/ ThreadStep(d) \/ PauseEnds(d) \/ (d = current /\ (Edit \/ SyncNow))
      PROVE  IInv'
    <2>1. /\ \E n \in Control : DriverGoes(d, ctl[d], n)
          /\ UNCHANGED <<current, task, stopped>> /\ RestTyped'
        BY <1>1, DriversSteps DEF owner
    <2>2. PICK n \in Control : DriverGoes(d, ctl[d], n) BY <2>1
    <2>3. TypeOK' /\ (\A e \in Drivers : DriverInv(ctl[e])') /\ OwnerInv'
        BY <2>1, <2>2, DriverKeeps
    <2>4. TaskInv' BY <2>1, <2>2, TaskKeeps
    <2> QED BY <2>3, <2>4 DEF IInv
<1>2. CASE Edit \/ SyncNow
    <2>1. current \in Drivers BY DEF IInv, TypeOK
    <2> QED BY <1>1, <1>2, <2>1
<1>3. CASE AskStop BY <1>3, AskStopKeeps
<1>4. CASE TaskStep
    BY <1>4, StopSyncKeeps, StartTaskKeeps, EndTaskKeeps, ResumeKeeps DEF TaskStep
<1>5. CASE \E automatic \in BOOLEAN : Replace(automatic) BY <1>5, ReplaceKeeps
<1>6. CASE UNCHANGED vars
    BY <1>6 DEF vars, owner, bounds, IInv, TypeOK, OwnerInv, TaskInv
<1> QED BY <1>1, <1>2, <1>3, <1>4, <1>5, <1>6 DEF Next

THEOREM Invariance == Spec => []IInv
<1>1. IInv /\ [Next]_vars => IInv' BY StepInv
<1> QED BY <1>1, InitInv, PTL DEF Spec

-----------------------------------------------------------------------------
(* The results *)

\* The drivers, the slot and the account task stay of their types.
THEOREM TypeCorrect == Spec => []TypeOK
<1>1. IInv => TypeOK BY DEF IInv
<1> QED BY <1>1, Invariance, PTL

\* A driver runs one worker at a time, and what its scheduler believes of it
\* is so, whatever requests, ticks, faults and tasks come in between.
THEOREM SchedulerIsRight == Spec => []SchedulerKnows
<1>1. IInv => SchedulerKnows BY DEF IInv, DriverInv, SchedulerKnows
<1> QED BY <1>1, Invariance, PTL

\* No sync of a driver that is not on its way out goes on while an account
\* task works, however often the driver was replaced meanwhile.
THEOREM TasksWorkAlone == Spec => []TaskWorksAlone
<1>1. ASSUME IInv PROVE TaskWorksAlone
    <2>1. SUFFICES ASSUME task = "works", NEW d \in Drivers, NEW k \in DOMAIN ctl[d].threads,
                          ctl[d].threads[k].library, ctl[d].threads[k].at # "done"
                   PROVE  ctl[d].stop
        BY DEF TaskWorksAlone
    <2>2. d \in Nat /\ current \in Nat BY <1>1, BoundsAssumption DEF IInv, TypeOK, Drivers
    <2>3. CASE d < current BY <1>1, <2>3 DEF IInv, OwnerInv
    <2>4. CASE d > current
        <3>1. ctl[d].threads = <<>> BY <1>1, <2>4 DEF IInv, OwnerInv, NoDriver, Fresh
        <3> QED BY <3>1
    <2>5. CASE d = current BY <1>1, <2>1, <2>5 DEF IInv, TaskInv, Syncing
    <2> QED BY <2>2, <2>3, <2>4, <2>5
<1> QED BY <1>1, Invariance, PTL

\* A Sync now that waits behind a running sync is never turned into less: it
\* starts, or one of the named causes takes it.
THEOREM QueuedSyncNowsRun == Spec => QueuedSyncNowRuns
<1> DEFINE Kept == \A d \in Drivers : QueueKept(ctl[d], ctl'[d])
<1>1. ASSUME IInv, Next PROVE Kept
    <2>1. ctl \in [Drivers -> Control] /\ current \in Drivers BY <1>1 DEF IInv, TypeOK
    <2>2. ASSUME NEW d \in Drivers, \E n \in Control : DriverGoes(d, ctl[d], n) PROVE Kept
        <3>1. PICK n \in Control : DriverGoes(d, ctl[d], n) BY <2>2
        <3>2. ctl'[d] = n /\ \A e \in Drivers : e # d => ctl'[e] = ctl[e]
            BY <2>1, <3>1 DEF DriverGoes
        <3> QED BY <3>1, <3>2 DEF DriverGoes, QueueKept
    <2>3. ASSUME \A d \in Drivers : ctl[d].again = "manual" => ctl'[d].again = "manual"
          PROVE  Kept
        BY <2>3 DEF QueueKept
    <2>4. ASSUME NEW d \in Drivers, ControlStep(d) \/ ThreadStep(d) \/ PauseEnds(d) PROVE Kept
        BY <1>1, <2>2, <2>4, DriversSteps
    <2>5. CASE Edit \/ SyncNow BY <1>1, <2>1, <2>2, <2>5, DriversSteps
    <2>6. CASE StopSync
        <3>1. \E n \in Control : DriverGoes(current, ctl[current], n) BY <1>1, <2>6, StopSyncGoes
        <3> QED BY <2>1, <2>2, <3>1
    <2>7. CASE Resume BY <1>1, <2>1, <2>2, <2>7, ResumeGoes
    <2>8. CASE StartTask BY <2>3, <2>8 DEF StartTask
    <2>9. CASE EndTask
        <3>1. \A d \in Drivers : ctl'[d].again = ctl[d].again
            BY <2>1, <2>9 DEF EndTask, Control
        <3> QED BY <2>3, <3>1
    <2>10. CASE AskStop
        <3>1. \A d \in Drivers : ctl'[d].again = ctl[d].again
            BY <2>1, <2>10 DEF AskStop, Control
        <3> QED BY <2>3, <3>1
    <2>11. ASSUME NEW automatic \in BOOLEAN, Replace(automatic) PROVE Kept
        <3>1. ctl[current + 1].again = "manual" => current + 1 \notin Drivers
            BY <1>1, <2>1, BoundsAssumption DEF IInv, OwnerInv, NoDriver, Fresh, Drivers
        <3>2. \A d \in Drivers : d # current + 1 => ctl'[d].again = ctl[d].again
            BY <2>1, <2>11 DEF Replace, Control
        <3> QED BY <2>3, <3>1, <3>2
    <2> QED BY <1>1, <2>4, <2>5, <2>6, <2>7, <2>8, <2>9, <2>10, <2>11 DEF Next, TaskStep
<1>2. IInv /\ [Next]_vars => [Kept]_vars BY <1>1
<1>3. [][Kept]_vars => QueuedSyncNowRuns BY PTL DEF QueuedSyncNowRuns, QueueKept
<1> QED BY <1>2, <1>3, Invariance, PTL DEF Spec
=============================================================================
