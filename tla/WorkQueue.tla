----------------------------- MODULE WorkQueue -----------------------------
(***************************************************************************)
(* The kernel work queue (smp/workqueue.cpp): one worker task, one timer   *)
(* task, a FIFO of works and a list of delayed works, all under one lock.  *)
(* A work is run by the worker; from its function, or from any other       *)
(* kernel thread, it may be queued again.                                  *)
(*                                                                         *)
(* Sections under workqueue::lock are single steps.  scheduler::wake comes *)
(* after the section and is a step of its own; what happens inside         *)
(* block_current and wake is the subject of Completion.  due_tick is kept  *)
(* relative to the clock, 0 once it has been reached, which is all the     *)
(* code compares.  The statistics counters are left out.                   *)
(***************************************************************************)
EXTENDS Naturals, Sequences, Lists

CONSTANTS Works,      \* kernel_work objects, the ones inside delayed works too
          Immediate,  \* those queued with kernel_queue_work
          Delayed,    \* those queued with kernel_queue_delayed_work
          Threads,    \* kernel threads that call the interface
          MaxDelay,   \* largest delay_ticks
          NoWork

ASSUME WorkAssumption == NoWork \notin Works /\ MaxDelay \in Nat \ {0}

Worker == "worker"
Callers == Threads \cup {Worker}

VARIABLES queue,    \* head .. tail
          flags,    \* work->flags
          delayed,  \* delayed_head ..
          dpending, \* the delayed works with KERNEL_DELAYED_WORK_PENDING
          due,      \* due_tick, from now
          wstate,   \* the worker task: none, READY, WAITING
          running,  \* the work whose function the worker is in
          started,  \* how far start() has come: 0 .. 3
          tawake,   \* the timer task is not asleep
          pc        \* callers on the way to scheduler::wake(worker)

workVars == <<queue, flags, delayed, dpending, due, wstate, running, started, tawake, pc>>

WorkTypeOK ==
    /\ queue \in Seq(Works) /\ delayed \in Seq(Works)
    /\ flags \in [Works -> {"0", "PENDING", "RUNNING"}]
    /\ dpending \in SUBSET Works
    /\ due \in [Works -> 0..MaxDelay]
    /\ wstate \in {"none", "READY", "WAITING"}
    /\ running \in Works \cup {NoWork}
    /\ started \in 0..3
    /\ tawake \in BOOLEAN
    /\ pc \in [Callers -> {"idle", "wake"}]

WorkInit ==
    /\ queue = <<>> /\ delayed = <<>>
    /\ flags = [w \in Works |-> "0"]
    /\ dpending = {}
    /\ due = [w \in Works |-> 0]
    /\ wstate = "none" /\ running = NoWork
    /\ started = 0 /\ tawake = FALSE
    /\ pc = [p \in Callers |-> "idle"]

\* A thread calls between two of its calls, the worker from a work's function.
MayCall(p) == pc[p] = "idle" /\ (p = Worker => running # NoWork)

Wakes(s) == IF s = "WAITING" THEN "READY" ELSE s

\* start(): both tasks are spawned READY, then published, then woken.
StartSpawn ==
    /\ started = 0
    /\ started' = 1
    /\ wstate' = "READY" /\ tawake' = TRUE
    /\ UNCHANGED <<queue, flags, delayed, dpending, due, running, pc>>

StartPublish ==
    /\ started = 1
    /\ started' = 2
    /\ UNCHANGED <<queue, flags, delayed, dpending, due, wstate, running, tawake, pc>>

StartWake ==
    /\ started = 2
    /\ started' = 3
    /\ wstate' = Wakes(wstate)
    /\ UNCHANGED <<queue, flags, delayed, dpending, due, running, tawake, pc>>

Link(p, w) ==
    /\ queue' = Append(queue, w)
    /\ flags' = [flags EXCEPT ![w] = "PENDING"]
    /\ pc' = [pc EXCEPT ![p] = IF started >= 2 THEN "wake" ELSE "idle"]
    /\ UNCHANGED <<delayed, dpending, due, wstate, running, started, tawake>>

\* Mutant: only PENDING is tested.
QueueRunning(p, w) ==
    /\ MayCall(p) /\ w \in Immediate
    /\ flags[w] # "PENDING"
    /\ Link(p, w)

\* queue(); a work that is PENDING or RUNNING is rejected.
Queue(p, w) ==
    /\ MayCall(p) /\ w \in Immediate
    /\ flags[w] = "0"
    /\ Link(p, w)

\* scheduler::wake(worker) at the end of queue().
WakeWorker(p) ==
    /\ pc[p] = "wake"
    /\ pc' = [pc EXCEPT ![p] = "idle"]
    /\ wstate' = Wakes(wstate)
    /\ UNCHANGED <<queue, flags, delayed, dpending, due, running, started, tawake>>

\* The place of a work in the list of delayed works.
InsertDelayed(w, d) ==
    LET later == {i \in 1..Len(delayed) : due[delayed[i]] > d}
        place == IF later = {} THEN Len(delayed) + 1
                 ELSE CHOOSE i \in later : \A j \in later : i <= j
    IN  InsertAt(delayed, place, w)

\* kernel_queue_delayed_work; a RUNNING work is accepted.  The timer task it
\* wakes is never WAITING, so that wake does nothing.
QueueDelayed(p, w, d) ==
    /\ MayCall(p) /\ w \in Delayed
    /\ w \notin dpending /\ flags[w] # "PENDING"
    /\ due' = [due EXCEPT ![w] = d]
    /\ dpending' = dpending \cup {w}
    /\ delayed' = InsertDelayed(w, d)
    /\ UNCHANGED <<queue, flags, wstate, running, started, tawake, pc>>

\* kernel_cancel_delayed_work, for a work that is still in the list.
CancelDelayed(p, w) ==
    /\ MayCall(p) /\ w \in Range(delayed)
    /\ delayed' = Only(delayed, Works \ {w})
    /\ dpending' = dpending \ {w}
    /\ UNCHANGED <<queue, flags, due, wstate, running, started, tawake, pc>>

\* timer_main, one turn: queue_ready_delayed moves the works that are due to
\* the queue, puts off those still PENDING or RUNNING by a tick, and wakes the
\* worker under the lock; then the task sleeps for a tick.
TimerTurn ==
    LET moved  == {w \in Range(delayed) : due[w] = 0 /\ flags[w] = "0"}
        putOff == {w \in Range(delayed) : due[w] = 0 /\ flags[w] # "0"}
    IN
    /\ tawake
    /\ tawake' = FALSE
    /\ queue' = queue \o Only(delayed, moved)
    /\ delayed' = Only(delayed, Works \ moved)
    /\ dpending' = dpending \ moved
    /\ flags' = [w \in Works |-> IF w \in moved THEN "PENDING" ELSE flags[w]]
    /\ due' = [w \in Works |-> IF w \in putOff THEN 1 ELSE due[w]]
    /\ wstate' = IF moved # {} /\ started >= 2 THEN Wakes(wstate) ELSE wstate
    /\ UNCHANGED <<running, started, pc>>

\* The clock; the sleep of the timer task ends.
WorkTick ==
    /\ started > 0
    /\ due' = [w \in Works |-> IF due[w] = 0 THEN 0 ELSE due[w] - 1]
    /\ tawake' = TRUE
    /\ UNCHANGED <<queue, flags, delayed, dpending, wstate, running, started, pc>>

\* Mutant: the newest work is taken first.
TakeLast ==
    /\ wstate = "READY" /\ running = NoWork /\ queue # <<>>
    /\ queue' = Front(queue)
    /\ running' = Last(queue)
    /\ flags' = [flags EXCEPT ![Last(queue)] = "RUNNING"]
    /\ UNCHANGED <<delayed, dpending, due, wstate, started, tawake, pc>>

\* worker_main: take_one.
TakeOne ==
    /\ wstate = "READY" /\ running = NoWork /\ queue # <<>>
    /\ queue' = Tail(queue)
    /\ running' = Head(queue)
    /\ flags' = [flags EXCEPT ![Head(queue)] = "RUNNING"]
    /\ UNCHANGED <<delayed, dpending, due, wstate, started, tawake, pc>>

\* worker_main: nothing to do, block_current with the lock held.
WorkerBlock ==
    /\ wstate = "READY" /\ running = NoWork /\ queue = <<>>
    /\ wstate' = "WAITING"
    /\ UNCHANGED <<queue, flags, delayed, dpending, due, running, started, tawake, pc>>

\* worker_main: the work's function has returned.
WorkDone ==
    /\ running # NoWork /\ pc[Worker] = "idle"
    /\ flags' = [flags EXCEPT ![running] = "0"]
    /\ running' = NoWork
    /\ UNCHANGED <<queue, delayed, dpending, due, wstate, started, tawake, pc>>

WorkNext ==
    \/ StartSpawn \/ StartPublish \/ StartWake
    \/ \E p \in Callers, w \in Works :
          \/ Queue(p, w) \/ CancelDelayed(p, w)
          \/ \E d \in 0..MaxDelay : QueueDelayed(p, w, d)
    \/ \E p \in Callers : WakeWorker(p)
    \/ TimerTurn \/ WorkTick \/ TakeOne \/ WorkerBlock \/ WorkDone

WorkSpec == WorkInit /\ [][WorkNext]_workVars

-----------------------------------------------------------------------------
\* The flags of a work say where it is: PENDING exactly while it is linked
\* once into the queue, RUNNING exactly while the worker is in its function,
\* DELAYED_PENDING exactly while it is linked once into the delayed list
\* (queue, queue_ready_delayed, take_one, kernel_cancel_delayed_work).
FlagsMatchLists ==
    /\ IsInjective(queue) /\ IsInjective(delayed)
    /\ \A w \in Works : /\ flags[w] = "PENDING" <=> w \in Range(queue)
                        /\ flags[w] = "RUNNING" <=> w = running
                        /\ w \in dpending <=> w \in Range(delayed)

\* The worker does not wait beside a queued work unless somebody is about to
\* wake it: neither the gap between spawn and publication in start(), nor the
\* one between queue()'s section and its wake, loses a work.
NoStrandedWork ==
    queue # <<>> /\ wstate = "WAITING" =>
        started < 3 \/ \E p \in Callers : pc[p] = "wake"

\* The flags of a work say in which list, if any, it is, and the worker never
\* sleeps beside a queued work that nobody will wake it for (kernel_work_queue,
\* kernel_delayed_work_queue, the worker and the timer task).
WorkKept == WorkTypeOK /\ FlagsMatchLists /\ NoStrandedWork
=============================================================================
