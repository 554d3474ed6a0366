------------------------------- MODULE MCSched ------------------------------
(***************************************************************************)
(* What tasks sleep, are scheduled and are reaped with: the completion,    *)
(* the wait queue, the run queues, the work queue and the process tree,    *)
(* each alone.  MCSpec is about safety, for the numbers of CPUs at which   *)
(* the cases of a subject differ; LiveSpec about what must happen in the   *)
(* end, each subject under its own fairness.  The subject is chosen at the *)
(* start.  The variables of Completion, on two CPUs, and of WorkQueue      *)
(* then keep their initial values; a second set serves the other subjects  *)
(* in turn, and those of its variables that one does not have are None.    *)
(***************************************************************************)
EXTENDS Completion, WorkQueue, TLC

CONSTANTS c1, c2, t1, t2, t3, k1, k2, r1, r2, r3, i1, w1, w3

VARIABLES subject,
          xstate, xlast, xcur,                                 \* RunQueue and a second Sched
          xrq, xsleepers, xat, xctx, xirq, xwaking,            \* a second Sched
          xdone, xwaiter,                                      \* a second Completion
          seq, waiters, snap,                                  \* WaitQueue
          priority, quantum, q, age, oldest, load,             \* RunQueue
          st, parent, kids, ppc, peer, kill, inbox             \* Process

sched == <<xrq, xsleepers, xat, xctx, xirq, xwaking>>
shared == <<xstate, xlast, xcur>>
completion == <<xdone, xwaiter>>
wait_queue == <<seq, waiters, snap>>
run_queue == <<priority, quantum, q, age, oldest, load>>
process == <<st, parent, kids, ppc, peer, kill, inbox>>
others == <<shared, sched, completion, wait_queue, run_queue>>
allVars == <<subject, vars, workVars, others, process>>

NoSched == /\ xrq = None /\ xsleepers = None /\ xat = None /\ xctx = None /\ xirq = None /\ xwaking = None
NoShared == xstate = None /\ xlast = None /\ xcur = None
NoCompletion == xdone = None /\ xwaiter = None
NoWaitQueue == seq = None /\ waiters = None /\ snap = None
NoRunQueue == /\ priority = None /\ quantum = None /\ q = None /\ age = None /\ oldest = None /\ load = None

C1 == INSTANCE Completion WITH CPUs <- {c1}, Tasks <- {t1, t2, t3}, Waiters <- {t1}, Resetters <- {t1},
        state <- xstate, last_cpu <- xlast, rq <- xrq, sleepers <- xsleepers, cur <- xcur, at <- xat,
        ctx <- xctx, irq <- xirq, waking <- xwaking, done <- xdone, waiter <- xwaiter
W1 == INSTANCE WaitQueue WITH CPUs <- {c1}, Tasks <- {t1, t2, t3}, MaxWaiters <- 2, MaxSeq <- 2,
        state <- xstate, last_cpu <- xlast, rq <- xrq, sleepers <- xsleepers, cur <- xcur, at <- xat,
        ctx <- xctx, irq <- xirq, waking <- xwaking
W2 == INSTANCE WaitQueue WITH CPUs <- {c1, c2}, Tasks <- {t1, t2}, MaxWaiters <- 1, MaxSeq <- 1,
        state <- xstate, last_cpu <- xlast, rq <- xrq, sleepers <- xsleepers, cur <- xcur, at <- xat,
        ctx <- xctx, irq <- xirq, waking <- xwaking
R == INSTANCE RunQueue WITH CPUs <- {k1, k2}, Tasks <- {r1, r2, r3}, MAX_QUEUES <- 3,
        TIME_QUANTUMS <- 0 :> 1 @@ 1 :> 2 @@ 2 :> 2, AGING_THRESHOLD <- 1,
        state <- xstate, last_cpu <- xlast, cur <- xcur
R1 == INSTANCE RunQueue WITH CPUs <- {c1}, Tasks <- {t1, t2, t3}, MAX_QUEUES <- 2,
        TIME_QUANTUMS <- 0 :> 2 @@ 1 :> 2, AGING_THRESHOLD <- 1,
        state <- xstate, last_cpu <- xlast, cur <- xcur
P == INSTANCE Process WITH Tasks <- {i1, t1, t2}, Init1 <- i1, Mortal <- {t1, t2}, Readers <- {t1, t2},
        QUEUE_SIZE <- 1, UP <- TRUE, pc <- ppc,
        N <- 1, MAX_DROPPED <- 1, Events <- {}, Zero <- None,   \* the ring of an inbox, which Process does not use
        entries <- None, head <- 0, count <- 0, dropped <- 0, dead <- FALSE, out <- <<>>

Sym == Permutations({k1, k2}) \cup Permutations({r1, r2, r3})

\* One of the initial states of the completion, for when others are looked at.
Resting == Init /\ ~done /\ rq[c1] = <<t1, t2>>

MCInit ==
    /\ WorkInit /\ P!Init
    /\ \/ subject \in {"completion, two CPUs", "work queue"}
          /\ NoShared /\ NoSched /\ NoCompletion /\ NoWaitQueue /\ NoRunQueue
       \/ subject = "completion, one CPU" /\ C1!Init /\ NoWaitQueue /\ NoRunQueue
       \/ subject = "wait queue, one CPU" /\ W1!WaitInit /\ NoCompletion /\ NoRunQueue
       \/ subject = "wait queue, two CPUs" /\ W2!WaitInit /\ NoCompletion /\ NoRunQueue
       \/ subject = "run queues" /\ R!Init /\ NoSched /\ NoCompletion /\ NoWaitQueue
    /\ IF subject = "completion, two CPUs" THEN Init ELSE Resting

MCNext ==
    /\ UNCHANGED <<subject, process>>
    /\ \/ subject = "completion, two CPUs" /\ Next /\ UNCHANGED <<workVars, others>>
       \/ subject = "work queue" /\ WorkNext /\ UNCHANGED <<vars, others>>
       \/ /\ UNCHANGED <<vars, workVars>>
          /\ \/ subject = "completion, one CPU" /\ C1!Next /\ UNCHANGED <<wait_queue, run_queue>>
             \/ subject = "wait queue, one CPU" /\ W1!WaitNext /\ UNCHANGED <<completion, run_queue>>
             \/ subject = "wait queue, two CPUs" /\ W2!WaitNext /\ UNCHANGED <<completion, run_queue>>
             \/ subject = "run queues" /\ R!Next /\ UNCHANGED <<sched, completion, wait_queue>>

MCSpec == MCInit /\ [][MCNext]_allVars
-----------------------------------------------------------------------------
\* Nor is a wake-up lost by a completion on one CPU, where the waiter resets it
\* before it starts an operation, or a change by a wait queue; on one CPU a
\* task's state says where it is linked, and the array of a wait queue, of
\* KERNEL_WAIT_QUEUE_MAX_WAITERS entries, holds each task that waits once, with
\* a current number (kernel_completion_wait, wait_changed, block_current, wake).
\* In the run queues a READY task is in the one its fields name and the loads
\* are true; the head of a level is its oldest task, which is the one that
\* aging looks at; and no task runs with a used-up quantum, which the next tick
\* would decrement below zero (enqueue, dequeue, promote_expired_tasks, tick).
QueuesExact ==
    /\ subject = "completion, one CPU" => C1!NoLostWakeup
    /\ subject = "wait queue, one CPU" => W1!StatePlacesTask /\ W1!WaitersCurrent
    /\ subject = "wait queue, two CPUs" => W2!QueueTypeOK /\ W2!NoLostChange
    /\ subject = "run queues" => R!TypeOK /\ R!QueuedWhereNamed /\ R!OldestIsHead /\ R!QuantumInRange
-----------------------------------------------------------------------------
run_queues == <<shared, run_queue>>

LiveInit ==
    /\ subject \in {"run queues", "work queue", "process tree"}
    /\ R1!Init /\ WorkInit /\ P!Init
    /\ Resting /\ NoSched /\ NoCompletion /\ NoWaitQueue

LiveNext ==
    /\ UNCHANGED <<subject, vars, sched, completion, wait_queue>>
    /\ \/ subject = "run queues" /\ R1!Next /\ UNCHANGED <<workVars, process>>
       \/ subject = "work queue" /\ WorkNext /\ UNCHANGED <<run_queues, process>>
       \/ subject = "process tree" /\ P!Next /\ UNCHANGED <<run_queues, workVars>>

\* The CPU takes timer ticks from user mode or idle again and again, unless it
\* idles with nothing queued, when a tick changes nothing.
RunQueueFair == []<>(subject # "run queues" \/ R1!NothingToDo(c1)) \/ []<><<R1!Tick(c1)>>_run_queues

InQ(A) == subject = "work queue" /\ A

\* The two tasks of the work queue are scheduled, the functions of the works
\* return, and the clock ticks.
WorkQueueFair ==
    /\ WF_workVars(InQ(StartSpawn)) /\ WF_workVars(InQ(StartPublish)) /\ WF_workVars(InQ(StartWake))
    /\ \A p \in Callers : WF_workVars(InQ(WakeWorker(p)))
    /\ WF_workVars(InQ(TimerTurn)) /\ WF_workVars(InQ(WorkTick))
    /\ WF_workVars(InQ(TakeOne)) /\ WF_workVars(InQ(WorkerBlock)) /\ SF_workVars(InQ(WorkDone))

InP(A) == subject = "process tree" /\ A

\* Kernel code goes on; init, as user/init is written, calls wait again and
\* again and reads no events; and the system does not clone for ever: wait()
\* prefers the newest child, so an endless stream of them could hide an old one.
ProcessFair ==
    /\ \A t \in {i1, t1, t2} : SF_process(InP(P!Step(t)))
    /\ SF_process(InP(P!CallWait(i1)))
    /\ <>[][\A t, c \in {i1, t1, t2} : ~InP(P!Clone(t, c))]_process

LiveSpec == LiveInit /\ [][LiveNext]_allVars /\ RunQueueFair /\ WorkQueueFair /\ ProcessFair

\* Every READY task runs in the end, whatever the others do at better levels
\* (promote_expired_tasks).  The tasks are interchangeable: t1 stands for each.
NoStarvation == xstate[t1] = "READY" ~> xstate[t1] = "RUNNING"

\* A queued work is run, in spite of others being queued all the time, and a
\* delayed one leaves its list: it is cancelled or queued, even when it was
\* put in from its own function and is due before that returns.
WorkEnds ==
    /\ flags[w1] = "PENDING" ~> flags[w1] = "RUNNING"
    /\ w3 \in dpending ~> w3 \notin dpending

\* A dead child of init, adopted or its own, is reaped.
OrphansReaped == st[t1] = "ZOMBIE" /\ parent[t1] = i1 ~> st[t1] = "none"
=============================================================================
