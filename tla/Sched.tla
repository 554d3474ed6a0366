------------------------------- MODULE Sched -------------------------------
(***************************************************************************)
(* The SMP scheduler core of impl/x86_64/smp/scheduler.cpp: per-CPU run    *)
(* queues, block_current, wake, schedule, work stealing and the sleep      *)
(* list, as the sleeping primitives of module/completion.cpp and           *)
(* module/scheduler.cpp use them.                                          *)
(*                                                                         *)
(* A CPU c executes the kernel code of its current task cur[c] at the      *)
(* label at[c]; ctx[t] is the label at which the saved context of t        *)
(* resumes.  An interrupt handler (or the tail of a task's own kernel      *)
(* call) that wakes tasks runs on top of the interrupted label and is      *)
(* irq[c], the sequence of tasks it still has to wake.  Sections under one *)
(* cpu->sched_lock are single steps, except scheduler::wake, which reads   *)
(* the task's state and last_cpu_index before it takes the lock.           *)
(*                                                                         *)
(* The four priority levels of a run queue and the clock are the subject   *)
(* of RunQueue; here any queued task may be the one dequeue picks, and any *)
(* tick may be the one that ends a sleep.                                  *)
(***************************************************************************)
EXTENDS Naturals, Sequences, FiniteSets, Lists

CONSTANTS CPUs,    \* the cores of smp::cpu_table
          Tasks,   \* the tasks other than the per-CPU idle tasks
          Idle,    \* cpu->idle_task, one per CPU
          None     \* a null pointer

ASSUME SchedAssumption ==
    /\ IsFiniteSet(Tasks) /\ Idle \notin Tasks
    /\ None \notin Tasks /\ None \notin [task : Tasks, cpu : CPUs]

VARIABLES state,       \* task->state
          last_cpu,    \* task->last_cpu_index
          rq,          \* cpu->task_queues: the queued tasks
          sleepers,    \* cpu->sleep_list_head
          cur,         \* cpu->current_task
          at,          \* the kernel label the CPU executes
          ctx,         \* task->context: the label saved by the last schedule
          irq,         \* wakes still to be done by the handler running on the CPU
          waking       \* the task and lock scheduler::wake holds on that CPU

schedVars == <<state, last_cpu, rq, sleepers, cur, at, ctx, irq, waking>>

\* Labels: "idle" the idle loop, "run" code outside the primitives, "wait" the
\* top of a wait loop, "locked" WAITING is set and the caller's lock still
\* held, "yield" on the way into scheduler_yield_context.
Labels == {"idle", "run", "wait", "locked", "yield"}

\* Interrupts are delivered outside the sections that run with IF clear.
InterruptsOn(c) == at[c] \in {"idle", "run", "wait", "yield"}

\* No handler is running on top of c's current label.
Foreground(c) == irq[c] = <<>> /\ waking[c] = None

\* cpu->sched_lock of c is free: no wake() on any CPU holds it.
LockFree(c) == \A d \in CPUs : waking[d] # None => waking[d].cpu # c

Queued(t) == \E c \in CPUs : t \in Range(rq[c])

TypeOK ==
    /\ state \in [Tasks -> {"READY", "RUNNING", "WAITING", "SLEEPING"}]
    /\ last_cpu \in [Tasks -> CPUs]
    /\ rq \in [CPUs -> Seq(Tasks)] /\ irq \in [CPUs -> Seq(Tasks)]
    /\ sleepers \in [CPUs -> SUBSET Tasks]
    /\ cur \in [CPUs -> Tasks \cup {Idle}]
    /\ at \in [CPUs -> Labels]
    /\ ctx \in [Tasks -> Labels]
    /\ waking \in [CPUs -> [task : Tasks, cpu : CPUs] \cup {None}]

InitSched(home) ==
    /\ state = [t \in Tasks |-> "READY"]
    /\ last_cpu = home
    /\ rq \in [CPUs -> {s \in UNION {[1..n -> Tasks] : n \in 0..Cardinality(Tasks)} :
                           IsInjective(s)}]
    /\ \A c \in CPUs : Range(rq[c]) = {t \in Tasks : home[t] = c}
    /\ sleepers = [c \in CPUs |-> {}]
    /\ cur = [c \in CPUs |-> Idle]
    /\ at = [c \in CPUs |-> "idle"]
    /\ ctx = [t \in Tasks |-> "run"]
    /\ irq = [c \in CPUs |-> <<>>]
    /\ waking = [c \in CPUs |-> None]

\* select_enqueue_cpu: the preferred CPU, or one that is shorter by more than
\* one task; a candidate whose try_acquire fails is skipped, so any such CPU
\* and the preferred one may be the answer.
EnqueueTargets(preferred) ==
    {preferred} \cup {c \in CPUs : Len(rq[c]) + 1 < Len(rq[preferred])}

\* wake(): the unlocked test of the state, the unlocked read of last_cpu_index
\* and the acquisition of that CPU's sched_lock.
WakeBegin(c) ==
    /\ waking[c] = None /\ irq[c] # <<>>
    /\ LET t == Head(irq[c]) IN
       /\ irq' = [irq EXCEPT ![c] = Tail(@)]
       /\ \/ /\ state[t] # "WAITING"
             /\ UNCHANGED waking
          \/ /\ state[t] = "WAITING" /\ LockFree(last_cpu[t])
             /\ waking' = [waking EXCEPT ![c] = [task |-> t, cpu |-> last_cpu[t]]]
    /\ UNCHANGED <<state, last_cpu, rq, sleepers, cur, at, ctx>>

\* Mutant: READY without enqueue_ready_on_best_cpu.
WakeEndUnqueued(c) ==
    /\ waking[c] # None
    /\ waking' = [waking EXCEPT ![c] = None]
    /\ state' = [state EXCEPT ![waking[c].task] = "READY"]
    /\ UNCHANGED <<last_cpu, rq, sleepers, cur, at, ctx, irq>>

\* wake(): the second test under the lock, READY, enqueue_ready_on_best_cpu,
\* release.  The target's own sched_lock is only tried, so it must be free.
WakeEnd(c) ==
    /\ waking[c] # None
    /\ waking' = [waking EXCEPT ![c] = None]
    /\ LET t == waking[c].task IN
       \/ /\ state[t] # "WAITING"
          /\ UNCHANGED <<state, last_cpu, rq>>
       \/ /\ state[t] = "WAITING"
          /\ state' = [state EXCEPT ![t] = "READY"]
          /\ \E target \in EnqueueTargets(waking[c].cpu) :
                /\ target # waking[c].cpu => LockFree(target)
                /\ rq' = [rq EXCEPT ![target] = Append(@, t)]
                /\ last_cpu' = [last_cpu EXCEPT ![t] = target]
    /\ UNCHANGED <<sleepers, cur, at, ctx, irq>>

\* The task dequeue(cpu) returns, and the CPU from whose queue it takes it,
\* given the queues q left by schedule(): the head of some level of its own
\* queue, else the task at a tail of the longest queue whose lock could be
\* taken, else the idle task.
Dequeue(c, q) ==
    IF q[c] # <<>>
    THEN Range(q[c]) \X {c}
    ELSE {x \in Tasks \X (CPUs \ {c}) : x[1] \in Range(q[x[2]]) /\ LockFree(x[2])}
         \cup {<<Idle, c>>}

\* The part of schedule() from pick_next on: st, q, lc and cx are the state,
\* queues, last CPUs and contexts the first part has left.
PickNext(c, st, q, lc, cx) ==
    \E choice \in Dequeue(c, q) :
       LET next == choice[1]
           from == choice[2]
       IN
       /\ rq' = [q EXCEPT ![from] = Only(@, Tasks \ {next})]
       /\ cur' = [cur EXCEPT ![c] = next]
       /\ ctx' = cx
       /\ at' = [at EXCEPT ![c] = IF next = Idle THEN "idle" ELSE cx[next]]
       /\ state' = [t \in Tasks |-> IF t = next THEN "RUNNING" ELSE st[t]]
       /\ last_cpu' = [t \in Tasks |-> IF t = next THEN c ELSE lc[t]]

\* schedule(): the current task's context is saved, and a current task that
\* is still RUNNING (requeue) goes to the tail of its own CPU's queue.
SwitchFrom(c, resumeAt, requeue, woken) ==
    LET t      == cur[c]
        cx     == IF t = Idle THEN ctx ELSE [ctx EXCEPT ![t] = resumeAt]
        queued == IF requeue THEN woken \cup {t} ELSE woken
        st     == [u \in Tasks |-> IF u \in queued THEN "READY" ELSE state[u]]
        lc     == [u \in Tasks |-> IF u \in queued THEN c ELSE last_cpu[u]]
        q      == [rq EXCEPT ![c] = @ \o SetToSeq(woken)
                                      \o (IF requeue THEN <<t>> ELSE <<>>)]
    IN  PickNext(c, st, q, lc, cx)

StillRunning(c) == cur[c] # Idle /\ state[cur[c]] = "RUNNING"

\* yield() of block_current and sleep: the task resumes in its wait loop.
Yield(c) ==
    /\ at[c] = "yield" /\ Foreground(c) /\ LockFree(c)
    /\ SwitchFrom(c, "wait", StillRunning(c), {})
    /\ UNCHANGED <<sleepers, irq, waking>>

\* The mailbox IPI of send_reschedule_mail, acted on from user mode or idle.
Reschedule(c) ==
    /\ at[c] \in {"idle", "run"} /\ Foreground(c) /\ LockFree(c)
    /\ SwitchFrom(c, "run", StillRunning(c), {})
    /\ UNCHANGED <<sleepers, irq, waking>>

\* The timer tick from user mode or idle: expired sleepers become READY; a
\* running task whose quantum is not used up and that no better queue
\* pre-empts goes on.
Tick(c) ==
    /\ at[c] \in {"idle", "run"} /\ Foreground(c) /\ LockFree(c)
    /\ \E woken \in SUBSET sleepers[c] :
          /\ sleepers' = [sleepers EXCEPT ![c] = @ \ woken]
          /\ \/ SwitchFrom(c, "run", StillRunning(c), woken)
             \/ /\ StillRunning(c)
                /\ state' = [u \in Tasks |-> IF u \in woken THEN "READY" ELSE state[u]]
                /\ last_cpu' = [u \in Tasks |-> IF u \in woken THEN c ELSE last_cpu[u]]
                /\ rq' = [rq EXCEPT ![c] = @ \o SetToSeq(woken)]
                /\ ctx' = [ctx EXCEPT ![cur[c]] = "run"]
                /\ UNCHANGED <<cur, at>>
    /\ UNCHANGED <<irq, waking>>

\* block_current: WAITING is set under c's sched_lock; the caller's lock is
\* still held.
BlockCurrent(c) ==
    /\ LockFree(c)
    /\ state' = [state EXCEPT ![cur[c]] = "WAITING"]
    /\ at' = [at EXCEPT ![c] = "locked"]
    /\ UNCHANGED <<last_cpu, rq, sleepers, cur, ctx, irq, waking>>

\* block_current: the caller's lock is released and interrupts come back.
ReleaseLock(c) ==
    /\ at[c] = "locked"
    /\ at' = [at EXCEPT ![c] = "yield"]
    /\ UNCHANGED <<state, last_cpu, rq, sleepers, cur, ctx, irq, waking>>

\* scheduler::sleep up to its yield().  (Interrupts stay off there; a handler
\* on top of the label would find a SLEEPING task, which no wake touches.)
Sleep(c) ==
    /\ LockFree(c)
    /\ state' = [state EXCEPT ![cur[c]] = "SLEEPING"]
    /\ sleepers' = [sleepers EXCEPT ![c] = @ \cup {cur[c]}]
    /\ at' = [at EXCEPT ![c] = "yield"]
    /\ UNCHANGED <<last_cpu, rq, cur, ctx, irq, waking>>

\* The lock of the sleeping primitive is free.
ObjectUnlocked == \A c \in CPUs : at[c] # "locked"

\* send_event to a task that happens to wait here: wake_blocked_or_waiting goes
\* through the same two tests and the same lock as wake.
WakeByOthers(c) ==
    /\ InterruptsOn(c) /\ Foreground(c)
    /\ \E t \in Tasks : irq' = [irq EXCEPT ![c] = <<t>>]
    /\ UNCHANGED <<state, last_cpu, rq, sleepers, cur, at, ctx, waking>>

\* A wake of t has been decided and not yet carried out.
Woken(t) == \E c \in CPUs : \/ t \in Range(irq[c])
                            \/ waking[c] # None /\ waking[c].task = t

\* t is inside the wait call: some CPU executes it there, or its saved context
\* is there.
InWait(t) == \/ \E c \in CPUs : cur[c] = t /\ at[c] \in {"wait", "locked", "yield"}
             \/ /\ \A c \in CPUs : cur[c] # t
                /\ ctx[t] = "wait"

SchedNext == \E c \in CPUs : \/ WakeBegin(c) \/ WakeEnd(c) \/ WakeByOthers(c)
                             \/ Yield(c) \/ Reschedule(c) \/ Tick(c)

\* The assertion of enqueue(), "scheduler enqueue linked task": no task is
\* linked into the run queues a second time.
EnqueueUnlinked ==
    /\ \A c \in CPUs : IsInjective(rq[c])
    /\ \A c, d \in CPUs : c # d => Range(rq[c]) \cap Range(rq[d]) = {}

\* Where a task is follows from its state: READY tasks are in exactly one run
\* queue (the test of enqueue, "Tried to enqueue not-ready task"), SLEEPING
\* tasks in one sleep list, and no other task is linked anywhere.
StatePlacesTask ==
    /\ EnqueueUnlinked
    /\ \A t \in Tasks : Queued(t) <=> state[t] = "READY"
    /\ \A t \in Tasks : (\E c \in CPUs : t \in sleepers[c]) <=> state[t] = "SLEEPING"
=============================================================================
