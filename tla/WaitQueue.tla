---------------------------- MODULE WaitQueue ----------------------------
(***************************************************************************)
(* struct kernel_wait_queue (module/scheduler.cpp) over the scheduler      *)
(* core: a sequence number, an array of at most MaxWaiters waiters, and    *)
(* wake_all, which empties the array under the lock and wakes its tasks    *)
(* after releasing it.  A caller reads the sequence number, looks at its   *)
(* own condition and then waits for the number to change.                  *)
(***************************************************************************)
EXTENDS Sched

CONSTANTS MaxWaiters,  \* KERNEL_WAIT_QUEUE_MAX_WAITERS
          MaxSeq       \* bound on the 64-bit sequence number

ASSUME WaitQueueAssumption == MaxWaiters \in Nat /\ MaxSeq \in Nat

VARIABLES seq,       \* queue->seq
          waiters,   \* queue->waiters[0 .. count - 1]
          snap       \* the number each task read before it waits

waitVars == <<schedVars, seq, waiters, snap>>

InitQueue ==
    /\ seq = 0
    /\ waiters = <<>>
    /\ snap = [t \in Tasks |-> 0]

WaitInit == InitQueue /\ \E home \in [Tasks -> CPUs] : InitSched(home)

QueueTypeOK == /\ TypeOK
               /\ seq \in 0..MaxSeq
               /\ waiters \in Seq(Tasks) /\ Len(waiters) <= MaxWaiters
               /\ snap \in [Tasks -> 0..MaxSeq]

\* kernel_wait_queue_seq, then the call of kernel_wait_queue_wait_changed.
ReadSeq(c) ==
    /\ at[c] = "run" /\ Foreground(c) /\ cur[c] # Idle /\ ObjectUnlocked
    /\ snap' = [snap EXCEPT ![cur[c]] = seq]
    /\ at' = [at EXCEPT ![c] = "wait"]
    /\ UNCHANGED <<state, last_cpu, rq, sleepers, cur, ctx, irq, waking, seq, waiters>>

\* wait_changed: the number has moved on, the call returns.
WaitReturn(c) ==
    /\ at[c] = "wait" /\ Foreground(c) /\ ObjectUnlocked
    /\ seq # snap[cur[c]]
    /\ at' = [at EXCEPT ![c] = "run"]
    /\ UNCHANGED <<state, last_cpu, rq, sleepers, cur, ctx, irq, waking, seq, waiters, snap>>

\* wait_changed: register, unless already present after a spurious wake-up,
\* and block.
WaitRegister(c) ==
    /\ at[c] = "wait" /\ Foreground(c) /\ ObjectUnlocked
    /\ seq = snap[cur[c]]
    /\ \/ cur[c] \in Range(waiters) /\ UNCHANGED waiters
       \/ /\ cur[c] \notin Range(waiters) /\ Len(waiters) < MaxWaiters
          /\ waiters' = Append(waiters, cur[c])
    /\ BlockCurrent(c)
    /\ UNCHANGED <<seq, snap>>

\* wait_changed: the array is full, so the task sleeps one tick and tries again.
WaitOverflow(c) ==
    /\ at[c] = "wait" /\ Foreground(c) /\ ObjectUnlocked
    /\ seq = snap[cur[c]]
    /\ cur[c] \notin Range(waiters) /\ Len(waiters) >= MaxWaiters
    /\ Sleep(c)
    /\ UNCHANGED <<seq, waiters, snap>>

ReleaseQueue(c) == ReleaseLock(c) /\ UNCHANGED <<seq, waiters, snap>>

\* kernel_wait_queue_wake_all under the lock; the wakes follow in irq[c].
WakeAll(c) ==
    /\ InterruptsOn(c) /\ Foreground(c) /\ ObjectUnlocked
    /\ seq < MaxSeq
    /\ seq' = seq + 1
    /\ waiters' = <<>>
    /\ irq' = [irq EXCEPT ![c] = waiters]
    /\ UNCHANGED <<state, last_cpu, rq, sleepers, cur, at, ctx, waking, snap>>

\* A step of the scheduler that leaves the wait queue alone.
WaitSys(A) == A /\ UNCHANGED <<seq, waiters, snap>>

WaitNext ==
    \/ WaitSys(SchedNext)
    \/ \E c \in CPUs : \/ ReadSeq(c) \/ WaitReturn(c) \/ WaitRegister(c)
                       \/ WaitOverflow(c) \/ ReleaseQueue(c) \/ WakeAll(c)

WaitSpec == WaitInit /\ [][WaitNext]_waitVars

\* As for Completion; the timer also ends every sleep.  Events sent to waiting
\* tasks from outside are finitely many: a storm of them that always strikes
\* between block_current and yield would keep the CPU out of user mode and
\* idle, where alone the timer tick schedules.
Fairness ==
  /\ <>[][\A c \in CPUs : ~WaitSys(WakeByOthers(c))]_waitVars
  /\ \A c \in CPUs :
       /\ WF_waitVars(WaitSys(WakeBegin(c))) /\ WF_waitVars(WaitSys(WakeEnd(c)))
       /\ SF_waitVars(WaitReturn(c)) /\ SF_waitVars(WaitRegister(c)) /\ SF_waitVars(WaitOverflow(c))
       /\ WF_waitVars(ReleaseQueue(c)) /\ SF_waitVars(WaitSys(Yield(c)))
       /\ \A t \in Tasks : /\ SF_waitVars(WaitSys((Tick(c) \/ Yield(c)) /\ cur'[c] = t))
                           /\ SF_waitVars(WaitSys(Tick(c) /\ t \in sleepers[c] \ sleepers'[c]))

FairSpec == WaitSpec /\ Fairness

\* No wake-up is lost between the read of the sequence number and the switch
\* away: a WAITING task is registered while the number it read is current, or
\* a wake for it is on its way (wait_changed, wake_all).
NoLostChange ==
    \A t \in Tasks : state[t] = "WAITING" =>
        \/ t \in Range(waiters) /\ snap[t] = seq
        \/ Woken(t)

\* The array never holds a task twice, nor one whose number is out of date,
\* although spurious wake-ups send tasks round the loop again.
WaitersCurrent ==
    /\ IsInjective(waiters)
    /\ \A t \in Range(waiters) : snap[t] = seq /\ InWait(t)

\* Once the number a task waits on has changed, its wait returns, also for a
\* task that found the array full and polls with sleep(1).
ChangeNoticed == \A t \in Tasks : (InWait(t) /\ snap[t] # seq) ~> ~InWait(t)
=============================================================================
