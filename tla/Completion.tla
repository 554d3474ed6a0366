---------------------------- MODULE Completion ----------------------------
(***************************************************************************)
(* struct kernel_completion (module/completion.cpp) over the scheduler     *)
(* core: one waiter slot, a done flag, a lock, and wake-up by an interrupt *)
(* handler on any CPU.  The completion lock is held from the test of done  *)
(* to the release inside block_current (label "locked").                   *)
(***************************************************************************)
EXTENDS Sched

CONSTANTS Waiters,     \* the tasks that may call kernel_completion_wait
          Resetters    \* those that call kernel_completion_reset before it

ASSUME CompletionAssumption == Waiters \subseteq Tasks /\ Resetters \subseteq Waiters

VARIABLES done,     \* completion->done
          waiter    \* completion->waiter

vars == <<schedVars, done, waiter>>

Init ==
    /\ \E home \in [Tasks -> CPUs] : InitSched(home)
    /\ done \in BOOLEAN
    /\ waiter = None

\* A task calls kernel_completion_wait.
CallWait(c) ==
    /\ at[c] = "run" /\ Foreground(c) /\ cur[c] \in Waiters
    /\ at' = [at EXCEPT ![c] = "wait"]
    /\ UNCHANGED <<state, last_cpu, rq, sleepers, cur, ctx, irq, waking, done, waiter>>

\* kernel_completion_reset, called by the task that is about to start an
\* operation and to wait for it.
Reset(c) ==
    /\ at[c] = "run" /\ Foreground(c) /\ cur[c] \in Resetters /\ ObjectUnlocked
    /\ done' = FALSE
    /\ waiter' = None
    /\ UNCHANGED schedVars

\* kernel_completion_wait, the iteration that finds done set.
WaitDone(c) ==
    /\ at[c] = "wait" /\ Foreground(c) /\ ObjectUnlocked
    /\ done
    /\ done' = FALSE
    /\ waiter' = None
    /\ at' = [at EXCEPT ![c] = "run"]
    /\ UNCHANGED <<state, last_cpu, rq, sleepers, cur, ctx, irq, waking>>

\* Mutant: the iteration after a spurious wake-up blocks again without a test.
WaitBlockUntested(c) ==
    /\ at[c] = "wait" /\ Foreground(c) /\ ObjectUnlocked
    /\ waiter' = cur[c]
    /\ BlockCurrent(c)
    /\ UNCHANGED done

\* kernel_completion_wait, the iteration that registers and blocks.
WaitBlock(c) ==
    /\ at[c] = "wait" /\ Foreground(c) /\ ObjectUnlocked
    /\ ~done
    /\ waiter' = cur[c]
    /\ BlockCurrent(c)
    /\ UNCHANGED done

\* block_current releases the completion's lock.
Release(c) == ReleaseLock(c) /\ UNCHANGED <<done, waiter>>

\* kernel_completion_signal under the lock; the wake follows in irq[c].
Signal(c) ==
    /\ InterruptsOn(c) /\ Foreground(c) /\ ObjectUnlocked
    /\ done' = TRUE
    /\ waiter' = None
    /\ irq' = [irq EXCEPT ![c] = IF waiter = None THEN <<>> ELSE <<waiter>>]
    /\ UNCHANGED <<state, last_cpu, rq, sleepers, cur, at, ctx, waking>>

\* A step of the scheduler that leaves the completion alone.
Sys(A) == A /\ UNCHANGED <<done, waiter>>

Next ==
    \/ Sys(SchedNext)
    \/ \E c \in CPUs : \/ CallWait(c) \/ Reset(c) \/ WaitDone(c) \/ WaitBlock(c)
                       \/ Release(c) \/ Signal(c)

Spec == Init /\ [][Next]_vars

CompletionTypeOK == TypeOK /\ done \in BOOLEAN /\ waiter \in Tasks \cup {None}

\* No wake-up is lost between the test of done and the switch away: a task
\* that is WAITING on the completion is in its waiter slot while done is clear,
\* or a wake for it is on its way (kernel_completion_wait, block_current,
\* kernel_completion_signal, wake).
NoLostWakeup ==
    \A t \in Tasks : state[t] = "WAITING" => \/ waiter = t /\ ~done
                                             \/ Woken(t)

=============================================================================
