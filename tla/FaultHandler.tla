---------------------------- MODULE FaultHandler ----------------------------
(***************************************************************************)
(* User-mode fault handlers (smp/scheduler.cpp): write_faultctl arms a     *)
(* handler, an exception saves the registers and enters it, read_fault and *)
(* write_fault_return are its system calls, and the end of the system call *)
(* that writes the return resumes or ends the task.  Registers are a       *)
(* point of the program; a task and the child its handler clones share the *)
(* code, each with a fault state of its own.                               *)
(***************************************************************************)
EXTENDS Naturals

CONSTANTS Threads,   \* the task and its clones
          Points,    \* instruction pointers of the program
          Handler,   \* handler_ip, not in Points
          MaxDepths, \* values of max_depth a program writes
          NoPoint

VARIABLES ip,       \* registers of the task; NoPoint once it has ended
          ctl,      \* fault.ctl
          active,   \* fault.active
          pending,  \* fault.return_pending, with the result asked for
          depth,    \* fault.depth
          saved,    \* fault.saved_regs
          origin,   \* where the last fault that entered the handler happened
          entries   \* handler entries since the handler was last armed

vars == <<ip, ctl, active, pending, depth, saved, origin, entries>>

MaxEntries == 2
NoResult == [action |-> "none", at |-> NoPoint]
Results == [action : {"RESUME", "RESUME_AT", "EXIT"}, at : Points]
Off == [enabled |-> FALSE, oneshot |-> FALSE, max_depth |-> 0]
Ctls == [enabled : BOOLEAN, oneshot : BOOLEAN, max_depth : MaxDepths]

TypeOK ==
    /\ ip \in [Threads -> Points \cup {Handler, NoPoint}]
    /\ ctl \in [Threads -> [enabled : BOOLEAN, oneshot : BOOLEAN, max_depth : 0..8]]
    /\ active \in [Threads -> BOOLEAN]
    /\ pending \in [Threads -> Results \cup {NoResult}]
    /\ depth \in [Threads -> 0..8]
    /\ saved \in [Threads -> Points \cup {Handler, NoPoint}]
    /\ origin \in [Threads -> Points \cup {Handler, NoPoint}]
    /\ entries \in [Threads -> 0..MaxEntries]

Init ==
    /\ \E t \in Threads, p \in Points : ip = [u \in Threads |-> IF u = t THEN p ELSE NoPoint]
    /\ ctl = [t \in Threads |-> Off]
    /\ active = [t \in Threads |-> FALSE]
    /\ pending = [t \in Threads |-> NoResult]
    /\ depth = [t \in Threads |-> 0]
    /\ saved = [t \in Threads |-> NoPoint]
    /\ origin = [t \in Threads |-> NoPoint]
    /\ entries = [t \in Threads |-> 0]

InUser(t) == ip[t] # NoPoint /\ pending[t] = NoResult

\* The program goes on; from the handler it may jump anywhere (siglongjmp).
Run(t) ==
    /\ InUser(t)
    /\ \E p \in Points : ip' = [ip EXCEPT ![t] = p]
    /\ UNCHANGED <<ctl, active, pending, depth, saved, origin, entries>>

\* write_faultctl; refused for a bad control block and while the handler is active.
WriteCtl(t, c) ==
    /\ InUser(t) /\ ~active[t] /\ c.max_depth <= 8
    /\ ctl' = [ctl EXCEPT ![t] = c]
    /\ entries' = [entries EXCEPT ![t] = 0]
    /\ UNCHANGED <<ip, active, pending, depth, saved, origin>>

\* Mutant: nested faults enter the handler as far as max_depth allows.
HandledNested(t) ==
    ctl[t].enabled /\ depth[t] < (IF ctl[t].max_depth = 0 THEN 1 ELSE ctl[t].max_depth)

\* The condition under which handle_user_exception enters the handler.
Handled(t) ==
    /\ ctl[t].enabled /\ ~active[t]
    /\ depth[t] < (IF ctl[t].max_depth = 0 THEN 1 ELSE ctl[t].max_depth)

\* TASK_FAULTCTL_F_ONESHOT
AfterEntry(c) == [c EXCEPT !.enabled = @ /\ ~c.oneshot]

\* handle_user_exception: enter the handler ..
EnterHandler(t) ==
    /\ InUser(t) /\ Handled(t) /\ entries[t] < MaxEntries
    /\ active' = [active EXCEPT ![t] = TRUE]
    /\ depth' = [depth EXCEPT ![t] = @ + 1]
    /\ saved' = [saved EXCEPT ![t] = ip[t]]
    /\ origin' = [origin EXCEPT ![t] = ip[t]]
    /\ ip' = [ip EXCEPT ![t] = Handler]
    /\ ctl' = [ctl EXCEPT ![t] = AfterEntry(@)]
    /\ entries' = [entries EXCEPT ![t] = @ + 1]
    /\ UNCHANGED pending

\* .. or end the task; the depth is left as it is.
End(t) ==
    /\ ip' = [ip EXCEPT ![t] = NoPoint]
    /\ active' = [active EXCEPT ![t] = FALSE]
    /\ pending' = [pending EXCEPT ![t] = NoResult]

Kill(t) == InUser(t) /\ ~Handled(t) /\ End(t) /\ UNCHANGED <<ctl, depth, saved, origin, entries>>

\* write_fault_return, in a system call whose end completes it.
WriteReturn(t, r) ==
    /\ InUser(t) /\ active[t]
    /\ pending' = [pending EXCEPT ![t] = r]
    /\ UNCHANGED <<ip, ctl, active, depth, saved, origin, entries>>

ResumePoint(t) == IF pending[t].action = "RESUME" THEN saved[t] ELSE pending[t].at

\* complete_fault_return_if_pending
Complete(t) ==
    /\ active[t] /\ pending[t] # NoResult
    /\ depth' = [depth EXCEPT ![t] = IF @ > 0 THEN @ - 1 ELSE 0]
    /\ IF pending[t].action = "EXIT" THEN End(t)
       ELSE /\ ip' = [ip EXCEPT ![t] = ResumePoint(t)]
            /\ active' = [active EXCEPT ![t] = FALSE]
            /\ pending' = [pending EXCEPT ![t] = NoResult]
    /\ UNCHANGED <<ctl, saved, origin, entries>>

\* clone resets all of the child's fault state but the control block.
Clone(t, c) ==
    /\ InUser(t) /\ ip[c] = NoPoint
    /\ ip' = [ip EXCEPT ![c] = ip[t]]
    /\ ctl' = [ctl EXCEPT ![c] = ctl[t]]
    /\ active' = [active EXCEPT ![c] = FALSE]
    /\ depth' = [depth EXCEPT ![c] = 0]
    /\ saved' = [saved EXCEPT ![c] = NoPoint]
    /\ pending' = [pending EXCEPT ![c] = NoResult]
    /\ origin' = [origin EXCEPT ![c] = NoPoint]
    /\ entries' = [entries EXCEPT ![c] = IF ctl[t].oneshot /\ ~ctl[t].enabled THEN 1 ELSE 0]

\* exec: a new program, and a cleared fault state.
Exec(t) ==
    /\ InUser(t)
    /\ \E p \in Points : ip' = [ip EXCEPT ![t] = p]
    /\ ctl' = [ctl EXCEPT ![t] = Off]
    /\ active' = [active EXCEPT ![t] = FALSE]
    /\ depth' = [depth EXCEPT ![t] = 0]
    /\ saved' = [saved EXCEPT ![t] = NoPoint]
    /\ origin' = [origin EXCEPT ![t] = NoPoint]
    /\ entries' = [entries EXCEPT ![t] = 0]
    /\ UNCHANGED pending

Next ==
    \E t \in Threads :
       \/ Run(t) \/ EnterHandler(t) \/ Kill(t) \/ Complete(t) \/ Exec(t)
       \/ \E c \in Ctls : WriteCtl(t, c)
       \/ \E r \in Results : WriteReturn(t, r)
       \/ \E c \in Threads : Clone(t, c)

Spec == Init /\ [][Next]_vars
-----------------------------------------------------------------------------
\* A handler is never entered while one is running, whatever max_depth says:
\* the registers saved are those of the one fault being handled, and the depth
\* counts exactly that (handle_user_exception, complete_fault_return_if_pending).
OneHandlerAtATime ==
    \A t \in Threads : ip[t] # NoPoint =>
       /\ depth[t] = IF active[t] THEN 1 ELSE 0
       /\ active[t] => saved[t] = origin[t] /\ saved[t] # NoPoint

\* A one-shot handler runs at most once for each time it is armed.
OneShotOnce == \A t \in Threads : ctl[t].oneshot => entries[t] <= 1

\* A return is only asked for by the task whose handler is running, and a task
\* that resumes is at the faulting point or where its handler said.
ResumeKnown ==
    \A t \in Threads : pending[t] # NoResult /\ ip'[t] # NoPoint /\ pending'[t] = NoResult =>
        ip'[t] \in {origin[t], pending[t].at}
=============================================================================
