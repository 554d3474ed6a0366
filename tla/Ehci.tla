------------------------------- MODULE Ehci -------------------------------
(***************************************************************************)
(* The transfers of ehci.c: threads that build a transfer in DMA memory,    *)
(* link it into the schedule the controller walks, wait for it, unlink it   *)
(* and free it, and the controller itself, which follows the links at its   *)
(* own pace.  A transfer is asynchronous (control and bulk, on the ring of  *)
(* queue heads) or periodic (interrupt and isochronous, in a frame of the   *)
(* frame list); transfer_busy lets one through at a time.  A bulk transfer  *)
(* carries data toggles, kept by the driver in bulk_toggle and by the       *)
(* device.  The probe, with its stages and their undoing, is the other      *)
(* half.  Each endpoint has one user, as the class drivers arrange.         *)
(* The controller is external: it goes on following a link it has read      *)
(* until it comes round, within the settle time, and stops its schedule     *)
(* within the time ehci_recover_async waits.                                *)
(***************************************************************************)
EXTENDS Integers, FiniteSets, Sequences

CONSTANTS
    Users,       \* threads with a transfer of their own to run
    EpOf,        \* the bulk endpoint each uses
    MaxPackets,  \* packets of a bulk transfer; a control one has up to one more qTD
    MaxCalls,    \* bound on the transfers submitted
    MaxFaults    \* bound on stalls, lost answers and system errors

VARIABLES
    pc, xf,      \* each user's place, and its transfer
    mem,         \* the users whose transfer holds its DMA memory
    busy,        \* transfer_busy
    link, frame, \* async_head->horiz_link, and the frame list's one entry in use
    hwA, hwP,    \* where the controller is on each schedule
    ase, halted, \* the async schedule runs; a host system error stopped everything
    dead,        \* c->dead
    slot, dtog,  \* bulk_toggle, and the device's toggle, per endpoint
    off,         \* history: endpoints a failed transfer may have left out of step
    stage, res,  \* ehci_probe: its stage and the resources it holds
    calls, faults

vars == <<pc, xf, mem, busy, link, frame, hwA, hwP, ase, halted, dead, slot, dtog,
          off, stage, res, calls, faults>>
sched == <<link, frame, hwA, hwP, ase, halted>>
probe == <<stage, res>>

Ring == "head"   \* the head of the ring: no transfer linked
None == "none"
Eps == {EpOf[u] : u \in Users}
NoXfer == [kind |-> "control", n |-> 0, done |-> 0, halt |-> FALSE, tog |-> 0, r |-> 0]

Init ==
    /\ pc = [u \in Users |-> "idle"] /\ xf = [u \in Users |-> NoXfer]
    /\ mem = {} /\ busy = None
    /\ link = Ring /\ frame = None /\ hwA = Ring /\ hwP = None
    /\ ase = FALSE /\ halted = TRUE /\ dead = FALSE
    /\ slot = [e \in Eps |-> 0] /\ dtog = [e \in Eps |-> 0] /\ off = {}
    /\ stage = "start" /\ res = {}
    /\ calls = 0 /\ faults = 0

-----------------------------------------------------------------------------
(* The probe. *)

Stages == <<"start", "map", "async", "periodic", "hw", "irq", "ready">>
Gains == [start |-> "regs", map |-> "async", async |-> "periodic"]
NextStage(s) == Stages[1 + CHOOSE i \in 1..6 : Stages[i] = s]

\* fail_stop and fail: the irq goes, the controller is stopped, then the frame
\* list, the queue head and the registers are given back.
ProbeFail == /\ stage' = "failed" /\ res' = {}
             /\ ase' = FALSE /\ halted' = TRUE

\* A stage of ehci_probe succeeds: the registers are mapped, the queue head and
\* the frame list allocated, the controller reset and started on them, the irq
\* requested (going without is allowed), the controller registered.
Probe ==
    /\ stage \in {Stages[i] : i \in 1..6}
    /\ \/ /\ stage' = NextStage(stage)
          /\ \/ /\ stage \in DOMAIN Gains
                /\ res' = res \cup {Gains[stage]} /\ UNCHANGED <<ase, halted>>
             \/ /\ stage = "periodic"                      \* ehci_init_hw
                /\ ase' = TRUE /\ halted' = FALSE /\ UNCHANGED res
             \/ /\ stage = "hw"
                /\ res' \in {res, res \cup {"irq"}} /\ UNCHANGED <<ase, halted>>
             \/ /\ stage = "irq" /\ UNCHANGED <<res, ase, halted>>
       \/ stage # "hw" /\ ProbeFail
    /\ UNCHANGED <<pc, xf, mem, busy, link, frame, hwA, hwP, dead, slot, dtog, off, calls, faults>>

-----------------------------------------------------------------------------
(* A transfer. *)

Free(u) == mem' = mem \ {u} /\ pc' = [pc EXCEPT ![u] = "idle"]

\* alloc_transfer and link_qtd_chain: the memory is had, and n qTDs are chained.
Alloc(u, k, n) ==
    /\ xf' = [xf EXCEPT ![u] = [NoXfer EXCEPT !.kind = k, !.n = n]]
    /\ mem' = mem \cup {u}
\* A control transfer is its setup and status stages with the data between them.
Control(u) == ~dead /\ \E data \in 0..(MaxPackets - 1) : Alloc(u, "control", 2 + data)
\* A bulk one starts from the toggle kept for its endpoint.
Bulk(u) ==
    /\ ~dead
    /\ \E n \in 1..MaxPackets :
         xf' = [xf EXCEPT ![u] = [NoXfer EXCEPT !.kind = "bulk", !.n = n, !.tog = slot[EpOf[u]]]]
    /\ mem' = mem \cup {u}
Interrupt(u) == Alloc(u, "interrupt", 1)
Isochronous(u) == Alloc(u, "iso", 1)

\* The submit functions.  run_async_transfer returns at once on a dead
\* controller; the periodic ones find out later.
Submit(u) ==
    /\ stage = "ready" /\ pc[u] = "idle" /\ calls < MaxCalls
    /\ calls' = calls + 1
    /\ Control(u) \/ Bulk(u) \/ Interrupt(u) \/ Isochronous(u)
    /\ pc' = [pc EXCEPT ![u] = "enter"]
    /\ UNCHANGED <<busy, sched, dead, slot, dtog, off, probe, faults>>

Periodic(u) == xf[u].kind \in {"interrupt", "iso"}
\* ehci_live: a system error seen in the status register kills the controller.
SeesDead == dead \/ halted

\* ehci_enter_transfer, then the transfer is linked and its schedule turned on.
Enter(u) ==
    /\ pc[u] = "enter" /\ busy = None
    /\ IF ~Periodic(u) /\ SeesDead
       THEN /\ dead' = TRUE
            /\ xf' = [xf EXCEPT ![u].r = -5] /\ pc' = [pc EXCEPT ![u] = "free"]
            /\ UNCHANGED <<busy, link, frame, ase>>
       ELSE /\ busy' = u /\ pc' = [pc EXCEPT ![u] = "wait"]
            /\ IF Periodic(u) THEN frame' = u /\ UNCHANGED <<link, ase>>
                              ELSE link' = u /\ ase' = TRUE /\ UNCHANGED frame
            /\ UNCHANGED <<xf, dead>>
    /\ UNCHANGED <<mem, hwA, hwP, halted, slot, dtog, off, probe, calls, faults>>

Active(u) == xf[u].done < xf[u].n /\ ~xf[u].halt
\* wait_transfer and wait_periodic_done: the controller is dead, a qTD failed,
\* all are done, or the deadline passes with some still active.
Wait(u) ==
    /\ pc[u] = "wait"
    /\ \/ SeesDead /\ dead' = TRUE /\ xf' = [xf EXCEPT ![u].r = -5] /\ UNCHANGED faults
       \/ /\ ~SeesDead /\ UNCHANGED dead
          /\ \/ xf[u].halt /\ xf' = [xf EXCEPT ![u].r = -3] /\ UNCHANGED faults
             \/ xf[u].done = xf[u].n /\ xf' = [xf EXCEPT ![u].r = 0] /\ UNCHANGED faults
             \/ /\ Active(u) /\ faults < MaxFaults
                /\ faults' = faults + 1 /\ xf' = [xf EXCEPT ![u].r = -2]
    /\ pc' = [pc EXCEPT ![u] = "unlink"]
    /\ UNCHANGED <<mem, busy, sched, slot, dtog, off, probe, calls>>

Unlink(u) ==
    /\ pc[u] = "unlink"
    /\ IF Periodic(u) THEN frame' = None /\ UNCHANGED link ELSE link' = Ring /\ UNCHANGED frame
    /\ pc' = [pc EXCEPT ![u] = "settle"]
    /\ UNCHANGED <<xf, mem, busy, hwA, hwP, ase, halted, dead, slot, dtog, off, probe, calls, faults>>

\* Mutant: the transfer is taken down without waiting for the controller.
SettledAtOnce(u) == TRUE

\* The settle time is over: the controller has come round.
Settled(u) == halted \/ (hwA # u /\ hwP # u)
\* ehci_recover_async: the async schedule is stopped, the head is rebuilt and
\* the schedule restarted.
RecoverAsync == link' = Ring /\ hwA' = (IF halted THEN hwA ELSE Ring) /\ ase' = TRUE
\* The end of the transfer: a failure is recovered from, except by the
\* isochronous ones; then ehci_leave_transfer.
Settle(u) ==
    /\ pc[u] = "settle" /\ Settled(u)
    /\ IF xf[u].r < 0 /\ xf[u].kind # "iso" THEN RecoverAsync ELSE UNCHANGED <<link, hwA, ase>>
    /\ busy' = None /\ pc' = [pc EXCEPT ![u] = "free"]
    /\ UNCHANGED <<xf, mem, frame, hwP, halted, dead, slot, dtog, off, probe, calls, faults>>

\* A bulk transfer that succeeded moves the toggle on once per packet.
Toggled(u) == (slot[EpOf[u]] + xf[u].done) % 2
Return(u) ==
    /\ pc[u] = "free"
    /\ slot' = IF xf[u].kind = "bulk" /\ xf[u].r = 0 THEN [slot EXCEPT ![EpOf[u]] = Toggled(u)] ELSE slot
    /\ off' = IF xf[u].kind = "bulk" /\ xf[u].r < 0 THEN off \cup {EpOf[u]} ELSE off
    /\ Free(u)
    /\ UNCHANGED <<xf, busy, sched, dead, dtog, probe, calls, faults>>

-----------------------------------------------------------------------------
(* The controller. *)

\* It follows the ring, or enters and leaves a frame.
HwWalk ==
    /\ ~halted
    /\ \/ ase /\ hwA' = (IF hwA = Ring THEN link ELSE Ring) /\ UNCHANGED hwP
       \/ hwP' = (IF hwP = None THEN frame ELSE None) /\ UNCHANGED hwA
    /\ UNCHANGED <<pc, xf, mem, busy, link, frame, ase, halted, dead, slot, dtog, off, probe, calls, faults>>

At(u) == hwA = u \/ hwP = u
\* It runs the next qTD of the transfer it is at.  The device takes a bulk packet
\* whose toggle it expects and flips its own; it acknowledges another and drops it.
HwExec(u) ==
    /\ ~halted /\ At(u) /\ Active(u)
    /\ \/ /\ xf' = [xf EXCEPT ![u].done = @ + 1]
          /\ dtog' = IF xf[u].kind = "bulk" /\ dtog[EpOf[u]] = (xf[u].tog + xf[u].done) % 2
                     THEN [dtog EXCEPT ![EpOf[u]] = 1 - @] ELSE dtog
          /\ UNCHANGED faults
       \/ /\ faults < MaxFaults /\ faults' = faults + 1
          /\ xf' = [xf EXCEPT ![u].halt = TRUE] /\ UNCHANGED dtog
    /\ UNCHANGED <<pc, mem, busy, sched, dead, slot, off, probe, calls>>

\* A host system error stops the controller; its interrupt sets dead.
HwError ==
    /\ ~halted /\ stage = "ready" /\ faults < MaxFaults
    /\ faults' = faults + 1 /\ halted' = TRUE
    /\ UNCHANGED <<pc, xf, mem, busy, link, frame, hwA, hwP, ase, dead, slot, dtog, off, probe, calls>>
Irq ==
    /\ stage = "ready" /\ halted /\ ~dead /\ "irq" \in res
    /\ dead' = TRUE
    /\ UNCHANGED <<pc, xf, mem, busy, sched, slot, dtog, off, probe, calls, faults>>

Next ==
    \/ Probe
    \/ \E u \in Users : Submit(u) \/ Enter(u) \/ Wait(u) \/ Unlink(u) \/ Settle(u) \/ Return(u) \/ HwExec(u)
    \/ HwWalk \/ HwError \/ Irq

Spec == Init /\ [][Next]_vars

-----------------------------------------------------------------------------
TypeOK ==
    /\ pc \in [Users -> {"idle", "enter", "wait", "unlink", "settle", "free"}]
    /\ mem \subseteq Users /\ busy \in Users \cup {None}
    /\ link \in Users \cup {Ring} /\ frame \in Users \cup {None}
    /\ hwA \in Users \cup {Ring} /\ hwP \in Users \cup {None}
    /\ slot \in [Eps -> 0..1] /\ dtog \in [Eps -> 0..1]

\* The controller never reads or writes memory that has been freed: wherever it
\* is on either schedule, the transfer it is at still holds its memory, however
\* the wait ended and even when the answer comes after the deadline; and while
\* it runs its ring's head and its frame list are allocated, through every
\* failure of the probe.
DmaOwned ==
    /\ ~halted => /\ \A u \in Users : At(u) => u \in mem
                  /\ {"async", "periodic", "regs"} \subseteq res
    /\ \A u \in Users : link = u \/ frame = u => u \in mem
    /\ stage = "failed" => res = {} /\ halted

\* One transfer is on the schedules at a time, and it is that of the holder of
\* transfer_busy; a transfer reported complete has had every packet through.
OneAtATime ==
    /\ \A u \in Users : link = u \/ frame = u => busy = u
    /\ \A u \in Users : pc[u] \in {"unlink", "settle", "free"} /\ xf[u].r = 0 =>
         xf[u].done = xf[u].n /\ ~xf[u].halt

\* bulk_toggle follows the device: on an endpoint whose transfers have all
\* succeeded, between two of them the driver's toggle is the one the device
\* expects, so no packet is taken for a repetition and dropped.
TogglesAgree == \A u \in Users : pc[u] = "idle" /\ EpOf[u] \notin off => slot[EpOf[u]] = dtog[EpOf[u]]

=============================================================================
