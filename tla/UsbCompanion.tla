--------------------------- MODULE UsbCompanion ---------------------------
(***************************************************************************)
(* The transfers of the two drivers for older USB controllers, uhci.c and  *)
(* ohci.c, which are built alike: a thread allocates a transfer in DMA     *)
(* memory, takes transfer_busy, links it where the controller finds it,    *)
(* polls its descriptors (TDs), cancels them at the deadline, unlinks,     *)
(* lets a frame pass and frees.  UHCI has one queue behind its skeleton    *)
(* and a frame list for isochronous transfers; OHCI has a control and a    *)
(* bulk list, and sends its interrupt polls over the control list.  The    *)
(* probes are the other half.  Each endpoint has one user, as the class    *)
(* drivers arrange.  The controller is external: it fetches one TD per     *)
(* visit to a transfer, and a visit is over within the settle time.        *)
(***************************************************************************)
EXTENDS Integers

CONSTANTS
    Hc,          \* "uhci" or "ohci"
    Users,       \* threads with a transfer of their own to run
    MaxPackets,  \* packets of a transfer
    MaxCalls,    \* bound on the transfers submitted
    MaxFaults    \* bound on time-outs, stalls, short packets and controller errors

VARIABLES
    pc, xf,      \* each user's place, and its transfer
    mem,         \* the users whose transfer holds its DMA memory
    busy,        \* transfer_busy
    head, frame, \* the lists the controller walks, and the frame list's entry in use
    hw,          \* the controller's visit: the transfer, and whether it found a TD to run
    halted,      \* the controller is stopped, by the driver or by an error of its own
    dead,        \* c->dead
    slot, dtog,  \* bulk_toggle or pipe->data_toggle, and the device's, per endpoint
    off,         \* history: endpoints where a failed transfer had moved packets
    stage, res,  \* the probe: its stage and the resources it holds
    calls, faults

vars == <<pc, xf, mem, busy, head, frame, hw, halted, dead, slot, dtog, off, stage, res, calls, faults>>
lists == <<head, frame>>
probe == <<stage, res>>
bounds == <<calls, faults>>

None == "none"
Lists == IF Hc = "uhci" THEN {"queue"} ELSE {"control", "bulk"}
Eps == Users \X {"bulk", "interrupt"}
Idle == [at |-> None, run |-> FALSE]
NoXfer == [kind |-> "control", list |-> None, in |-> FALSE, n |-> 0, tog |-> 0, done |-> 0, sent |-> 0,
           end |-> "no", cancel |-> FALSE, r |-> 0]

Init ==
    /\ pc = [u \in Users |-> "idle"] /\ xf = [u \in Users |-> NoXfer]
    /\ mem = {} /\ busy = None
    /\ head = [l \in Lists |-> None] /\ frame = None /\ hw = Idle
    /\ halted = TRUE /\ dead = FALSE
    /\ slot = [e \in Eps |-> 0] /\ dtog = [e \in Eps |-> 0] /\ off = {}
    /\ stage = "controller" /\ res = {}
    /\ calls = 0 /\ faults = 0

-----------------------------------------------------------------------------
(* The probes.  The stage is the next thing to do; each can fail. *)

Acquire(r, then) ==
    /\ stage = r
    /\ \/ res' = res \cup {r} /\ stage' = then
       \/ stage' = "free" /\ UNCHANGED res
    /\ UNCHANGED <<halted, dead>>

\* The controller is reset, given its lists and set running, then asked how it is.
InitHw(sound) ==
    \/ /\ stage = "run"
       /\ \/ halted' = FALSE /\ stage' = "check"
          \/ stage' = "stop" /\ UNCHANGED halted
       /\ UNCHANGED <<res, dead>>
    \/ /\ stage = "check"
       /\ \/ sound /\ stage' = "irq"
          \/ stage' = "stop"
       /\ UNCHANGED <<res, halted, dead>>
\* uhci_init_hw reads whether the controller has stopped by itself.
UhciInitHw == InitHw(~halted)
\* ohci_init_hw first takes the controller from the firmware, and looks only
\* whether it has ports.
OhciInitHw ==
    \/ stage = "own" /\ stage' \in {"run", "stop"} /\ UNCHANGED <<res, halted, dead>>
    \/ InitHw(TRUE)

\* request_irq, which may fail and is gone without, and usb_hcd_register.
Announce ==
    /\ \/ stage = "irq" /\ res' \in {res, res \cup {"irq"}} /\ stage' = "register"
       \/ stage = "register" /\ stage' \in {"ready", "stop"} /\ UNCHANGED res
    /\ UNCHANGED <<halted, dead>>

\* fail_stop: the interrupt goes and the controller is stopped.
StopHw ==
    /\ stage = "stop" /\ stage' = "free"
    /\ res' = res \ {"irq"} /\ halted' = TRUE /\ dead' = TRUE

\* fail: what was acquired is given back.
GiveBack == stage = "free" /\ stage' = "failed" /\ res' = {} /\ UNCHANGED <<halted, dead>>

UhciProbe ==
    \/ Acquire("controller", "frames") \/ Acquire("frames", "skeleton") \/ Acquire("skeleton", "run")
    \/ UhciInitHw \/ Announce \/ StopHw \/ GiveBack
\* ohci_probe ends with a work queued; ohci_init_work does the rest.
OhciInitWork == OhciInitHw \/ Announce \/ StopHw \/ GiveBack
OhciProbe ==
    \/ Acquire("controller", "regs") \/ Acquire("regs", "hcca") \/ Acquire("hcca", "queue")
    \/ stage = "queue" /\ stage' \in {"own", "free"} /\ UNCHANGED <<res, halted, dead>>
    \/ OhciInitWork

Probe ==
    /\ IF Hc = "uhci" THEN UhciProbe ELSE OhciProbe
    /\ UNCHANGED <<pc, xf, mem, busy, lists, hw, slot, dtog, off, bounds>>

-----------------------------------------------------------------------------
(* Transfers.  alloc_transfer has the memory and chains the TDs. *)

Alloc(u, x) == xf' = [xf EXCEPT ![u] = x] /\ mem' = mem \cup {u}
New(kind, list, in, n) == [NoXfer EXCEPT !.kind = kind, !.list = list, !.in = in, !.n = n]
\* A transfer that goes on from the toggle kept for its endpoint.
From(u, x) == [x EXCEPT !.tog = slot[<<u, x.kind>>]]

\* A control transfer is its setup and status stages with the data between them.
UhciControl(u) ==
    \E in \in BOOLEAN, data \in 0..(MaxPackets - 1) : Alloc(u, New("control", "queue", in, 2 + data))
UhciBulk(u) ==
    \E in \in BOOLEAN, n \in 1..MaxPackets : Alloc(u, From(u, New("bulk", "queue", in, n)))
UhciInterrupt(u) == Alloc(u, From(u, New("interrupt", "queue", TRUE, 1)))
\* One TD per frame, whatever the direction.
UhciIsochronous(u) == \E n \in 1..MaxPackets : Alloc(u, New("iso", "frames", FALSE, n))

OhciControl(u) ==
    \E in \in BOOLEAN, data \in 0..(MaxPackets - 1) : Alloc(u, New("control", "control", in, 2 + data))
OhciBulk(u) ==
    \E in \in BOOLEAN, n \in 1..MaxPackets : Alloc(u, From(u, New("bulk", "bulk", in, n)))
OhciInterrupt(u) == Alloc(u, From(u, New("interrupt", "control", TRUE, 1)))

\* The submit functions; ohci_submit_isochronous always refuses.
Submit(u) ==
    /\ stage = "ready" /\ pc[u] = "idle" /\ calls < MaxCalls
    /\ calls' = calls + 1
    /\ IF Hc = "uhci" THEN UhciControl(u) \/ UhciBulk(u) \/ UhciInterrupt(u) \/ UhciIsochronous(u)
                      ELSE OhciControl(u) \/ OhciBulk(u) \/ OhciInterrupt(u)
    /\ pc' = [pc EXCEPT ![u] = "enter"]
    /\ UNCHANGED <<busy, lists, hw, halted, dead, slot, dtog, off, probe, faults>>

Iso(u) == xf[u].kind = "iso"
\* uhci_controller_live, ohci_live: an error seen in the status register kills
\* the controller for good.
SeesDead == dead \/ halted

\* run_transfer gives up on a dead controller before and after it has
\* transfer_busy; an isochronous transfer finds out later.
Refuse(u) ==
    /\ pc[u] = "enter" /\ ~Iso(u) /\ SeesDead
    /\ dead' = TRUE
    /\ xf' = [xf EXCEPT ![u].r = -5] /\ pc' = [pc EXCEPT ![u] = "free"]
    /\ UNCHANGED <<mem, busy, lists, hw, halted, slot, dtog, off, probe, bounds>>

UhciLink(u) == IF Iso(u) THEN frame' = u /\ UNCHANGED head
                         ELSE head' = [head EXCEPT !["queue"] = u] /\ UNCHANGED frame
OhciLink(u) == head' = [head EXCEPT ![xf[u].list] = u] /\ UNCHANGED frame
Enter(u) ==
    /\ pc[u] = "enter" /\ busy = None /\ (Iso(u) \/ ~SeesDead)
    /\ busy' = u /\ pc' = [pc EXCEPT ![u] = "wait"]
    /\ IF Hc = "uhci" THEN UhciLink(u) ELSE OhciLink(u)
    /\ UNCHANGED <<xf, mem, hw, halted, dead, slot, dtog, off, probe, bounds>>

\* TDs are still to be run: those after a short packet are, to a poll, too.
Active(u) == xf[u].done < xf[u].n /\ xf[u].end # "error"
\* wait_transfer: the controller is dead, a TD failed, all are done, or the
\* deadline passes with some still active; the last cancels the transfer.
Wait(u) ==
    /\ pc[u] = "wait"
    /\ \/ /\ SeesDead /\ dead' = TRUE
          /\ xf' = [xf EXCEPT ![u].r = -5] /\ pc' = [pc EXCEPT ![u] = "unlink"] /\ UNCHANGED faults
       \/ /\ ~SeesDead /\ xf[u].end = "error"
          /\ xf' = [xf EXCEPT ![u].r = -3] /\ pc' = [pc EXCEPT ![u] = "unlink"] /\ UNCHANGED <<dead, faults>>
       \/ /\ ~SeesDead /\ xf[u].end # "error" /\ xf[u].done = xf[u].n
          /\ pc' = [pc EXCEPT ![u] = "unlink"] /\ UNCHANGED <<xf, dead, faults>>
       \/ /\ ~SeesDead /\ Active(u) /\ faults < MaxFaults
          /\ faults' = faults + 1
          /\ xf' = [xf EXCEPT ![u].r = -2] /\ pc' = [pc EXCEPT ![u] = "cancel"] /\ UNCHANGED dead
    /\ UNCHANGED <<mem, busy, lists, hw, halted, slot, dtog, off, probe, calls>>

\* cancel_transfer: no TD is active any more (UHCI), or the whole endpoint is
\* to be skipped (OHCI).  A TD already fetched runs on.
Cancel(u) ==
    /\ pc[u] = "cancel"
    /\ xf' = [xf EXCEPT ![u].cancel = TRUE] /\ pc' = [pc EXCEPT ![u] = "unlink"]
    /\ UNCHANGED <<mem, busy, lists, hw, halted, dead, slot, dtog, off, probe, bounds>>

UhciUnlink(u) == IF Iso(u) THEN frame' = None /\ UNCHANGED head
                           ELSE head' = [head EXCEPT !["queue"] = None] /\ UNCHANGED frame
\* Only the list of the transfer is reset, and only if the transfer heads it.
OhciUnlink(u) ==
    /\ head' = IF head[xf[u].list] = u THEN [head EXCEPT ![xf[u].list] = None] ELSE head
    /\ UNCHANGED frame
Unlink(u) ==
    /\ pc[u] = "unlink" /\ pc' = [pc EXCEPT ![u] = "settle"]
    /\ IF Hc = "uhci" THEN UhciUnlink(u) ELSE OhciUnlink(u)
    /\ UNCHANGED <<xf, mem, busy, hw, halted, dead, slot, dtog, off, probe, bounds>>

\* The settle time is over, and the controller's visit with it.
Settle(u) ==
    /\ pc[u] = "settle" /\ (halted \/ hw.at # u)
    /\ busy' = None /\ pc' = [pc EXCEPT ![u] = "free"]
    /\ UNCHANGED <<xf, mem, lists, hw, halted, dead, slot, dtog, off, probe, bounds>>

\* The submit function goes on: after a success the toggle moves on once per
\* packet; free_transfer.
Return(u) ==
    /\ pc[u] = "free"
    /\ IF xf[u].kind \in {"bulk", "interrupt"}
       THEN /\ slot' = IF xf[u].r = 0 THEN [slot EXCEPT ![<<u, xf[u].kind>>] = (@ + xf[u].done) % 2] ELSE slot
            /\ off' = IF xf[u].r < 0 /\ xf[u].sent > 0 THEN off \cup {<<u, xf[u].kind>>} ELSE off
       ELSE UNCHANGED <<slot, off>>
    /\ mem' = mem \ {u} /\ xf' = [xf EXCEPT ![u] = NoXfer] /\ pc' = [pc EXCEPT ![u] = "idle"]
    /\ UNCHANGED <<busy, lists, hw, halted, dead, dtog, probe, bounds>>

-----------------------------------------------------------------------------
(* The controller and the device. *)

\* It comes to a transfer of a list or of the frame list, and fetches the next
\* TD if there is one to run; it leaves again when the device has no answer yet.
HwVisit ==
    /\ ~halted
    /\ IF hw = Idle
       THEN \E u \in ({head[l] : l \in Lists} \cup {frame}) \ {None} :
              hw' = [at |-> u, run |-> u \in mem /\ xf[u].end = "no" /\ Active(u) /\ ~xf[u].cancel]
       ELSE hw' = Idle
    /\ UNCHANGED <<pc, xf, mem, busy, lists, halted, dead, slot, dtog, off, probe, bounds>>

Toggled(u) == xf[u].kind \in {"bulk", "interrupt"}
Matches(u) == dtog[<<u, xf[u].kind>>] = (xf[u].tog + xf[u].done) % 2
Flip(u) == dtog' = [dtog EXCEPT ![<<u, xf[u].kind>>] = 1 - @]

\* A packet goes through.  Where toggles count and differ, the device drops an
\* OUT packet it takes for a repetition, and the controller an IN packet.
Packet(u) ==
    /\ IF Toggled(u) /\ (xf[u].in \/ Matches(u)) THEN Flip(u) ELSE UNCHANGED dtog
    /\ xf' = [xf EXCEPT ![u].sent = @ + 1,
                        ![u].done = IF Toggled(u) /\ xf[u].in /\ ~Matches(u) THEN @ ELSE @ + 1]
    /\ UNCHANGED faults
\* The device sends less than asked.  A UHCI queue stops there, its TD done
\* (UHCI_TD_SPD), and a transfer that has more goes on only in the eyes of the
\* driver; to OHCI the TD has failed, as td_flags allows no short buffer.
Short(u) ==
    /\ xf[u].in /\ ~Iso(u) /\ faults < MaxFaults /\ faults' = faults + 1
    /\ xf[u].kind = "control" => xf[u].done \in 1..(xf[u].n - 2)
    /\ Toggled(u) => Matches(u)
    /\ IF Toggled(u) THEN Flip(u) ELSE UNCHANGED dtog
    /\ xf' = IF Hc = "uhci" THEN [xf EXCEPT ![u].sent = @ + 1, ![u].done = @ + 1, ![u].end = "short"]
                            ELSE [xf EXCEPT ![u].sent = @ + 1, ![u].end = "error"]
\* A stall, or no answer to three tries.
Failed(u) ==
    /\ faults < MaxFaults /\ faults' = faults + 1
    /\ xf' = [xf EXCEPT ![u].end = "error"] /\ UNCHANGED dtog
HwRun(u) ==
    /\ ~halted /\ hw = [at |-> u, run |-> TRUE] /\ hw' = Idle
    /\ Packet(u) \/ Short(u) \/ Failed(u)
    /\ UNCHANGED <<pc, mem, busy, lists, halted, dead, slot, off, probe, calls>>

\* The controller stops at an error of its own; its interrupt sets dead.
HwError ==
    /\ ~halted /\ faults < MaxFaults
    /\ faults' = faults + 1 /\ halted' = TRUE /\ hw' = Idle
    /\ UNCHANGED <<pc, xf, mem, busy, lists, dead, slot, dtog, off, probe, calls>>
Irq ==
    /\ halted /\ ~dead /\ "irq" \in res
    /\ dead' = TRUE
    /\ UNCHANGED <<pc, xf, mem, busy, lists, hw, halted, slot, dtog, off, probe, bounds>>

Next ==
    \/ Probe \/ HwVisit \/ HwError \/ Irq
    \/ \E u \in Users : \/ Submit(u) \/ Refuse(u) \/ Enter(u) \/ Wait(u) \/ Cancel(u) \/ Unlink(u)
                        \/ Settle(u) \/ Return(u) \/ HwRun(u)

Spec == Init /\ [][Next]_vars

-----------------------------------------------------------------------------
TypeOK ==
    /\ pc \in [Users -> {"idle", "enter", "wait", "cancel", "unlink", "settle", "free"}]
    /\ mem \subseteq Users /\ busy \in Users \cup {None}
    /\ head \in [Lists -> Users \cup {None}] /\ frame \in Users \cup {None}
    /\ slot \in [Eps -> 0..1] /\ dtog \in [Eps -> 0..1]

\* The controller works only in memory that is allocated: on a visit the
\* transfer still holds its own, also when the deadline has passed in between,
\* what the lists point to does too, and as long as the controller runs, the
\* memory it was started on is not given back by a probe that fails.
DmaOwned ==
    /\ ~halted => /\ hw.at # None => hw.at \in mem
                  /\ (IF Hc = "uhci" THEN {"controller", "frames", "skeleton"} ELSE {"controller", "regs", "hcca"})
                       \subseteq res
    /\ \A u \in Users : frame = u \/ (\E l \in Lists : head[l] = u) => u \in mem /\ busy = u

\* A transfer that is reported complete has had every packet through, though
\* the lists are polled while the controller changes them.
CompleteIsWhole ==
    \A u \in Users : pc[u] \in {"unlink", "settle", "free"} /\ xf[u].r = 0 =>
        xf[u].done = xf[u].n /\ xf[u].end # "error"

\* The toggles of driver and device agree between transfers, so that no packet
\* is taken for a repetition and lost: a transfer that fails puts them out of
\* step only if a packet of it had moved, and a poll that times out without
\* one, the normal outcome of an interrupt poll, never does.
TogglesAgree == \A e \in Eps : pc[e[1]] = "idle" /\ e \notin off => slot[e] = dtog[e]
=============================================================================
