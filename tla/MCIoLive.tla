----------------------------- MODULE MCIoLive ------------------------------
(***************************************************************************)
(* That calls which wait for another CPU, another thread or a device       *)
(* return: the TLB shootdown, the block cache and the virtio disk, each    *)
(* alone and under its own fairness.  The subject is chosen at the start;  *)
(* the others stay in their initial state.                                 *)
(***************************************************************************)
EXTENDS Integers, Sequences

CONSTANTS c1, c2, A, t1, t2, e1, e2, None

VARIABLES subject,
          mail, queued, unhandled, payload, pending, ipi, mode, at, taken, resched, lock, work,
          todo, sent, space, cr3, stale, need, panicked,                               \* Mailbox
          dev, entry, lru, free, call,                                                 \* BlockCache
          disk, bounce, req, status, avail, used, last_used, request_busy, done, isr,
          vdev, vcall, timeouts                                                        \* VirtioBlk

mailbox == <<mail, queued, unhandled, payload, pending, ipi, mode, at, taken, resched, lock, work,
             todo, sent, space, cr3, stale, need, panicked>>
cache == <<dev, entry, lru, free, call>>
virtio == <<disk, bounce, req, status, avail, used, last_used, request_busy, done, isr, vdev, vcall, timeouts>>
vars == <<subject, mailbox, cache, virtio>>

M == INSTANCE Mailbox WITH CPUs <- {c1, c2}, Spaces <- {A}, Initiators <- {c1}, Panickers <- {}
B == INSTANCE BlockCache WITH Threads <- {t1, t2}, Entries <- {e1, e2}, Blocks <- {0, 1}, MaxRun <- 1,
                              MaxWrites <- 1, Readahead <- 2, DirectMin <- 3, DeviceFails <- FALSE,
                              Unmounts <- FALSE
\* A disk with an interrupt that answers every request, if only with an error.
V1 == INSTANCE VirtioBlk WITH Callers <- {1, 2}, SectorSize <- 1, Sectors <- 1, MaxTransfer <- 1,
                              IndexRange <- 3, IRQ <- TRUE, DeviceFails <- TRUE, MaxTimeouts <- 0,
                              dev <- vdev, call <- vcall
\* A disk without one that may fall silent.
V2 == INSTANCE VirtioBlk WITH Callers <- {1, 2}, SectorSize <- 1, Sectors <- 1, MaxTransfer <- 1,
                              IndexRange <- 3, IRQ <- FALSE, DeviceFails <- FALSE, MaxTimeouts <- 2,
                              dev <- vdev, call <- vcall

Init ==
    /\ subject \in {"shootdown", "block cache", "virtio", "silent virtio"}
    /\ M!Init /\ B!Init /\ V1!Init
    /\ free = <<e1, e2>>

Next ==
    /\ UNCHANGED subject
    /\ \/ subject = "shootdown" /\ M!Next /\ UNCHANGED <<cache, virtio>>
       \/ subject = "block cache" /\ B!Next /\ UNCHANGED <<mailbox, virtio>>
       \/ subject = "virtio" /\ V1!Next /\ UNCHANGED <<mailbox, cache>>
       \/ subject = "silent virtio" /\ V2!Next /\ UNCHANGED <<mailbox, cache>>

Is(s, Act) == subject = s /\ Act

\* Straight-line kernel code goes on, and a pending interrupt is taken once
\* the CPU runs with interrupts enabled.
MailboxFair ==
    \A c \in {c1, c2} : WF_mailbox(Is("shootdown", M!Step(c))) /\ SF_mailbox(Is("shootdown", M!Deliver(c)))

\* Every thread has a CPU of its own and the device answers.  (With more
\* blocks in use than entries a read can starve: its block is evicted
\* between load and copy, again and again.)
CacheFair == \A t \in {t1, t2} : WF_cache(Is("block cache", B!Step(t)))

\* Kernel threads go on and the interrupt is delivered; the turn, tested
\* again after every tick, is found free infinitely often by whoever polls it.
\* The first disk answers; on the second a poll that is not answered gives up.
VirtioFair ==
    /\ \A t \in {1, 2} :
          /\ WF_virtio(Is("virtio", V1!Step(t))) /\ WF_virtio(Is("silent virtio", V2!Step(t)))
          /\ SF_virtio(subject \in {"virtio", "silent virtio"} /\ V1!WaitTurn(t))
          /\ WF_virtio(Is("silent virtio", V2!TimeOut(t)))
    /\ WF_virtio(Is("virtio", V1!VirtioIrq))
    /\ WF_virtio(Is("virtio", V1!DevTake))
    /\ WF_virtio(Is("virtio", \E moved \in BOOLEAN, o \in {"ok", "err"} : V1!DevFinish(moved, o)))

Spec == Init /\ [][Next]_vars /\ MailboxFair /\ CacheFair /\ VirtioFair
-----------------------------------------------------------------------------
\* flush_tlb returns, if no two CPUs are in it at a time.
FlushReturns == M!Flushing(c1) ~> ~M!Flushing(c1)

\* Every read and every write through the block cache returns: nobody waits
\* for ever for a loading entry, or for an entry to reuse.
CacheCallsReturn == call[t1].pc # "idle" ~> call[t1].pc = "idle"

\* Every call of virtio_rw returns: no wake-up is lost between the test of the
\* used index and the wait, and the turn is passed on.
DiskCallsReturn == vcall[1].pc # "idle" ~> vcall[1].pc = "ret"
=============================================================================
