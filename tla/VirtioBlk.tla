----------------------------- MODULE VirtioBlk -----------------------------
(***************************************************************************)
(* module/virtio_blk: reads and writes of a virtio disk.  One request is   *)
(* in the ring at a time, handed out by virtio_wait_turn; a caller that    *)
(* may sleep waits for the interrupt through a kernel_completion, one that *)
(* may not (it holds a spinlock, as sys_read does) polls the used index    *)
(* for a bounded time.  The device is external: it takes the published     *)
(* request, carries it out, advances used and raises its interrupt.        *)
(* A disk byte starts as its own address; caller t writes Written(t).      *)
(***************************************************************************)
EXTENDS Integers, Sequences

CONSTANTS Callers,      \* threads of the kernel that use the disk, 1..n
          SectorSize, Sectors, MaxTransfer,
          IndexRange,   \* the ring indices wrap here (2^16)
          IRQ,          \* irq_registered
          DeviceFails,  \* the device may report an error
          MaxTimeouts   \* bound on the polls that give up

VARIABLES disk,       \* the medium
          bounce,     \* d->bounce
          req,        \* the request descriptors 0..2 describe
          status,     \* *d->status: "new" is 0xFF
          avail, used, last_used,
          request_busy,
          done,       \* d->completion
          isr,        \* bit 0 of the device's ISR register
          dev,        \* the request the device is working on, or Nothing
          call,       \* the virtio_rw of each caller
          timeouts

ring == <<req, status, avail, used, last_used>>
vars == <<disk, bounce, ring, request_busy, done, isr, dev, call, timeouts>>

Bytes == Sectors * SectorSize
Written(t) == -t
Nothing == [type |-> "none", sector |-> 0, bytes |-> 0]
Requests == [type : {"IN", "OUT"}, sector : 0..Sectors - 1, bytes : 1..MaxTransfer]

Idle == [pc |-> "idle", write |-> FALSE, sleeps |-> FALSE, off |-> 0, size |-> 0,
         n |-> 0, buf |-> <<>>, cmd |-> Nothing, expected |-> 0, ok |-> FALSE, was |-> <<>>]

Init ==
    /\ disk = [b \in 0..Bytes - 1 |-> b]
    /\ bounce = [b \in 0..MaxTransfer - 1 |-> 0]
    /\ req = Nothing /\ status = "new"
    /\ avail = 0 /\ used = 0 /\ last_used = 0
    /\ request_busy = FALSE /\ done = FALSE /\ isr = FALSE
    /\ dev = Nothing
    /\ call = [t \in Callers |-> Idle]
    /\ timeouts = 0

To(t, pc) == call' = [call EXCEPT ![t].pc = pc]
Least(a, b) == IF a < b THEN a ELSE b

-----------------------------------------------------------------------------
\* virtio_rw, the transfer of one chunk.

Pos(t) == call[t].off + call[t].n
InSector(t) == Pos(t) % SectorSize
Chunk(t) == Least(call[t].size - call[t].n, MaxTransfer)

\* The chunk does not consist of whole sectors: one sector is read, and for
\* a write changed and written back.
Partial(t) == InSector(t) # 0 \/ Chunk(t) % SectorSize # 0

\* The bytes of the caller's buffer that this chunk transfers.
Span(t) == IF Partial(t) THEN Least(SectorSize - InSector(t), Chunk(t)) ELSE Chunk(t)

Command(t, type) ==
    [type |-> type, sector |-> Pos(t) \div SectorSize,
     bytes |-> IF Partial(t) THEN SectorSize ELSE Chunk(t)]

\* The bounce buffer with the caller's data copied to position at.
Filled(t, at) ==
    [b \in DOMAIN bounce |-> IF b \in at..at + Span(t) - 1 THEN Written(t) ELSE bounce[b]]

\* A call of virtio_read or virtio_write, with the size cut to the disk.
Start(t, off, size, write, sleeps) ==
    /\ call[t].pc = "idle"
    /\ call' = [call EXCEPT ![t] =
                  [Idle EXCEPT !.pc = "next", !.write = write, !.sleeps = sleeps, !.off = off,
                               !.size = IF off >= Bytes THEN 0 ELSE Least(size, Bytes - off),
                               !.was = disk]]
    /\ UNCHANGED <<disk, bounce, ring, request_busy, done, isr, dev, timeouts>>

Return(t) ==
    /\ call[t].pc = "next" /\ call[t].n = call[t].size
    /\ To(t, "ret")
    /\ UNCHANGED <<disk, bounce, ring, request_busy, done, isr, dev, timeouts>>

\* The head of the loop: a write of whole sectors fills the bounce buffer
\* before it has the turn.
NextChunk(t) ==
    /\ call[t].pc = "next" /\ call[t].n < call[t].size
    /\ LET whole == call[t].write /\ ~Partial(t)
       IN /\ bounce' = IF whole THEN Filled(t, 0) ELSE bounce
          /\ call' = [call EXCEPT ![t].pc = "turn",
                                  ![t].cmd = Command(t, IF whole THEN "OUT" ELSE "IN")]
    /\ UNCHANGED <<disk, ring, request_busy, done, isr, dev, timeouts>>

\* After virtio_cmd: a failure ends the call, the read half of a partial
\* write is followed by its write half, a read copies the bounce buffer out
\* after the turn has been given back.
AfterCmd(t) ==
    /\ call[t].pc = "after"
    /\ IF ~call[t].ok
       THEN To(t, "ret") /\ UNCHANGED bounce
       ELSE IF call[t].write /\ call[t].cmd.type = "IN"
       THEN /\ bounce' = Filled(t, InSector(t))
            /\ call' = [call EXCEPT ![t].pc = "turn", ![t].cmd.type = "OUT"]
       ELSE /\ UNCHANGED bounce
            /\ call' = [call EXCEPT ![t].pc = "next",
                          ![t].n = @ + Span(t),
                          ![t].buf = IF call[t].write THEN <<>>
                                     ELSE @ \o [i \in 1..Span(t) |-> bounce[InSector(t) + i - 1]]]
    /\ UNCHANGED <<disk, ring, request_busy, done, isr, dev, timeouts>>

-----------------------------------------------------------------------------
\* virtio_cmd.

TurnFree(t) == ~request_busy

\* virtio_wait_turn, the iteration that gets the turn.
WaitTurn(t) ==
    /\ call[t].pc = "turn" /\ TurnFree(t)
    /\ request_busy' = TRUE
    /\ To(t, "issue")
    /\ UNCHANGED <<disk, bounce, ring, done, isr, dev, timeouts>>

\* The section under d->lock that writes the descriptors, publishes them and
\* notifies the device.
Issue(t) ==
    /\ call[t].pc = "issue"
    /\ req' = call[t].cmd /\ status' = "new"
    /\ avail' = (avail + 1) % IndexRange
    /\ done' = FALSE
    /\ call' = [call EXCEPT ![t].pc = "wait", ![t].expected = last_used]
    /\ UNCHANGED <<disk, bounce, used, last_used, request_busy, isr, dev, timeouts>>

Sleeps(t) == IRQ /\ call[t].sleeps

\* virtio_wait_complete: used[1] has moved on.
SeeUsed(t) ==
    /\ call[t].pc = "wait" /\ used # call[t].expected
    /\ To(t, "finish")
    /\ UNCHANGED <<disk, bounce, ring, request_busy, done, isr, dev, timeouts>>

\* ... it has not, and the caller goes to sleep,
NotUsed(t) ==
    /\ call[t].pc = "wait" /\ Sleeps(t) /\ used = call[t].expected
    /\ To(t, "sleep")
    /\ UNCHANGED <<disk, bounce, ring, request_busy, done, isr, dev, timeouts>>

\* registering in kernel_completion_wait when done is clear,
Block(t) ==
    /\ call[t].pc = "sleep" /\ ~done
    /\ To(t, "blocked")
    /\ UNCHANGED <<disk, bounce, ring, request_busy, done, isr, dev, timeouts>>

\* Where a completed wait resumes: the test of the used index.
WakeLabel == "wait"

\* from which a signal brings it back to the test.
Woken(t) ==
    /\ call[t].pc \in {"sleep", "blocked"} /\ done
    /\ done' = FALSE
    /\ To(t, WakeLabel)
    /\ UNCHANGED <<disk, bounce, ring, request_busy, isr, dev, timeouts>>

\* A caller that polls gives up after VIRTIO_TIMEOUT_TICKS or _SPINS.
TimeOut(t) ==
    /\ call[t].pc = "wait" /\ ~Sleeps(t) /\ used = call[t].expected
    /\ timeouts < MaxTimeouts
    /\ timeouts' = timeouts + 1
    /\ To(t, "failed")
    /\ UNCHANGED <<disk, bounce, ring, request_busy, done, isr, dev>>

Advanced(t) == (call[t].expected + 1) % IndexRange

\* The section under d->lock that looks at the outcome.
Finish(t) ==
    /\ call[t].pc \in {"finish", "failed"}
    /\ LET completed == call[t].pc = "finish" /\ used # call[t].expected
       IN /\ last_used' = IF completed THEN Advanced(t) ELSE last_used
          /\ call' = [call EXCEPT ![t].pc = "release", ![t].ok = completed /\ status = "ok"]
    /\ UNCHANGED <<disk, bounce, req, status, avail, used, request_busy, done, isr, dev, timeouts>>

BusyAfter(t) == FALSE

\* virtio_finish_turn.
FinishTurn(t) ==
    /\ call[t].pc = "release"
    /\ request_busy' = BusyAfter(t)
    /\ To(t, "after")
    /\ UNCHANGED <<disk, bounce, ring, done, isr, dev, timeouts>>

-----------------------------------------------------------------------------
\* The device, and its interrupt.

DevTake ==
    /\ dev = Nothing /\ used # avail
    /\ dev' = req
    /\ UNCHANGED <<disk, bounce, ring, request_busy, done, isr, call, timeouts>>

Sector0(r) == r.sector * SectorSize

\* The request succeeds, or fails with none or all of its data moved.
DevFinish(moved, outcome) ==
    /\ dev # Nothing
    /\ outcome = "err" => DeviceFails
    /\ outcome = "ok" => moved
    /\ disk' = [b \in DOMAIN disk |->
                  IF moved /\ dev.type = "OUT" /\ b \in Sector0(dev)..Sector0(dev) + dev.bytes - 1
                  THEN bounce[b - Sector0(dev)] ELSE disk[b]]
    /\ bounce' = [b \in DOMAIN bounce |->
                    IF moved /\ dev.type = "IN" /\ b < dev.bytes THEN disk[Sector0(dev) + b] ELSE bounce[b]]
    /\ status' = outcome
    /\ used' = (used + 1) % IndexRange
    /\ isr' = TRUE
    /\ dev' = Nothing
    /\ UNCHANGED <<req, avail, last_used, request_busy, done, call, timeouts>>

\* Mutant: the completion is signalled only when somebody waits on it.
SignalledToWaiter == \E t \in Callers : call[t].pc = "blocked"

Signalled == TRUE

\* virtio_irq, which reads and so clears the ISR register.
VirtioIrq ==
    /\ IRQ /\ isr
    /\ isr' = FALSE
    /\ done' = Signalled
    /\ UNCHANGED <<disk, bounce, ring, request_busy, dev, call, timeouts>>

Step(t) ==
    \/ Return(t) \/ NextChunk(t) \/ AfterCmd(t) \/ WaitTurn(t) \/ Issue(t) \/ SeeUsed(t)
    \/ NotUsed(t) \/ Block(t) \/ Woken(t) \/ Finish(t) \/ FinishTurn(t)

Next ==
    \/ \E t \in Callers, off, size \in 0..Bytes, write, sleeps \in BOOLEAN :
          Start(t, off, size, write, sleeps)
    \/ \E t \in Callers : Step(t)
    \/ \E t \in Callers : TimeOut(t)
    \/ DevTake
    \/ \E moved \in BOOLEAN, outcome \in {"ok", "err"} : DevFinish(moved, outcome)
    \/ VirtioIrq

Spec == Init /\ [][Next]_vars

-----------------------------------------------------------------------------
TypeOK ==
    /\ \A b \in DOMAIN disk : disk[b] \in 0..Bytes - 1 \cup {Written(t) : t \in Callers}
    /\ req \in Requests \cup {Nothing} /\ dev \in Requests \cup {Nothing}
    /\ status \in {"new", "ok", "err"}
    /\ {avail, used, last_used} \subseteq 0..IndexRange - 1
    /\ {request_busy, done, isr} \subseteq BOOLEAN
    /\ \A t \in Callers : call[t].n \in 0..call[t].size
    /\ timeouts \in 0..MaxTimeouts

\* virtio_rw moves exactly the bytes it says: of a write that returned n, the
\* n bytes from its offset hold the caller's data, no byte outside the
\* requested range has changed (the read-modify-write of partial sectors
\* included), and what a read returned is what the disk held.  One caller.
RangeExact ==
    \A t \in Callers : LET c == call[t] IN
       c.pc = "ret" =>
         IF c.write
         THEN \A b \in DOMAIN disk :
                 /\ b \in c.off..c.off + c.n - 1 => disk[b] = Written(t)
                 /\ b \notin c.off..c.off + c.size - 1 => disk[b] = c.was[b]
         ELSE c.buf = [i \in 1..c.n |-> c.was[c.off + i - 1]] /\ disk = c.was

\* A device that may fail requests still serves every call as far as it did
\* not fail: a call returns less than it was asked for only after an error.
ShortOnlyOnError ==
    \A t \in Callers : call[t].pc = "ret" /\ call[t].n < call[t].size => status = "err"

\* Between requests the driver's index, the published index and the device's
\* agree, so that the next request does not take an old answer for its own
\* (virtio_cmd, after a failed request as well).
RingInStep == ~request_busy => last_used = used /\ used = avail

\* The descriptors the device works from are never rewritten under it: the
\* turn is held from before they are written until the device is done with
\* them (virtio_wait_turn, virtio_cmd).
RequestStable == dev # Nothing => dev = req /\ request_busy

=============================================================================
