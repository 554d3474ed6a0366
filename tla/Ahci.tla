------------------------------- MODULE Ahci --------------------------------
(***************************************************************************)
(* module/ahci: commands of one SATA port and the reads and writes built   *)
(* on them.  A command takes a slot, clears the port's interrupt status,   *)
(* issues itself and polls until the controller has cleared its bit of CI, *)
(* an error shows or a count runs out; the interrupt handler moves the     *)
(* status to port_irq behind its back.  A transfer of whole sectors goes   *)
(* to the caller's buffer, anything else through the bounce buffer under   *)
(* bounce_lock.  Registers are touched one at a time.  The controller is   *)
(* external: it completes or fails the commands of CI until it has an      *)
(* error, and forgets them when the port is stopped.                       *)
(* A disk byte starts as its own address; caller t writes Written(t).      *)
(***************************************************************************)
EXTENDS Integers, FiniteSets

CONSTANTS Callers, SectorSize, Sectors, MaxTransfer, Slots, None,
          Sizes,       \* the lengths of the calls
          Directions,  \* a subset of {"read", "write"}
          IRQ,         \* the interrupt line is routed
          DeviceFails, \* commands may fail, and the device be busy
          MaxTimeouts  \* bound on the commands the controller leaves unanswered

VARIABLES io,        \* the call of each caller: ahci_io_dev, ahci_command
          active,    \* disk->active_slots
          ci,        \* PxCI
          error,     \* an error bit in PxIS
          port_irq,  \* an error bit in ctrl->port_irq[port]
          handler,   \* what the interrupt handler has done: nothing, read PxIS, or saved it
          table,     \* the command table of each slot
          ran,       \* the slots whose last command was carried out
          bounce, bounce_lock, disk, timeouts

regs == <<ci, error, port_irq, handler>>
vars == <<io, active, regs, table, ran, bounce, bounce_lock, disk, timeouts>>

Bytes == 0..Sectors * SectorSize - 1
Written(t) == 100 + t
NoCmd == [lba |-> 0, n |-> 0, write |-> FALSE, to |-> None]
Rest == [pc |-> "idle", write |-> FALSE, off |-> 0, size |-> 0, done |-> 0, buf |-> [b \in Bytes |-> 0],
         direct |-> FALSE, cmd |-> NoCmd, slot |-> None, ci |-> FALSE, err |-> FALSE, last |-> FALSE, rc |-> TRUE]

Init ==
    /\ io = [t \in Callers |-> Rest]
    /\ active = {} /\ ci = {} /\ error = FALSE /\ port_irq = FALSE /\ handler = "off"
    /\ table = [s \in Slots |-> NoCmd] /\ ran = {}
    /\ bounce = [b \in Bytes |-> 0] /\ bounce_lock = None
    /\ disk = [b \in Bytes |-> b]
    /\ timeouts = 0

Smaller(a, b) == IF a < b THEN a ELSE b

-----------------------------------------------------------------------------
\* The transfer that ahci_io_dev makes next.

Abs(t) == io[t].off + io[t].done
Left(t) == io[t].size - io[t].done
InSector(t) == Abs(t) % SectorSize
Lba(t) == Abs(t) \div SectorSize
NSectors(t) ==
    IF InSector(t) # 0 \/ Left(t) < SectorSize THEN 1
    ELSE Smaller(MaxTransfer \div SectorSize, Left(t) \div SectorSize)

\* Mutant: a sector is copied to its end, whatever was asked for.
CopiedToEnd(t) == NSectors(t) * SectorSize - InSector(t)

Copied(t) == Smaller(NSectors(t) * SectorSize - InSector(t), Left(t))

\* ahci_read_dev, ahci_write_dev: the size is cut at the end of the disk.
Call(t, write, off, size) ==
    /\ io[t].pc = "idle" /\ off \in Bytes
    /\ io' = [io EXCEPT ![t] = [Rest EXCEPT !.pc = "loop", !.write = write, !.off = off,
                                            !.size = Smaller(size, Sectors * SectorSize - off)]]
    /\ UNCHANGED <<active, regs, table, ran, bounce, bounce_lock, disk, timeouts>>

StartCmd(t, to, write, direct) ==
    io' = [io EXCEPT ![t].pc = "reserve", ![t].direct = direct,
                     ![t].cmd = [lba |-> Lba(t), n |-> NSectors(t), write |-> write, to |-> to]]

\* ahci_rw_sectors_into, unless the buffer crosses a page or is out of reach.
Direct(t) ==
    /\ io[t].pc = "loop" /\ Left(t) > 0
    /\ InSector(t) = 0 /\ Copied(t) = NSectors(t) * SectorSize
    /\ StartCmd(t, t, io[t].write, TRUE)
    /\ UNCHANGED <<active, regs, table, ran, bounce, bounce_lock, disk, timeouts>>

\* Otherwise, and when the direct transfer failed: the bounce buffer is filled.
Bounce(t) ==
    /\ io[t].pc \in {"loop", "retry"} /\ Left(t) > 0
    /\ bounce_lock = None /\ bounce_lock' = t
    /\ StartCmd(t, None, FALSE, FALSE)
    /\ UNCHANGED <<active, regs, table, ran, bounce, disk, timeouts>>

Range(t) == Abs(t)..Abs(t) + Copied(t) - 1

\* A command has returned to ahci_io_dev.
Returned(t) ==
    /\ io[t].pc = "returned"
    /\ LET c == io[t].cmd
           next == [io EXCEPT ![t].pc = "loop", ![t].done = @ + Copied(t)]
       IN \/ /\ io[t].direct
             /\ io' = IF io[t].rc THEN next ELSE [io EXCEPT ![t].pc = "retry"]
             /\ UNCHANGED <<bounce, bounce_lock>>
          \/ /\ ~io[t].direct /\ ~io[t].rc
             /\ io' = [io EXCEPT ![t].pc = "end"]
             /\ bounce_lock' = None
             /\ UNCHANGED bounce
          \/ /\ ~io[t].direct /\ io[t].rc /\ io[t].write /\ ~c.write
             /\ bounce' = [b \in Bytes |-> IF b \in InSector(t)..InSector(t) + Copied(t) - 1 THEN Written(t) ELSE bounce[b]]
             /\ StartCmd(t, None, TRUE, FALSE)
             /\ UNCHANGED bounce_lock
          \/ /\ ~io[t].direct /\ io[t].rc /\ io[t].write = c.write
             /\ io' = [next EXCEPT ![t].buf = [b \in Bytes |-> IF ~c.write /\ b \in Range(t)
                                                                  THEN bounce[b - c.lba * SectorSize] ELSE @[b]]]
             /\ bounce_lock' = None
             /\ UNCHANGED bounce
    /\ UNCHANGED <<active, regs, table, ran, disk, timeouts>>

Finish(t) ==
    /\ io[t].pc = "loop" /\ Left(t) = 0
    /\ io' = [io EXCEPT ![t].pc = "end"]
    /\ UNCHANGED <<active, regs, table, ran, bounce, bounce_lock, disk, timeouts>>

-----------------------------------------------------------------------------
\* ahci_command.

\* Mutant: a slot is free when its command has left CI.
FreeSlotsCI == Slots \ ci

\* ahci_reserve_slot.
FreeSlots == Slots \ (ci \cup active)

Reserve(t) ==
    /\ io[t].pc = "reserve" /\ FreeSlots # {}
    /\ LET s == CHOOSE s \in FreeSlots : \A u \in FreeSlots : s <= u
       IN /\ io' = [io EXCEPT ![t].pc = "clear", ![t].slot = s]
          /\ active' = active \cup {s}
          /\ table' = [table EXCEPT ![s] = io[t].cmd]
          /\ ran' = ran \ {s}
    /\ UNCHANGED <<regs, bounce, bounce_lock, disk, timeouts>>

\* The device stays busy, or no slot is free.
Refuse(t) ==
    /\ io[t].pc = "reserve" /\ (DeviceFails \/ FreeSlots = {})
    /\ io' = [io EXCEPT ![t].pc = "returned", ![t].rc = FALSE]
    /\ UNCHANGED <<active, regs, table, ran, bounce, bounce_lock, disk, timeouts>>

\* PxIS is cleared, then port_irq,
ClearIS(t) ==
    /\ io[t].pc = "clear"
    /\ error' = FALSE
    /\ io' = [io EXCEPT ![t].pc = "forget"]
    /\ UNCHANGED <<active, ci, port_irq, handler, table, ran, bounce, bounce_lock, disk, timeouts>>

ClearIrq(t) ==
    /\ io[t].pc = "forget"
    /\ port_irq' = FALSE
    /\ io' = [io EXCEPT ![t].pc = "issue"]
    /\ UNCHANGED <<active, ci, error, handler, table, ran, bounce, bounce_lock, disk, timeouts>>

\* and the command is issued.
Issue(t) ==
    /\ io[t].pc = "issue"
    /\ ci' = ci \cup {io[t].slot}
    /\ io' = [io EXCEPT ![t].pc = "ci", ![t].last = FALSE]
    /\ UNCHANGED <<active, error, port_irq, handler, table, ran, bounce, bounce_lock, disk, timeouts>>

\* One turn of the loop reads CI, then PxIS, then port_irq; the same three
\* reads, with the last mark, follow the loop.
ReadCI(t) ==
    /\ io[t].pc = "ci"
    /\ io' = [io EXCEPT ![t].ci = io[t].slot \in ci, ![t].pc = "is"]
    /\ UNCHANGED <<active, regs, table, ran, bounce, bounce_lock, disk, timeouts>>

ReadIS(t) ==
    /\ io[t].pc = "is"
    /\ io' = [io EXCEPT ![t].err = error, ![t].pc = "irq"]
    /\ UNCHANGED <<active, regs, table, ran, bounce, bounce_lock, disk, timeouts>>

Fails(t) == io[t].err \/ port_irq \/ (io[t].last /\ io[t].ci)

ReadIrq(t) ==
    /\ io[t].pc = "irq"
    /\ io' = [io EXCEPT ![t].pc = IF Fails(t) THEN "recover"
                                  ELSE IF io[t].last THEN "release"
                                  ELSE "ci",
                        ![t].last = ~io[t].ci, ![t].rc = ~Fails(t)]
    /\ UNCHANGED <<active, regs, table, ran, bounce, bounce_lock, disk, timeouts>>

\* The count runs out: the checks after the loop are made.
TimeOut(t) ==
    /\ io[t].pc = "ci" /\ ~io[t].last /\ timeouts < MaxTimeouts
    /\ timeouts' = timeouts + 1
    /\ io' = [io EXCEPT ![t].last = TRUE]
    /\ UNCHANGED <<active, regs, table, ran, bounce, bounce_lock, disk>>

\* ahci_recover_port: the stopped port forgets its commands.
Recover(t) ==
    /\ io[t].pc = "recover"
    /\ ci' = {} /\ error' = FALSE
    /\ io' = [io EXCEPT ![t].pc = "release"]
    /\ UNCHANGED <<active, port_irq, handler, table, ran, bounce, bounce_lock, disk, timeouts>>

\* ahci_release_slot.
Release(t) ==
    /\ io[t].pc = "release"
    /\ active' = active \ {io[t].slot}
    /\ io' = [io EXCEPT ![t].pc = "returned"]
    /\ UNCHANGED <<regs, table, ran, bounce, bounce_lock, disk, timeouts>>

-----------------------------------------------------------------------------
\* The interrupt: ahci_irq_handler, perhaps on another CPU, reads the status,
\* saves it and acknowledges it.

IrqRead ==
    /\ IRQ /\ handler = "off" /\ error
    /\ handler' = "read"
    /\ UNCHANGED <<io, active, ci, error, port_irq, table, ran, bounce, bounce_lock, disk, timeouts>>

IrqSave ==
    /\ handler = "read"
    /\ port_irq' = TRUE /\ handler' = "saved"
    /\ UNCHANGED <<io, active, ci, error, table, ran, bounce, bounce_lock, disk, timeouts>>

IrqAck ==
    /\ handler = "saved"
    /\ error' = FALSE /\ handler' = "off"
    /\ UNCHANGED <<io, active, ci, port_irq, table, ran, bounce, bounce_lock, disk, timeouts>>

\* The sectors of a command.
Area(c) == c.lba * SectorSize..(c.lba + c.n) * SectorSize - 1

Stored(c) ==
    IF ~c.write THEN disk
    ELSE [b \in Bytes |-> IF b \notin Area(c) THEN disk[b]
                          ELSE IF c.to = None THEN bounce[b - c.lba * SectorSize] ELSE Written(c.to)]

\* The controller carries out a command of CI.
Complete(s) ==
    LET c == table[s] IN
    /\ s \in ci /\ ~error
    /\ ci' = ci \ {s} /\ ran' = ran \cup {s}
    /\ disk' = Stored(c)
    /\ bounce' = [b \in Bytes |-> IF ~c.write /\ c.to = None /\ b < c.n * SectorSize
                                  THEN disk[c.lba * SectorSize + b] ELSE bounce[b]]
    /\ io' = IF c.write \/ c.to = None THEN io
             ELSE [io EXCEPT ![c.to].buf = [b \in Bytes |-> IF b \in Area(c) THEN disk[b] ELSE @[b]]]
    /\ UNCHANGED <<active, error, port_irq, handler, table, bounce_lock, timeouts>>

\* Or it stops with an error, with none or all of the data written; CI keeps
\* the command.
Fail(s, moved) ==
    /\ DeviceFails /\ s \in ci /\ ~error
    /\ error' = TRUE
    /\ disk' = IF moved THEN Stored(table[s]) ELSE disk
    /\ UNCHANGED <<io, active, ci, port_irq, handler, table, ran, bounce, bounce_lock, timeouts>>

Step(t) ==
    \/ Direct(t) \/ Bounce(t) \/ Returned(t) \/ Finish(t) \/ Reserve(t) \/ Refuse(t) \/ ClearIS(t)
    \/ ClearIrq(t) \/ Issue(t)
    \/ ReadCI(t) \/ ReadIS(t) \/ ReadIrq(t) \/ Recover(t) \/ Release(t)

Next ==
    \/ \E t \in Callers :
          \/ \E d \in Directions, off \in Bytes, size \in Sizes : Call(t, d = "write", off, size)
          \/ Step(t) \/ TimeOut(t)
    \/ IrqRead \/ IrqSave \/ IrqAck
    \/ \E s \in Slots : Complete(s) \/ \E moved \in BOOLEAN : Fail(s, moved)

Spec == Init /\ [][Next]_vars

-----------------------------------------------------------------------------
TypeOK ==
    /\ active \subseteq Slots /\ ci \subseteq Slots /\ ran \subseteq Slots
    /\ {error, port_irq} \subseteq BOOLEAN /\ handler \in {"off", "read", "saved"}
    /\ bounce_lock \in Callers \cup {None}
    /\ \A t \in Callers : io[t].done \in 0..io[t].size /\ io[t].slot \in Slots \cup {None}

\* ahci_command returns success only if the controller has carried out the
\* command, whichever way the interrupt handler, an error and the end of the
\* count cross: the handler saves the status before it acknowledges it, and
\* the command's bit of CI is looked at again after the loop.  With errors,
\* for one caller at a time.
SuccessMeansDone ==
    \A t \in Callers : io[t].pc = "release" /\ io[t].rc => io[t].slot \in ran

\* A command the controller may still be working on is in a slot that one
\* caller holds, with the table that caller wrote: a slot is given back only
\* after its command has left CI (ahci_reserve_slot, ahci_release_slot).
SlotOwned ==
    /\ \A t, u \in Callers :
          LET holding(x) == io[x].pc \in {"clear", "forget", "issue", "ci", "is", "irq", "recover", "release"}
          IN holding(t) /\ holding(u) /\ io[t].slot = io[u].slot => t = u
    /\ \A s \in ci : \E t \in Callers : /\ io[t].pc \in {"ci", "is", "irq", "recover"}
                                        /\ io[t].slot = s /\ io[t].cmd = table[s]

\* ahci_io_dev moves exactly the bytes it says, through the direct path, the
\* bounce buffer or both after an error: of a write that returned n, the n
\* bytes from its offset hold the caller's data and no byte outside the
\* requested range has changed; a read returned what the disk holds.
RangeExact ==
    \A t \in Callers : LET c == io[t] IN
       c.pc = "end" =>
         IF c.write
         THEN \A b \in Bytes : /\ b \in c.off..c.off + c.done - 1 => disk[b] = Written(t)
                               /\ b \notin c.off..c.off + c.size - 1 => disk[b] = b
         ELSE \A b \in c.off..c.off + c.done - 1 : c.buf[b] = b

\* Two writes to parts of one sector are both kept: the sector is read,
\* changed and written back under bounce_lock.
PartialWritesKept ==
    \A t \in Callers : io[t].pc = "end" /\ io[t].write =>
       \A b \in io[t].off..io[t].off + io[t].done - 1 : disk[b] # b
=============================================================================
