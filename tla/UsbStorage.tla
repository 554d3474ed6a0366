---------------------------- MODULE UsbStorage ----------------------------
(***************************************************************************)
(* usb_mass_storage.c: a USB disk.  disk_io turns a byte range into SCSI    *)
(* commands under the disk's busy flag; bot_scsi_cmd sends a command as     *)
(* three transfers (CBW, data, CSW) and resets the device when one fails;   *)
(* msc_unbind takes the disk away under its callers.  The other transports, *)
(* CBI and UAS, are not modelled.                                           *)
(*                                                                          *)
(* A transfer may fail before the device saw it or after (a time-out), the  *)
(* data of a write may arrive in part, and the device may refuse a command, *)
(* MaxFaults times in all.  A reset reaches a device that is plugged in.    *)
(* A disk is CellsPer cells a sector; a cell written by caller p holds      *)
(* <<p, position>>, so data that lands elsewhere shows.                     *)
(***************************************************************************)
EXTENDS Integers, Sequences, FiniteSets

CONSTANTS
    Callers,
    Calls,       \* [write, off, size] a caller may ask for
    Sectors, CellsPer,
    MaxSectors,  \* USB_MSC_IO_MAX / sector_size
    MaxFaults,
    MaxTag       \* 2^32 - 1; tags go round and skip 0

VARIABLES
    busy,        \* d->busy
    removed,     \* d->removed
    freed,       \* msc_unbind freed the disk
    tag,         \* d->tag
    pc, io,      \* where each caller is, and its locals
    disk,        \* the medium
    before,      \* the medium when the disk was last unlocked (history)
    cmd,         \* the command the device has taken
    phase,       \* what the device waits for next
    gone,        \* unplugged
    faults

vars == <<busy, removed, freed, tag, pc, io, disk, before, cmd, phase, gone, faults>>
hostVars == <<busy, removed, freed>>
devVars == <<disk, cmd, phase, faults>>

Bytes == Sectors * CellsPer
Cells == 0..(Bytes - 1)
NoIo == [write |-> FALSE, off |-> 0, size |-> 0, done |-> 0, buf |-> <<>>,
         w |-> FALSE, lba |-> 0, n |-> 0, tag |-> 0, data |-> <<>>, ok |-> FALSE]
NoCmd == [tag |-> 0, w |-> FALSE, lba |-> 0, n |-> 0]

Init ==
    /\ busy = FALSE /\ removed = FALSE /\ freed = FALSE
    /\ tag = 1
    /\ pc = [p \in Callers |-> "idle"] /\ io = [p \in Callers |-> NoIo]
    /\ disk = [c \in Cells |-> <<"old", c>>] /\ before = disk
    /\ cmd = NoCmd /\ phase = "idle"
    /\ gone = FALSE /\ faults = 0

-----------------------------------------------------------------------------
(* disk_io.                                                                *)

Smaller(a, b) == IF a < b THEN a ELSE b

\* disk_io before the lock: the first look at `removed` and the clipping of the
\* range.
Start(p, c) ==
    /\ pc[p] = "idle" /\ ~removed /\ c.off < Bytes
    /\ io' = [io EXCEPT ![p] = [NoIo EXCEPT !.write = c.write, !.off = c.off,
                                            !.size = Smaller(c.size, Bytes - c.off),
                                            !.buf = [i \in 0..(c.size - 1) |-> <<p, c.off + i>>]]]
    /\ pc' = [pc EXCEPT ![p] = "lock"]
    /\ UNCHANGED <<hostVars, devVars, tag, before, gone>>

\* lock_disk, and the second look at `removed`.  A caller that waited out the
\* unbinding reads the structure after it was freed: it still finds `removed`.
LockDisk(p) ==
    /\ pc[p] = "lock" /\ ~busy
    /\ busy' = TRUE
    /\ pc' = [pc EXCEPT ![p] = IF removed THEN "unlock" ELSE "loop"]
    /\ UNCHANGED <<removed, freed, devVars, tag, io, before, gone>>

\* One turn of the loop: which sectors, and whether through the scratch sector.
Abs(p)    == io[p].off + io[p].done
InSec(p)  == Abs(p) % CellsPer
Left(p)   == io[p].size - io[p].done
Count(p)  == IF InSec(p) # 0 \/ Left(p) < CellsPer THEN 1
             ELSE Smaller(Left(p) \div CellsPer, MaxSectors)
Chunk(p)  == Smaller(Count(p) * CellsPer - InSec(p), Left(p))
Whole(p)  == InSec(p) = 0 /\ Chunk(p) = Count(p) * CellsPer
Caller(p) == [i \in 0..(Chunk(p) - 1) |-> io[p].buf[io[p].done + i]]

\* scsi_rw: a command for n sectors from lba, with its data when it writes, and
\* the next tag.
NextTag == IF tag = MaxTag THEN 1 ELSE tag + 1
Command(p, w, n, data) ==
    /\ io' = [io EXCEPT ![p].w = w, ![p].lba = Abs(p) \div CellsPer, ![p].n = n,
                        ![p].tag = NextTag, ![p].data = data]
    /\ tag' = NextTag
    /\ pc' = [pc EXCEPT ![p] = "cbw"]

Turn(p) ==
    /\ pc[p] = "loop"
    /\ IF Left(p) = 0 THEN /\ pc' = [pc EXCEPT ![p] = "unlock"]
                           /\ UNCHANGED <<io, tag>>
       ELSE IF Whole(p) /\ io[p].write THEN Command(p, TRUE, Count(p), Caller(p))
       ELSE Command(p, FALSE, Count(p), <<>>)
    /\ UNCHANGED <<hostVars, devVars, before, gone>>

\* After a command: break when it failed; the write of a scratch sector follows
\* its read; otherwise the chunk is done.
Patched(p) == [i \in 0..(CellsPer - 1) |->
                 IF i >= InSec(p) /\ i < InSec(p) + Chunk(p)
                 THEN io[p].buf[io[p].done + i - InSec(p)] ELSE io[p].data[i]]
Taken(p) == [i \in DOMAIN io[p].buf |->
               IF ~io[p].write /\ i >= io[p].done /\ i < io[p].done + Chunk(p)
               THEN io[p].data[InSec(p) + i - io[p].done] ELSE io[p].buf[i]]
AfterCmd(p) ==
    /\ pc[p] = "after"
    /\ \/ /\ ~io[p].ok
          /\ pc' = [pc EXCEPT ![p] = "unlock"]
          /\ UNCHANGED <<io, tag>>
       \/ /\ io[p].ok /\ io[p].write /\ ~io[p].w
          /\ Command(p, TRUE, 1, Patched(p))
       \/ /\ io[p].ok /\ (io[p].write => io[p].w)
          /\ io' = [io EXCEPT ![p].done = @ + Chunk(p), ![p].buf = Taken(p)]
          /\ pc' = [pc EXCEPT ![p] = "loop"]
          /\ UNCHANGED tag
    /\ UNCHANGED <<hostVars, devVars, before, gone>>

\* unlock_disk; the caller gets `done`.
UnlockDisk(p) ==
    /\ pc[p] = "unlock"
    /\ busy' = FALSE
    /\ pc' = [pc EXCEPT ![p] = "idle"] /\ io' = [io EXCEPT ![p] = NoIo]
    /\ before' = disk
    /\ UNCHANGED <<removed, freed, devVars, tag, gone>>

-----------------------------------------------------------------------------
(* One command over the bulk-only transport.  The device, external, takes   *)
(* a command block when it is idle, then its data, then gives its status.   *)

Content(c) == [i \in 0..(c.n * CellsPer - 1) |-> disk[c.lba * CellsPer + i]]
\* The medium after the first k cells of the data of command c reached it.
StoredCells(c, data, k) ==
    [x \in Cells |-> LET i == x - c.lba * CellsPer
                     IN IF i >= 0 /\ i < k /\ i \in DOMAIN data THEN data[i] ELSE disk[x]]
Fault == faults < MaxFaults /\ faults' = faults + 1

\* Mutant: a failed transfer is reported without a reset.
NoReset == UNCHANGED <<cmd, phase>>

\* bot_reset: a device that is there forgets the command.
BotReset == IF gone THEN UNCHANGED <<cmd, phase>> ELSE cmd' = NoCmd /\ phase' = "idle"

\* A transfer of the command failed: reset, and the command returns -1.
Failed(p) ==
    /\ io' = [io EXCEPT ![p].ok = FALSE]
    /\ pc' = [pc EXCEPT ![p] = "after"]
    /\ BotReset

\* The command block, which a device still busy with another command refuses.
SendCbw(p) ==
    /\ pc[p] = "cbw"
    /\ \/ /\ ~gone /\ phase = "idle"
          /\ cmd' = [tag |-> io[p].tag, w |-> io[p].w, lba |-> io[p].lba, n |-> io[p].n]
          /\ phase' = "data"
          /\ pc' = [pc EXCEPT ![p] = "data"]
          /\ UNCHANGED <<io, faults>>
       \/ /\ gone \/ phase # "idle"
          /\ Failed(p) /\ UNCHANGED faults
       \/ ~gone /\ Fault /\ Failed(p)
    /\ UNCHANGED <<hostVars, disk, before, tag, gone>>

\* The data, which are those of the command the device has.  A transfer may
\* fail with none or some of a write stored.
Data(p) ==
    /\ pc[p] = "data"
    /\ \/ /\ ~gone /\ phase = "data" /\ cmd.w = io[p].w
          /\ phase' = "status"
          /\ disk' = IF cmd.w THEN StoredCells(cmd, io[p].data, Bytes) ELSE disk
          /\ io' = IF cmd.w THEN io ELSE [io EXCEPT ![p].data = Content(cmd)]
          /\ pc' = [pc EXCEPT ![p] = "csw"]
          /\ UNCHANGED <<cmd, faults>>
       \/ /\ gone \/ phase # "data" \/ cmd.w # io[p].w
          /\ Failed(p) /\ UNCHANGED <<disk, faults>>
       \/ /\ ~gone /\ phase = "data" /\ Fault
          /\ \E k \in 0..(cmd.n * CellsPer) :
               disk' = IF cmd.w /\ io[p].w THEN StoredCells(cmd, io[p].data, k) ELSE disk
          /\ Failed(p)
    /\ UNCHANGED <<hostVars, before, tag, gone>>

\* read_csw: good when the tag is that of the command and the status is 0; a
\* command the device failed has status 1 and needs no reset; a lost status or
\* a foreign tag does.  A read is good only when all its bytes came (scsi_rw).
TagOk(p) == cmd.tag = io[p].tag
ReadCsw(p) ==
    /\ pc[p] = "csw"
    /\ \/ /\ ~gone /\ phase = "status" /\ TagOk(p)
          /\ \/ /\ UNCHANGED faults
                /\ io' = [io EXCEPT ![p].ok =
                             io[p].w \/ DOMAIN io[p].data = 0..(io[p].n * CellsPer - 1)]
             \/ Fault /\ io' = [io EXCEPT ![p].ok = FALSE]
          /\ cmd' = NoCmd /\ phase' = "idle"
          /\ pc' = [pc EXCEPT ![p] = "after"]
       \/ /\ gone \/ phase # "status" \/ ~TagOk(p)
          /\ Failed(p) /\ UNCHANGED faults
       \/ ~gone /\ Fault /\ Failed(p)
    /\ UNCHANGED <<hostVars, disk, before, tag, gone>>

-----------------------------------------------------------------------------
(* Removal.                                                                *)

Unplug ==
    /\ ~gone /\ gone' = TRUE
    /\ UNCHANGED <<hostVars, devVars, tag, pc, io, before>>

\* msc_unbind on the worker, once the device is found gone: the disk is marked
\* and its names go, ...
Unbind ==
    /\ gone /\ ~removed
    /\ removed' = TRUE
    /\ UNCHANGED <<busy, freed, devVars, tag, pc, io, before, gone>>

\* ... then, when nobody holds it, it is freed.
UnbindFree ==
    /\ removed /\ ~freed /\ ~busy
    /\ freed' = TRUE
    /\ UNCHANGED <<busy, removed, devVars, tag, pc, io, before, gone>>

CallerStep(p) ==
    \/ \E c \in Calls : Start(p, c)
    \/ LockDisk(p) \/ Turn(p) \/ SendCbw(p) \/ Data(p) \/ ReadCsw(p) \/ AfterCmd(p)
    \/ UnlockDisk(p)

Next ==
    \/ \E p \in Callers : CallerStep(p)
    \/ Unplug \/ Unbind \/ UnbindFree

Spec == Init /\ [][Next]_vars

-----------------------------------------------------------------------------
Inside == {p \in Callers : pc[p] \in {"loop", "cbw", "data", "csw", "after", "unlock"}}

TypeOK ==
    /\ busy \in BOOLEAN /\ removed \in BOOLEAN /\ freed \in BOOLEAN /\ gone \in BOOLEAN
    /\ \A p \in Callers : io[p].done \in 0..io[p].size
    /\ phase \in {"idle", "data", "status"}

\* What disk_io reports as done is done and is all that was done: the cells a
\* read hands out are those of the medium, the cells a write reports are stored,
\* a cell outside the caller's range keeps its value through the read-modify-
\* write of a sector, and a cell inside it is old or new, through every failure
\* of a transfer and every removal.
IoExact ==
    \A p \in Callers : pc[p] = "unlock" =>
        LET o == io[p]
            sure == o.off..(o.off + o.done - 1)
            mine(c) == <<p, c>>
        IN /\ o.write  => \A c \in sure : disk[c] = mine(c)
           /\ ~o.write => \A c \in sure : o.buf[c - o.off] = disk[c]
           /\ \A c \in Cells : \/ disk[c] = before[c]
                               \/ /\ o.write /\ disk[c] = mine(c)
                                  /\ c \in o.off..(o.off + o.size - 1)

\* The device and the driver never fall out of step: whenever nobody holds
\* the disk, a plugged device is idle and ready for a new command block, so a
\* command is never taken for the data of the one before and a status block is
\* never that of an older command (bot_reset on every failed transfer, and the
\* busy flag around the three of them).  At most one caller is between the lock
\* and the unlock, and none is once the disk is freed, except to look at `removed`.
InStep ==
    /\ Cardinality(Inside) <= 1 /\ (Inside # {} <=> busy)
    /\ ~gone =>
         /\ (Inside = {} \/ \E p \in Inside : pc[p] \in {"loop", "cbw", "after", "unlock"}) =>
              phase = "idle"
         /\ \A p \in Inside : pc[p] = "csw" => TagOk(p)
    /\ freed => \A p \in Inside : pc[p] = "unlock" /\ io[p].done = 0

=============================================================================
