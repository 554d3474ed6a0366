----------------------------- MODULE MCStorage -----------------------------
(***************************************************************************)
(* Safety of the block devices and of the cache above them: the block      *)
(* cache with two threads, with long reads and errors, and under unmounts; *)
(* a virtio disk with one caller and with two; a SATA disk with one caller *)
(* and errors, and with two.  The subject is chosen at the start; the      *)
(* others stay in an initial state.                                        *)
(***************************************************************************)
EXTENDS Integers, Sequences, FiniteSets

CONSTANTS t1, t2, e1, e2, None

VARIABLES subject,
          dev, entry, lru, free, call,                                                  \* BlockCache
          disk, bounce, req, status, avail, used, last_used, request_busy, done, isr,
          vdev, vcall, timeouts,                                                        \* VirtioBlk
          io, active, ci, error, port_irq, handler, table, ran, sbounce, bounce_lock,
          sdisk, stimeouts                                                              \* Ahci

cache == <<dev, entry, lru, free, call>>
virtio == <<disk, bounce, req, status, avail, used, last_used, request_busy, done, isr, vdev, vcall, timeouts>>
sata == <<io, active, ci, error, port_irq, handler, table, ran, sbounce, bounce_lock, sdisk, stimeouts>>
vars == <<subject, cache, virtio, sata>>

\* Two threads that read and write single blocks, more blocks than entries.
B1 == INSTANCE BlockCache WITH Threads <- {t1, t2}, Entries <- {e1, e2}, Blocks <- {0, 1, 2}, MaxRun <- 1,
                               MaxWrites <- 1, Readahead <- 2, DirectMin <- 3, DeviceFails <- FALSE, Unmounts <- FALSE
\* Reads of runs, that fail, between unmounts.
B2 == INSTANCE BlockCache WITH Threads <- {t1, t2}, Entries <- {e1, e2}, Blocks <- {0, 1, 2}, MaxRun <- 2,
                               MaxWrites <- 0, Readahead <- 2, DirectMin <- 3, DeviceFails <- TRUE, Unmounts <- TRUE
\* One thread with the longest reads.
B3 == INSTANCE BlockCache WITH Threads <- {t1}, Entries <- {e1, e2}, Blocks <- {0, 1, 2, 3}, MaxRun <- 4,
                               MaxWrites <- 1, Readahead <- 2, DirectMin <- 3, DeviceFails <- TRUE, Unmounts <- TRUE
\* One caller of a disk of three sectors, and two of a disk of one.
V1 == INSTANCE VirtioBlk WITH Callers <- {1}, SectorSize <- 2, Sectors <- 3, MaxTransfer <- 4, IndexRange <- 3,
                              IRQ <- TRUE, DeviceFails <- TRUE, MaxTimeouts <- 0, dev <- vdev, call <- vcall
V2 == INSTANCE VirtioBlk WITH Callers <- {1, 2}, SectorSize <- 2, Sectors <- 1, MaxTransfer <- 2, IndexRange <- 3,
                              IRQ <- TRUE, DeviceFails <- TRUE, MaxTimeouts <- 0, dev <- vdev, call <- vcall
\* One caller of a disk that fails and falls silent, and two of one that works,
\* which write parts of a sector.
S1 == INSTANCE Ahci WITH Callers <- {1}, SectorSize <- 2, Sectors <- 3, MaxTransfer <- 4, Slots <- {0, 1},
                         Sizes <- 1..5, Directions <- {"read", "write"}, IRQ <- TRUE, DeviceFails <- TRUE,
                         MaxTimeouts <- 1, bounce <- sbounce, disk <- sdisk, timeouts <- stimeouts
S2 == INSTANCE Ahci WITH Callers <- {1, 2}, SectorSize <- 2, Sectors <- 1, MaxTransfer <- 2, Slots <- {0, 1},
                         Sizes <- {1}, Directions <- {"read", "write"}, IRQ <- TRUE, DeviceFails <- FALSE,
                         MaxTimeouts <- 0, bounce <- sbounce, disk <- sdisk, timeouts <- stimeouts
\* Two callers of one sector, which they move in whole, each in a slot, or in part.
S3 == INSTANCE Ahci WITH Callers <- {1, 2}, SectorSize <- 2, Sectors <- 1, MaxTransfer <- 2, Slots <- {0, 1},
                         Sizes <- {2}, Directions <- {"read", "write"}, IRQ <- TRUE, DeviceFails <- FALSE,
                         MaxTimeouts <- 0, bounce <- sbounce, disk <- sdisk, timeouts <- stimeouts

Init ==
    /\ subject \in {"cache", "cache errors", "cache runs", "virtio", "shared virtio", "sata", "shared sata",
                    "sata slots"}
    /\ IF subject = "cache runs" THEN B3!Init ELSE B1!Init
    /\ free = <<e1, e2>>
    /\ IF subject = "virtio" THEN V1!Init ELSE V2!Init
    /\ IF subject = "sata" THEN S1!Init ELSE IF subject = "shared sata" THEN S2!Init ELSE S3!Init

Next ==
    /\ UNCHANGED subject
    /\ \/ subject = "cache" /\ B1!Next /\ UNCHANGED <<virtio, sata>>
       \/ subject = "cache errors" /\ B2!Next /\ UNCHANGED <<virtio, sata>>
       \/ subject = "cache runs" /\ B3!Next /\ UNCHANGED <<virtio, sata>>
       \/ subject = "virtio" /\ V1!Next /\ UNCHANGED <<cache, sata>>
       \/ subject = "shared virtio" /\ V2!Next /\ UNCHANGED <<cache, sata>>
       \/ subject = "sata" /\ S1!Next /\ UNCHANGED <<cache, virtio>>
       \/ subject = "shared sata" /\ S2!Next /\ UNCHANGED <<cache, virtio>>
       \/ subject = "sata slots" /\ S3!Next /\ UNCHANGED <<cache, virtio>>

Spec == Init /\ [][Next]_vars
-----------------------------------------------------------------------------
\* Cached data is the device's, except between the two halves of a write of
\* the block, and the lists and the hash of the block cache agree, whoever
\* evicts, invalidates or fails to load meanwhile; and no read returns data
\* older than the last write that was complete when the read began, also when
\* it is served from the device, the cache and a batch of blocks in turn
\* (cached_block_write, block_cache_invalidate, block_cache_pick_locked,
\* block_cache_install_read_run, cached_block_read).
Coherent ==
    /\ subject = "cache" => B1!TypeOK /\ B1!Coherent /\ B1!FreshReads
    /\ subject = "cache errors" => B2!Structure
    /\ subject = "cache runs" => B3!FreshReads

\* virtio_rw and ahci_io_dev move exactly the bytes they say: of a write that
\* returned n, the n bytes from its offset hold the caller's data, no byte
\* outside the requested range has changed (the read-modify-write of partial
\* sectors included), and what a read returned is what the disk held; and
\* virtio_rw returns less than it was asked for only after an error.  Of two
\* writes to parts of one sector of a SATA disk both are kept.
RangeExact ==
    /\ subject = "virtio" => V1!TypeOK /\ V1!RangeExact /\ V1!ShortOnlyOnError
    /\ subject = "sata" => S1!TypeOK /\ S1!RangeExact
    /\ subject = "shared sata" => S2!PartialWritesKept

\* ahci_command returns success only if the controller has carried out the
\* command, whichever way the interrupt handler, an error and the end of the
\* count cross (with errors, for one caller at a time); and a command the
\* controller may still be working on is in a slot that one caller holds, with
\* the table that caller wrote (ahci_reserve_slot, ahci_release_slot).  The
\* descriptors the virtio device works from are never rewritten under it, and
\* between requests the driver's index, the published one and the device's
\* agree, so that no request takes an old answer for its own, after a failed
\* request as well (virtio_wait_turn, virtio_cmd).
CommandsOwned ==
    /\ subject = "shared virtio" => V2!RequestStable /\ V2!RingInStep
    /\ subject = "sata" => S1!SuccessMeansDone /\ S1!SlotOwned
    /\ subject = "sata slots" => S3!SuccessMeansDone /\ S3!SlotOwned
=============================================================================
