----------------------------- MODULE MCMachine ------------------------------
(***************************************************************************)
(* Safety of the kernel below its tasks.  The allocators: the boot-time    *)
(* memory map, the buddy allocator, the windows for kernel stacks and      *)
(* MMIO, and the slab heap.  The list of a program's areas.  The module    *)
(* loader.  The USB stack: devices that come and go behind hubs, the       *)
(* transfers of the three host controllers, and a USB disk.  The partition *)
(* tables of a disk.  The subject is chosen at the start; the others stay  *)
(* in an initial state, and no memory map is read.                         *)
(***************************************************************************)
EXTENDS Integers, Sequences

CONSTANTS c1, c2, p1, p2, p3, p4, NoValue

VARIABLES subject,
          mmap, reserved, done, freed, managed, deferred, direct, late,     \* PmmBoot
          m, ref, users, blocks, zero,                                      \* Pmm
          segs, mapped, live, op,                                           \* KernelStack
          hdr, partial, full, heap_cache, early, large, held, hop,          \* SlabHeap
          areas, amapped, brk, hint, refused,                               \* VmAreas
          used, ranges, map, syms, list, lpc, cur, lqueue, running, loads, refs,        \* ModuleLoader
          phys, plugs, irq, delayed, queue, stack, dev, devices, bitmap, next, drivers,
          walk, tpc, pipes, polling,                                        \* UsbCore
          xpc, xf, mem, xbusy, link, frame, hwA, hwP, ase, halted, dead, slot, dtog,
          off, stage, res, calls, xfaults,                                  \* Ehci, UsbCompanion
          busy, removed, sfreed, tag, spc, sio, disk, before, cmd, phase, gone, faults, \* UsbStorage
          mbr, ghdr, ppc, i, ext, logical, parts, read, io                  \* Partitions

boot == <<mmap, reserved, done, freed, managed, deferred, direct, late>>
pmm == <<m, ref, users, blocks, zero>>
window == <<segs, mapped, live, op>>
heap == <<hdr, partial, full, heap_cache, early, large, held, hop>>
area == <<areas, amapped, brk, hint, refused>>
loader == <<used, ranges, map, syms, list, lpc, cur, lqueue, running, loads, refs>>
usb == <<phys, plugs, irq, delayed, queue, stack, dev, devices, bitmap, next, drivers, walk, tpc, pipes, polling>>
ehci == <<xpc, xf, mem, xbusy, link, frame, hwA, hwP, ase, halted, dead, slot, dtog, off, stage, res, calls, xfaults>>
msc == <<busy, removed, sfreed, tag, spc, sio, disk, before, cmd, phase, gone, faults>>
table == <<mbr, ghdr, ppc, i, ext, logical, parts, read, io>>
memory == <<boot, pmm, window, heap>>
devs == <<usb, ehci, msc, table>>
vars == <<subject, memory, area, loader, devs>>

B == INSTANCE PmmBoot WITH PAGE <- 2, LOW <- 4, EARLY <- 10, TRAMPOLINE <- 2, TARGET <- 2, MIN_ORDER <- 1,
                           MAX_ORDER_LIMIT <- 2, Edges <- {0, 3, 5, 9, 12, 14}, Cuts <- {0, 3, 6, 8, 11},
                           Entries <- 3
\* Drivers ask for an inner range of addresses and for the low half of memory.
P == INSTANCE Pmm WITH Start <- 2, End <- 10, MaxOrder <- 2, LEAF <- 4, RADIX <- 2, LEVELS <- 2, MaxUsers <- 2,
                       Windows <- {<<5, 9>>, <<2, 6>>}
\* Kernel stacks, with a guard page each, and MMIO windows, without.
K == INSTANCE KernelStack WITH CPUs <- {c1, c2}, BASE <- 1, SIZE <- 13, Sizes <- {1, 2, 3}, GUARD <- 1, MAX_SEGS <- 6
W == INSTANCE KernelStack WITH CPUs <- {c1, c2}, BASE <- 1, SIZE <- 7, Sizes <- {1, 2, 3}, GUARD <- 0, MAX_SEGS <- 6
H == INSTANCE SlabHeap WITH CPUs <- {c1}, Pages <- {p1, p2, p3, p4}, SLOTS <- 2, op <- hop, None <- NoValue
\* Room for three mappings between the heap and the stack; some addresses and
\* lengths are not whole pages.
V == INSTANCE VmAreas WITH PageSize <- 2, HeapPage <- 2, MmapMin <- 4, MmapWindow <- 4, StackPage <- 9, TopPage <- 12,
                           MaxAreas <- 6, Addrs <- {0, 4, 5, 7, 8, 9, 10, 12, 14, 15, 16, 18, 24}, Sizes <- {1, 4},
                           Kinds <- {"ANON"}, mapped <- amapped

\* Module files: one that others need, one with an empty section, one that has
\* a page writable and executable, one whose init fails and that exports the
\* symbol of the first.
Sec(n, w, x) == [size |-> n, w |-> w, x |-> x]
ModuleFiles == {
    [name |-> "a", secs |-> <<Sec(3, FALSE, TRUE), Sec(1, TRUE, FALSE)>>, imports |-> {"k"}, exports |-> {"s"},
     init |-> "ok", start |-> "none"],
    [name |-> "b", secs |-> <<Sec(2, FALSE, TRUE), Sec(0, TRUE, FALSE)>>, imports |-> {"s"}, exports |-> {"t"},
     init |-> "none", start |-> "ok"],
    [name |-> "c", secs |-> <<Sec(1, FALSE, FALSE), Sec(1, TRUE, TRUE)>>, imports |-> {"k", "t"}, exports |-> {},
     init |-> "ok", start |-> "ok"],
    [name |-> "d", secs |-> <<Sec(2, FALSE, TRUE)>>, imports |-> {}, exports |-> {"s"},
     init |-> "fails", start |-> "ok"]}
M == INSTANCE ModuleLoader WITH Files <- ModuleFiles, KernelSyms <- {"k"}, PageSize <- 2, PhysPages <- 5,
                                VirtPages <- 5, MaxLoads <- 4, pc <- lpc, queue <- lqueue

\* Two root ports, and one with more plugging behind its hub.
U1 == INSTANCE UsbCore WITH RootPorts <- {1, 2}, MaxDevs <- 3, MaxAddr <- 3, MaxPlugs <- 2
U2 == INSTANCE UsbCore WITH RootPorts <- {1}, MaxDevs <- 3, MaxAddr <- 3, MaxPlugs <- 4
E == INSTANCE Ehci WITH Users <- {"u1", "u2"}, EpOf <- [u \in {"u1", "u2"} |-> u], MaxPackets <- 2, MaxCalls <- 3,
                        MaxFaults <- 1, pc <- xpc, busy <- xbusy, faults <- xfaults
Cu == INSTANCE UsbCompanion WITH Hc <- "uhci", Users <- {"u1", "u2"}, MaxPackets <- 2, MaxCalls <- 2, MaxFaults <- 1,
                                 pc <- xpc, busy <- xbusy, faults <- xfaults, head <- link, hw <- hwA
Co == INSTANCE UsbCompanion WITH Hc <- "ohci", Users <- {"u1", "u2"}, MaxPackets <- 2, MaxCalls <- 2, MaxFaults <- 1,
                                 pc <- xpc, busy <- xbusy, faults <- xfaults, head <- link, hw <- hwA
\* Two callers, and one with every kind of range.
Ask(w, o, n) == [write |-> w, off |-> o, size |-> n]
D1 == INSTANCE UsbStorage WITH Callers <- {p1, p2}, Calls <- {Ask(FALSE, 0, 4), Ask(TRUE, 1, 2)}, Sectors <- 2,
                               CellsPer <- 2, MaxSectors <- 2, MaxFaults <- 1, MaxTag <- 3, pc <- spc, io <- sio,
                               freed <- sfreed
D2 == INSTANCE UsbStorage WITH Callers <- {p1}, Calls <- {Ask(w, o, n) : w \in BOOLEAN, o \in {0, 1}, n \in {1, 2, 4}},
                               Sectors <- 2, CellsPer <- 2, MaxSectors <- 1, MaxFaults <- 1, MaxTag <- 3, pc <- spc,
                               io <- sio, freed <- sfreed
\* Entries that are sound, that overlap, that leave the disk or the extended
\* partition, that point back, and one whose end wraps.
Entry(t, s, n) == [type |-> t, start |-> s, count |-> n]
BootEntries == {Entry("empty", 0, 0), Entry("empty", 1, 0), Entry("plain", 1, 1), Entry("plain", 6, 3),
                Entry("extended", 2, 5), Entry("extended", 6, 2), Entry("protective", 1, 7)}
ChainEntries == {Entry("empty", 0, 0), Entry("plain", 1, 1), Entry("plain", 0, 1), Entry("plain", 3, 2),
                 Entry("extended", 1, 1), Entry("extended", 2, 2), Entry("extended", 2, 15)}
T == INSTANCE Partitions WITH Driver <- "ahci", Sectors <- 8, Word <- 16, Slots <- 2, GptSlots <- 2,
                              Lbas <- {1, 2, 5, 6, 7}, Boot <- BootEntries, Record <- ChainEntries, MaxChain <- 3,
                              MaxIo <- 3, hdr <- ghdr, pc <- ppc
Tu == INSTANCE Partitions WITH Driver <- "usb", Sectors <- 8, Word <- 16, Slots <- 2, GptSlots <- 2, Lbas <- {1, 5, 7, 9},
                               Boot <- BootEntries, Record <- {}, MaxChain <- 0, MaxIo <- 3, hdr <- ghdr, pc <- ppc

NoMap ==
    /\ mmap = <<>> /\ reserved = <<>> /\ done = 0 /\ freed = <<>> /\ managed = 0
    /\ deferred = <<>> /\ direct = <<>> /\ late = FALSE

NoTable == /\ mbr = <<>> /\ ghdr = NoValue /\ ppc = "start" /\ i = 1 /\ ext = NoValue /\ logical = 5
           /\ parts = <<>> /\ read = <<>> /\ io = NoValue

Init ==
    /\ subject \in {"memory map", "pages", "kernel stacks", "windows", "heap", "areas", "modules", "ports", "hub",
                    "ehci", "uhci", "ohci", "usb disk, two callers", "usb disk", "partitions", "usb partitions"}
    /\ IF subject = "memory map" THEN B!Init ELSE NoMap
    /\ P!Init /\ H!Init
    /\ IF subject = "windows" THEN W!Init ELSE K!Init
    /\ V!Init /\ (subject # "areas" => hint = 4)
    /\ M!Init
    /\ IF subject = "ports" THEN U1!Init ELSE U2!Init
    /\ CASE subject = "uhci" -> Cu!Init /\ hwP = NoValue /\ ase = FALSE
         [] subject = "ohci" -> Co!Init /\ hwP = NoValue /\ ase = FALSE
         [] OTHER -> E!Init
    /\ IF subject = "usb disk" THEN D2!Init ELSE D1!Init
    /\ CASE subject = "partitions" -> T!Init
         [] subject = "usb partitions" -> Tu!Init
         [] OTHER -> NoTable

NextMemory ==
    /\ UNCHANGED <<area, loader, devs>>
    /\ \/ subject = "memory map" /\ B!Next /\ UNCHANGED <<pmm, window, heap>>
       \/ subject = "pages" /\ P!Next /\ UNCHANGED <<boot, window, heap>>
       \/ subject = "kernel stacks" /\ K!Next /\ UNCHANGED <<boot, pmm, heap>>
       \/ subject = "windows" /\ W!Next /\ UNCHANGED <<boot, pmm, heap>>
       \/ subject = "heap" /\ H!Next /\ UNCHANGED <<boot, pmm, window>>

NextDevice ==
    /\ UNCHANGED <<memory, area, loader>>
    /\ \/ subject = "ports" /\ U1!Next /\ UNCHANGED <<ehci, msc, table>>
       \/ subject = "hub" /\ U2!Next /\ UNCHANGED <<ehci, msc, table>>
       \/ subject = "ehci" /\ E!Next /\ UNCHANGED <<usb, msc, table>>
       \/ subject = "uhci" /\ Cu!Next /\ UNCHANGED <<hwP, ase, usb, msc, table>>
       \/ subject = "ohci" /\ Co!Next /\ UNCHANGED <<hwP, ase, usb, msc, table>>
       \/ subject = "usb disk, two callers" /\ D1!Next /\ UNCHANGED <<usb, ehci, table>>
       \/ subject = "usb disk" /\ D2!Next /\ UNCHANGED <<usb, ehci, table>>
       \/ subject = "partitions" /\ T!Next /\ UNCHANGED <<usb, ehci, msc>>
       \/ subject = "usb partitions" /\ Tu!Next /\ UNCHANGED <<usb, ehci, msc>>

Next ==
    /\ UNCHANGED subject
    /\ \/ NextMemory
       \/ NextDevice
       \/ subject = "areas" /\ V!Next /\ UNCHANGED <<memory, loader, devs>>
       \/ subject = "modules" /\ M!Next /\ UNCHANGED <<memory, area, devs>>

Spec == Init /\ [][Next]_vars
-----------------------------------------------------------------------------
\* Whatever the entries and reservations of the memory map, exactly the whole
\* free pages end up in the allocator, each once though entries may overlap,
\* the page of the AP trampoline never; the sizing pass counts what the
\* freeing pass frees; and no page is written before the direct map, which in
\* the end covers them all, has it (free_with_reservation).  From then on
\* every page is free in one block, held by clients or metadata, and no two
\* of them; its count is the references that clients hold; two free buddies
\* are always merged; and the cached summaries of the free lists are what the
\* lists hold (alloc, free, ref_page, unref_page).
PagesExact ==
    /\ subject = "memory map" =>
        /\ B!TypeOK /\ B!ExactlyTheFreePages /\ B!PushedOnce /\ B!TrampolineFree /\ B!SizingMatches
        /\ B!EarlyWritesMapped /\ B!DirectMapCovers
    /\ subject = "pages" => P!TypeOK /\ P!EveryPageOnce /\ P!CountsExact /\ P!FullyMerged /\ P!CachesExact

\* The segments of a window tile it, no two neighbours are free, the used
\* ones are handed out or being set up, and exactly the usable pages of what
\* is handed out are mapped, guard pages never, also after memory ran out
\* half way (alloc_kernel_stack, map_mmio and their frees).
WindowsExact ==
    /\ subject = "kernel stacks" => K!TypeOK /\ K!Tiles /\ K!Coalesced /\ K!HeldExactly /\ K!MappedExactly
    /\ subject = "windows" => W!HeldExactly /\ W!MappedExactly

\* On one CPU every slot of a slab is free once or in one caller's hands, the
\* full and the partial list hold the slabs they are named for, and the slab a
\* CPU allocates from is a live slab of the cache (heap.cpp).
SlabsExact ==
    subject = "heap" => H!TypeOK /\ H!SlotsExact /\ H!FullSlabsFull /\ H!PartialSlabsFree /\ H!OwnSlabLive

\* After any calls of mmap, munmap and brk the list of areas and the page
\* tables tell the same story, a fork's copy of the list is the list, and an
\* mmap that leaves the place to the kernel fails only when the window has no
\* gap of that size (sys_mmap, sys_munmap, sys_brk, clone_vmas).
AreasExact == subject = "areas" => V!TypeOK /\ V!AreasExact /\ V!MmapFindsRoom

\* A load lands whole or leaves no trace; the pages of a module are its own and
\* never writable and executable at once; what its relocations point to stays
\* loaded; and a module's state only goes forward, its start after a good init
\* (load_module, module_start_work).
ModulesExact ==
    /\ [](subject = "modules" => M!TypeOK /\ M!LoadsExact /\ M!CodeSafe)
    /\ M!StateForward

\* Devices plugged and unplugged at any moment never mix up: the address bitmap
\* is what devices and enumerations hold, an address is answered by the device
\* that the list has for it or by none, and the list is a forest of sockets.  No
\* plugging is slept through: while a socket and the list differ a scan of it
\* is to come, whatever scan is under way; and a device and the driver of its
\* class find each other, whichever comes first (enumerate_device,
\* remove_device_tree, hub_scan, usb_hcd_schedule_scan, usb_driver_register).
UsbTreeExact ==
    /\ subject = "ports" =>
         U1!TypeOK /\ U1!AddressesExact /\ U1!AnswersOwn /\ U1!ForestKept /\ U1!ChangeNoticed /\ U1!DriversMeet
    /\ subject = "hub" =>
         U2!TypeOK /\ U2!AddressesExact /\ U2!AnswersOwn /\ U2!ForestKept /\ U2!ChangeNoticed /\ U2!DriversMeet

\* A host controller never works in memory that was freed, after time-outs,
\* errors and failed probes as well; one transfer is on its schedules at a
\* time, and one that is reported complete is; and the toggles of driver and
\* device agree where no transfer has failed half-way (run_async_transfer and
\* ehci_recover_async, run_transfer of uhci.c and of ohci.c, the probes).
HostsOwned ==
    /\ subject = "ehci" => E!TypeOK /\ E!DmaOwned /\ E!OneAtATime /\ E!TogglesAgree
    /\ subject = "uhci" => Cu!TypeOK /\ Cu!DmaOwned /\ Cu!CompleteIsWhole /\ Cu!TogglesAgree
    /\ subject = "ohci" => Co!TypeOK /\ Co!DmaOwned /\ Co!CompleteIsWhole /\ Co!TogglesAgree

\* disk_io has done what it reports and nothing else, through failed transfers
\* and removals, and between two commands the device waits for a new one
\* (disk_io, bot_scsi_cmd, msc_unbind).
UsbDiskExact ==
    /\ subject = "usb disk, two callers" => D1!TypeOK /\ D1!IoExact /\ D1!InStep
    /\ subject = "usb disk" => D2!TypeOK /\ D2!IoExact /\ D2!InStep

\* Whatever the tables of a disk hold, the partitions registered lie on it, on
\* an AHCI disk those of one table apart from one another; a transfer stays in its
\* partition, a chain of boot records is never followed round, and a valid table
\* is read whole (ahci_scan_gpt, ahci_scan_mbr, ahci_scan_ebr, ahci_part_io; scan_mbr and
\* scan_gpt of usb_mass_storage.c).
PartitionsSound ==
    /\ subject = "partitions" =>
         T!ConstantsOK /\ T!IInv /\ T!TypeOK /\ T!PartitionsSound /\ T!ChainsEnd /\ T!TablesRead
    /\ subject = "usb partitions" =>
         Tu!ConstantsOK /\ Tu!IInv /\ Tu!TypeOK /\ Tu!PartitionsSound /\ Tu!TablesRead
=============================================================================
