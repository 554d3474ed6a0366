------------------------------ MODULE MCFiles ------------------------------
(***************************************************************************)
(* Safety of what programs reach by name.  The directory cache, where      *)
(* files only come and go, and where they are renamed, closed and          *)
(* remounted as well.  The event streams of a keyboard, in a setting for   *)
(* their rings and one for the key repeats that readers generate.  The     *)
(* file system drivers, each below its root directory and in settings that *)
(* reach its cases: chains, trees and directories that grow, names that    *)
(* move, volumes that fill up; all drivers use the same variables.  The    *)
(* subject is chosen at the start; the others stay in an initial state, or *)
(* keep the value NoValue.                                                 *)
(***************************************************************************)
EXTENDS Sequences, TLC, DirCache

CONSTANTS r0, r1, r2, NoValue

VARIABLES subject,
          dirA, childA, negA, neg_nextA, child_seqA,                     \* the second directory cache
          disk, mem, node, full,                                         \* the file systems
          tick, life, online, down, ctrl, e0, repeat, ring, log, reader  \* Keyboard

renamed == <<dirA, childA, negA, neg_nextA, child_seqA>>
keyboard == <<tick, life, online, down, ctrl, e0, repeat, ring, log, reader>>
volume == <<disk, mem, node, full>>
allVars == <<subject, vars, renamed, keyboard, volume>>

\* The cache where every call is made, with fewer negative entries.
A == INSTANCE DirCache WITH NegEntries <- 1, MaxSeq <- 3, Closing <- TRUE, Renaming <- TRUE, Remounting <- TRUE,
                            dir <- dirA, child <- childA, neg <- negA, neg_next <- neg_nextA,
                            child_seq <- child_seqA
\* One reader of two keys, one of them a modifier, on rings that overflow.
K == INSTANCE Keyboard WITH Readers <- {r0}, Scancodes <- {"a", "c"}, BufferSize <- 2, Delay <- 1, Period <- 2,
                            Batch <- 2, Opened <- {"dev", "all"}, MaxTick <- 1, MaxLog <- 4
\* Two readers that both generate the repeats of one key.
R == INSTANCE Keyboard WITH Readers <- {r1, r2}, Scancodes <- {"a"}, BufferSize <- 1, Delay <- 1, Period <- 1,
                            Batch <- 1, Opened <- {"all"}, MaxTick <- 2, MaxLog <- 3

\* Files of two clusters, and of one with file sets of unequal length.
X1 == INSTANCE Exfat WITH Names <- {"a", "b"}, Need <- [a |-> 1, b |-> 1], Slots <- 2, Count <- 2, CellsPer <- 2,
                          MaxSize <- 3, Truncating <- FALSE
X2 == INSTANCE Exfat WITH Names <- {"a", "b"}, Need <- [a |-> 2, b |-> 3], Slots <- 7, Count <- 2, CellsPer <- 1,
                          MaxSize <- 2, Truncating <- FALSE
\* A fixed root where a long name gets the alias that is the name of the other
\* file, and a root that is a chain of one entry a cluster.
F1 == INSTANCE Vfat WITH Names <- {"a", "A1"}, Exact <- {"A1"}, Long <- [a |-> 1, A1 |-> 1], Alias <- <<"A1", "A2">>,
                         FixedRoot <- TRUE, RootSlots <- 4, Count <- 2, CellsPer <- 2, MaxSize <- 3
F2 == INSTANCE Vfat WITH Names <- {"A", "B"}, Exact <- {"A", "B"}, Long <- [A |-> 1, B |-> 1], Alias <- <<"Q">>,
                         FixedRoot <- FALSE, RootSlots <- 1, Count <- 4, CellsPer <- 1, MaxSize <- 2
\* One file with trees of depth one and two, and up to three; two files and a
\* directory that grows.
E1 == INSTANCE Ext2 WITH Names <- {"a"}, Need <- [a |-> 1], DirUnits <- 2, PerGroup <- 4, Count <- 8, NInodes <- 1,
                         Direct <- 1, Ptrs <- 2, CellsPer <- 2, MaxSize <- 5, Filling <- FALSE, FirstGone <- FALSE
E2 == INSTANCE Ext2 WITH Names <- {"a", "b"}, Need <- [a |-> 1, b |-> 2], DirUnits <- 3, PerGroup <- 3, Count <- 5,
                         NInodes <- 2, Direct <- 1, Ptrs <- 1, CellsPer <- 1, MaxSize <- 2, Filling <- FALSE,
                         FirstGone <- FALSE
E3 == INSTANCE Ext2 WITH Names <- {"a"}, Need <- [a |-> 1], DirUnits <- 2, PerGroup <- 5, Count <- 9, NInodes <- 1,
                         Direct <- 0, Ptrs <- 1, CellsPer <- 1, MaxSize <- 3, Filling <- FALSE, FirstGone <- FALSE
\* The same for Minix.
M1 == INSTANCE Minix WITH Names <- {"a"}, DirPer <- 2, Count <- 8, NInodes <- 1, Direct <- 1, Ptrs <- 2, CellsPer <- 2,
                          MaxSize <- 5
M2 == INSTANCE Minix WITH Names <- {"a", "b"}, DirPer <- 1, Count <- 6, NInodes <- 2, Direct <- 1, Ptrs <- 1,
                          CellsPer <- 1, MaxSize <- 2
M3 == INSTANCE Minix WITH Names <- {"a"}, DirPer <- 1, Count <- 10, NInodes <- 1, Direct <- 0, Ptrs <- 1,
                          CellsPer <- 1, MaxSize <- 3
\* tmpfs, with a limit, and ramfs.
T1 == INSTANCE Tmpfs WITH Names <- {"a", "b"}, Limit <- 3, Enforce <- TRUE, CellsPer <- 2, MaxSize <- 4
T2 == INSTANCE Tmpfs WITH Names <- {"a", "b"}, Limit <- 0, Enforce <- FALSE, CellsPer <- 1, MaxSize <- 2

\* The readers of key repeats are interchangeable.
Sym == Permutations({r1, r2})

InitVolume ==
    \/ subject = "exfat" /\ X1!Init
    \/ subject = "exfat sets" /\ X2!Init
    \/ subject = "fat16" /\ F1!Init
    \/ subject = "fat32" /\ F2!Init
    \/ subject = "ext2 tree" /\ E1!Init
    \/ subject = "ext2" /\ E2!Init
    \/ subject = "ext2 deep" /\ E3!Init
    \/ subject = "minix tree" /\ M1!Init
    \/ subject = "minix" /\ M2!Init
    \/ subject = "minix deep" /\ M3!Init
    \/ subject = "tmpfs" /\ T1!Init
    \/ subject = "ramfs" /\ T2!Init

NextVolume ==
    \/ subject = "exfat" /\ X1!Next
    \/ subject = "exfat sets" /\ X2!Next
    \/ subject = "fat16" /\ F1!Next
    \/ subject = "fat32" /\ F2!Next
    \/ subject = "ext2 tree" /\ E1!Next
    \/ subject = "ext2" /\ E2!Next
    \/ subject = "ext2 deep" /\ E3!Next
    \/ subject = "minix tree" /\ M1!Next
    \/ subject = "minix" /\ M2!Next
    \/ subject = "minix deep" /\ M3!Next
    \/ subject = "tmpfs" /\ T1!Next
    \/ subject = "ramfs" /\ T2!Next

NoVolume == disk = NoValue /\ mem = NoValue /\ node = NoValue /\ full = NoValue

MCInit ==
    /\ \/ subject \in {"files", "renamed files", "keyboard", "key repeats"} /\ NoVolume
       \/ InitVolume
    /\ Init /\ (subject = "files" \/ dir = [d \in Dirs |-> {}])
    /\ A!Init /\ (subject = "renamed files" \/ dirA = [d \in Dirs |-> {}])
    /\ IF subject = "keyboard" THEN K!Init ELSE R!Init

MCNext ==
    /\ UNCHANGED subject
    /\ \/ subject = "files" /\ Next /\ UNCHANGED <<renamed, keyboard, volume>>
       \/ subject = "renamed files" /\ A!Next /\ UNCHANGED <<vars, keyboard, volume>>
       \/ subject = "keyboard" /\ K!Next /\ UNCHANGED <<vars, renamed, volume>>
       \/ subject = "key repeats" /\ R!Next /\ UNCHANGED <<vars, renamed, volume>>
       \/ NextVolume /\ UNCHANGED <<vars, renamed, keyboard>>

MCSpec == MCInit /\ [][MCNext]_allVars
-----------------------------------------------------------------------------
\* No key event is lost in silence: a reader gets the events of its stream in
\* the order of their sequence numbers, and where the ring has overwritten
\* some, exactly that many are reported as dropped (ring_push, ring_pop_one).
NothingLostSilently == [][subject = "keyboard" => K!LossReported]_allVars

\* A stream of key events tells a consistent story.  The aggregate stream
\* tells of the device what the device's own stream tells, in the same order,
\* at most one announcement behind; no modifier sticks: it is set only while a
\* key for it is down; however many readers generate repeats while keys change
\* under them, each key's events are PRESSED, any number of REPEATED, RELEASED,
\* and so on; the device's are ADDED, REMOVED; no key event precedes the one or
\* follows the other; and a held key repeats no sooner than after the delay,
\* nor more often than once a period (kbd_publish, kbd_handle_key,
\* kbd_generate_one_repeat, kbd_register, kbd_unregister).
KeysTold ==
    /\ subject = "keyboard" => K!TypeOK /\ K!AggregateFollows /\ K!NoStuckModifier /\ K!KeysAlternate
    /\ subject = "key repeats" => R!KeysAlternate /\ R!RepeatsBounded

\* Every driver implements the abstract store of files: a file holds what was
\* written to it and zeroes where nothing was, whatever clusters, blocks, zones
\* or pages it reuses, whatever is renamed or unlinked, and whatever calls have
\* failed on a full volume (the write, truncate, create, unlink and rename
\* functions of the five drivers).
StoreKept ==
    [][ /\ subject = "exfat" => X1!Promise
        /\ subject = "exfat sets" => X2!Promise
        /\ subject = "fat16" => F1!Promise
        /\ subject = "fat32" => F2!Promise
        /\ subject = "ext2 tree" => E1!Promise
        /\ subject = "ext2" => E2!Promise
        /\ subject = "ext2 deep" => E3!Promise
        /\ subject = "minix tree" => M1!Promise
        /\ subject = "minix" => M2!Promise
        /\ subject = "minix deep" => M3!Promise
        /\ subject = "tmpfs" => T1!Promise
        /\ subject = "ramfs" => T2!Promise ]_allVars

\* The bitmap, table or account of a volume is exactly what its files and its
\* directory hold: nothing is in two files, nothing in use is free, the free
\* counts are true, and nothing is lost, in FAT, exFAT and ext2 as long as no
\* call has run out of space (the allocators and free functions).  And every
\* file is found under its one name, in entries that are its own, and an open
\* file agrees with its entry or inode (the directory functions).  A name that
\* is removed, renamed away or hidden by a mount is gone from the directory
\* cache as well (detach_cached_child_len, fs_mount).
VolumesExact ==
    /\ subject = "renamed files" => A!TypeOK /\ A!LookupTruth
    /\ subject = "exfat" => X1!TypeOK /\ X1!SpaceExact /\ X1!DirectoryExact
    /\ subject = "exfat sets" => X2!SpaceExact /\ X2!DirectoryExact
    /\ subject = "fat16" => F1!TypeOK /\ F1!SpaceExact /\ F1!DirectoryExact
    /\ subject = "fat32" => F2!SpaceExact /\ F2!DirectoryExact
    /\ subject = "ext2 tree" => E1!TypeOK /\ E1!SpaceExact /\ E1!DirectoryExact
    /\ subject = "ext2" => E2!SpaceExact /\ E2!DirectoryExact
    /\ subject = "ext2 deep" => E3!SpaceExact
    /\ subject = "minix tree" => M1!TypeOK /\ M1!SpaceExact
    /\ subject = "minix" => M2!SpaceExact /\ M2!DirectoryExact
    /\ subject = "minix deep" => M3!SpaceExact
    /\ subject = "tmpfs" => T1!TypeOK /\ T1!SpaceExact /\ T1!DirectoryExact
    /\ subject = "ramfs" => T2!SpaceExact
=============================================================================
