-------------------------------- MODULE Vfat --------------------------------
(***************************************************************************)
(* The FAT driver (module/vfat/src/vfat.c) below its root directory, which *)
(* is a fixed table (FAT12, FAT16) or a chain of clusters (FAT32).  A call *)
(* is one step: one caller at a time, on a device that does not fail; the  *)
(* volume may be full.  A file is unlinked or renamed only while it is     *)
(* closed.  The one-sector cache of the FAT, which every write to the FAT  *)
(* drops, is not told apart from the FAT.                                  *)
(***************************************************************************)
EXTENDS Integers, Sequences, FiniteSets, FiniteSetsExt

CONSTANTS Names,
          Exact,       \* the names that are valid short names as they stand
          Long,        \* long-name slots of a name, when it needs them
          Alias,       \* the short names generated for the others, in order
          FixedRoot,   \* FAT12 or FAT16
          RootSlots,   \* entries of the fixed root, or of one directory cluster
          Count,       \* cluster_count
          CellsPer,    \* units of data in a cluster
          MaxSize      \* bound on the size of a file

VARIABLES disk,   \* fat, data; slot: "end", "free" or "set"; entry: the file of a name
          mem,    \* next_free_cluster and free_clusters
          node,   \* vfat_node of the open files
          full    \* history: an allocation has failed

vars == <<disk, mem, node, full>>

First == 2
Clusters == First .. First + Count - 1    \* cluster_valid
Cells == 0 .. CellsPer - 1
EOC == First + Count
Unknown == -1                             \* free_count_valid is 0
Zeros == [k \in Cells |-> 0]
Old == [k \in Cells |-> -1]               \* the bytes of a free cluster, whatever they are
Absent == [index |-> -1, slots |-> 0, sfn |-> "none", first |-> 0, size |-> 0]
Closed == [open |-> FALSE, first |-> 0, size |-> 0]

Has(d, n) == d.entry[n].index >= 0

-----------------------------------------------------------------------------
\* Chains.  A volume in the middle of a call is a record of disk and mem.

\* chain_cluster_at without alloc, by fat_next: 0 behind the end.
At(fat, first, i) ==
    LET at[j \in 0..i] == IF j = 0 THEN first
                          ELSE IF at[j - 1] \in Clusters /\ fat[at[j - 1]] # EOC THEN fat[at[j - 1]] ELSE 0
    IN at[i]

Chain(fat, first) == {At(fat, first, i) : i \in 0..Count - 1} \cap Clusters
Length(fat, first) == Cardinality(Chain(fat, first))

Unused(d) == {c \in Clusters : d.fat[c] = 0}
CanAlloc(v) == Unused(v.d) # {} /\ v.m.free # 0

\* fat_scan_free_range from next_free_cluster on, then from the start.
FreeCluster(v) ==
    LET above == {c \in Unused(v.d) : c >= v.m.hint}
    IN Min(IF above # {} THEN above ELSE Unused(v.d))

\* fat_alloc_cluster: the end of a chain, zeroed.
Alloc(v) ==
    LET c == FreeCluster(v)
    IN [v EXCEPT !.d.fat[c] = EOC, !.d.data[c] = Zeros,
                 !.m.hint = IF c + 1 \in Clusters THEN c + 1 ELSE First,
                 !.m.free = IF @ > 0 THEN @ - 1 ELSE @]

\* fat_free_chain.
FreeChain(v, first) ==
    LET C == Chain(v.d.fat, first)
    IN [v EXCEPT !.d.fat = [c \in Clusters |-> IF c \in C THEN 0 ELSE @[c]],
                 !.d.data = [c \in Clusters |-> IF c \in C THEN Old ELSE @[c]],
                 !.m.hint = Min(C \cup {@}), !.m.free = IF @ = Unknown THEN @ ELSE @ + Cardinality(C)]

\* chain_cluster_at and vfat_next_cluster with alloc: the chain is made want
\* clusters long, as far as there is space; every new cluster is linked before
\* the next is looked for.
Grow(v, first, want) ==
    LET g[i \in 0..want] ==
          IF i = 0 THEN [v |-> v, first |-> first]
          ELSE LET p == g[i - 1]
                   c == FreeCluster(p.v)
               IN IF Length(p.v.d.fat, p.first) >= i \/ ~CanAlloc(p.v) THEN p
                  ELSE IF p.first = 0 THEN [v |-> Alloc(p.v), first |-> c]
                  ELSE [p EXCEPT !.v = [Alloc(p.v) EXCEPT !.d.fat[At(p.v.d.fat, p.first, i - 2)] = c]]
    IN g[want]

\* vfat_read, of the whole file.
Contents(d, f) ==
    [p \in 1..f.size |-> d.data[At(d.fat, f.first, (p - 1) \div CellsPer)][(p - 1) % CellsPer]]

\* The units P of the chain, as vfat_write leaves them.
Put(d, first, P) ==
    LET new(c, k) == {p \in P : <<At(d.fat, first, p \div CellsPer), p % CellsPer>> = <<c, k>>}
    IN [d EXCEPT !.data = [c \in Clusters |-> [k \in Cells |->
                             IF new(c, k) = {} THEN @[c][k] ELSE 1 + CHOOSE p \in new(c, k) : TRUE]]]

-----------------------------------------------------------------------------
\* The directory.

\* scan_dir finds the entry of n: it ends at the first "end".
Found(d, n) == Has(d, n) /\ \A i \in 0..d.entry[n].index : d.slot[i] # "end"

\* sfn_exists.
Taken(d, s) == \E m \in Names : Found(d, m) /\ d.entry[m].sfn = s

\* make_sfn.
Short(d, n) ==
    IF n \in Exact /\ ~Taken(d, n) THEN n
    ELSE Alias[Min({k \in DOMAIN Alias : ~Taken(d, Alias[k])})]

\* build_name_entries: the long-name slots and the short entry.
SlotsOf(n, s) == IF s = n THEN 1 ELSE Long[n] + 1

\* Runs of unused entries; in a directory of clusters, within one cluster.
Runs(d, k) ==
    {i \in 0..Cardinality(DOMAIN d.slot) - k :
        /\ \A j \in i..i + k - 1 : d.slot[j] # "set"
        /\ FixedRoot \/ i \div RootSlots = (i + k - 1) \div RootSlots}

RootCluster == First
RootChain(d) == IF FixedRoot THEN {} ELSE Chain(d.fat, RootCluster)

\* dir_find_free_fixed, dir_find_free_chain: where k entries go, -1 if
\* nowhere; a directory of clusters is given one more.
Room(v, k) ==
    IF Runs(v.d, k) # {} THEN [v |-> v, at |-> Min(Runs(v.d, k))]
    ELSE IF FixedRoot \/ ~CanAlloc(v) THEN [v |-> v, at |-> -1]
    ELSE LET g == Grow(v, RootCluster, Length(v.d.fat, RootCluster) + 1).v
             n == Cardinality(DOMAIN v.d.slot)
         IN [v |-> [g EXCEPT !.d.slot = [i \in 0..n + RootSlots - 1 |-> IF i < n THEN @[i] ELSE "end"]], at |-> n]

\* dir_write_entries and dir_mark_deleted.
Marked(s, i, k, x) == [j \in DOMAIN s |-> IF j \in i..i + k - 1 THEN x ELSE s[j]]

\* The volume with an entry for n, made of f, at r.at.
Entered(r, n, s, f) ==
    [r.v.d EXCEPT !.slot = Marked(@, r.at, SlotsOf(n, s), "set"),
                  !.entry[n] = [f EXCEPT !.index = r.at, !.slots = SlotsOf(n, s), !.sfn = s]]

Deleted(d, n) ==
    [d EXCEPT !.slot = Marked(@, d.entry[n].index, d.entry[n].slots, "free"), !.entry[n] = Absent]

-----------------------------------------------------------------------------
V == [d |-> disk, m |-> mem]

\* vfat_create (sys_open with O_CREAT): the new file is opened.
Create(n) ==
    LET s == Short(disk, n)
        r == Room(V, SlotsOf(n, s))
    IN /\ ~Found(disk, n)
       /\ mem' = r.v.m
       /\ full' = (full \/ r.at = -1)
       /\ IF r.at = -1
          THEN disk' = r.v.d /\ UNCHANGED node
          ELSE /\ disk' = Entered(r, n, s, Absent)
               /\ node' = IF Found(disk', n) THEN [node EXCEPT ![n] = [Closed EXCEPT !.open = TRUE]] ELSE node

\* vfat_finddir, make_vnode.
Open(n) ==
    /\ Found(disk, n) /\ ~node[n].open
    /\ node' = [node EXCEPT ![n] = [open |-> TRUE, first |-> disk.entry[n].first, size |-> disk.entry[n].size]]
    /\ UNCHANGED <<disk, mem, full>>

Close(n) ==
    /\ node[n].open
    /\ node' = [node EXCEPT ![n] = Closed]
    /\ UNCHANGED <<disk, mem, full>>

\* update_entry.
Saved(d, n, f) == [d EXCEPT !.entry[n].first = f.first, !.entry[n].size = f.size]

\* vfat_write: chain_cluster_at up to the offset, then cluster by cluster.
Write(n, off, len) ==
    LET g == Grow(V, node[n].first, (off + len - 1) \div CellsPer + 1)
        space == Length(g.v.d.fat, g.first) * CellsPer
        done == IF space <= off THEN 0 ELSE Min({len, space - off})
        f == [open |-> TRUE, first |-> g.first,
              size |-> IF done > 0 THEN Max({node[n].size, off + done}) ELSE node[n].size]
    IN /\ node[n].open
       /\ mem' = g.v.m
       /\ node' = [node EXCEPT ![n] = f]
       /\ full' = (full \/ done < len)
       /\ disk' = IF done = 0 THEN g.v.d ELSE Saved(Put(g.v.d, g.first, off..off + done - 1), n, f)

\* vfat_truncate(0) (sys_open with O_TRUNC), trim_chain.
Truncate(n) ==
    LET v == FreeChain(V, node[n].first)
        f == [Closed EXCEPT !.open = TRUE]
    IN /\ node[n].open
       /\ mem' = v.m
       /\ disk' = Saved(v.d, n, f)
       /\ node' = [node EXCEPT ![n] = f]
       /\ UNCHANGED full

\* vfat_unlink.
Unlink(n) ==
    LET v == FreeChain([V EXCEPT !.d = Deleted(disk, n)], disk.entry[n].first)
    IN /\ Found(disk, n) /\ ~node[n].open
       /\ disk' = v.d /\ mem' = v.m
       /\ UNCHANGED <<node, full>>

\* vfat_rename: the new entry is written before the old one is marked.
Rename(n, m) ==
    LET s == Short(disk, m)
        r == Room(V, SlotsOf(m, s))
    IN /\ Found(disk, n) /\ ~Found(disk, m) /\ ~node[n].open
       /\ mem' = r.v.m
       /\ full' = (full \/ r.at = -1)
       /\ disk' = IF r.at = -1 THEN r.v.d ELSE Deleted(Entered(r, m, s, disk.entry[n]), n)
       /\ UNCHANGED node

\* vfat_info counts the free clusters once.
Info ==
    /\ mem.free = Unknown
    /\ mem' = [mem EXCEPT !.free = Cardinality(Unused(disk))]
    /\ UNCHANGED <<disk, node, full>>

\* vfat_unmount and vfat_mount.
Remount ==
    /\ \A n \in Names : ~node[n].open
    /\ mem' = [hint |-> First, free |-> Unknown]
    /\ UNCHANGED <<disk, node, full>>

-----------------------------------------------------------------------------
\* A volume as it was formatted, its clusters full of old bytes.
Init ==
    /\ disk = [fat |-> [c \in Clusters |-> IF ~FixedRoot /\ c = RootCluster THEN EOC ELSE 0],
               data |-> [c \in Clusters |-> Old],
               slot |-> [i \in 0..RootSlots - 1 |-> "end"],
               entry |-> [n \in Names |-> Absent]]
    /\ mem = [hint |-> First, free |-> Unknown]
    /\ node = [n \in Names |-> Closed]
    /\ full = FALSE

Next ==
    \/ \E n \in Names : Create(n) \/ Open(n) \/ Close(n) \/ Truncate(n) \/ Unlink(n)
    \/ \E n \in Names, off \in 0..MaxSize - 1 : \E len \in 1..MaxSize - off : Write(n, off, len)
    \/ \E n, m \in Names : n # m /\ Rename(n, m)
    \/ Info \/ Remount

Spec == Init /\ [][Next]_vars
-----------------------------------------------------------------------------
TypeOK ==
    /\ disk.fat \in [Clusters -> {0} \cup Clusters \cup {EOC}]
    /\ mem.hint \in Clusters /\ mem.free \in {Unknown} \cup 0..Count
    /\ \A i \in DOMAIN disk.slot : disk.slot[i] \in {"end", "free", "set"}

Files == {n \in Names : Has(disk, n)}
View(n) == IF node[n].open THEN node[n] ELSE disk.entry[n]

Shown == [n \in Files |-> Contents(disk, View(n))]

Store == INSTANCE FileStore WITH files <- Shown

\* The driver keeps the promise of a file system: the files hold what was
\* written, zeroes where nothing was, whatever clusters they reuse and
\* whatever calls have failed on a full volume (vfat_write, vfat_read).
Promise == [Store!Next]_Shown

Held(n) == Chain(disk.fat, disk.entry[n].first) \cup Chain(disk.fat, node[n].first)

\* The chains of the files and of the directory do not meet, they cover the
\* clusters in use unless a call has run out of space, and the free count is
\* the number of the others (fat_alloc_cluster, fat_free_chain).
SpaceExact ==
    /\ \A n \in Files : Held(n) \cap RootChain(disk) = {}
    /\ \A n, m \in Files : n # m => Held(n) \cap Held(m) = {}
    /\ mem.free # Unknown => mem.free = Cardinality(Unused(disk))
    /\ ~full => Clusters \ Unused(disk) = RootChain(disk) \cup UNION {Held(n) : n \in Files}

\* Every file is found; its entries overlap no other's; no two short names are
\* equal; and an open file agrees with its entry (dir_find_free_fixed,
\* dir_find_free_chain, make_sfn, dir_mark_deleted, update_entry).
DirectoryExact ==
    /\ \A i \in DOMAIN disk.slot :
          disk.slot[i] = "set" <=> \E n \in Files : i - disk.entry[n].index \in 0..disk.entry[n].slots - 1
    /\ \A n \in Files : Found(disk, n)
    /\ \A n, m \in Files : n # m => /\ disk.entry[n].sfn # disk.entry[m].sfn
                                    /\ disk.entry[n].index # disk.entry[m].index
    /\ \A n \in Names : node[n].open => n \in Files /\ node[n].size = disk.entry[n].size
=============================================================================
