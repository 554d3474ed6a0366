------------------------------- MODULE Exfat -------------------------------
(***************************************************************************)
(* The exFAT driver (module/exfat/src/exfat.c) below one root directory:   *)
(* the slots of the directory, the allocation bitmap, the FAT, the files'  *)
(* clusters and the in-memory nodes of open files.  A volume may hold one  *)
(* file another system wrote: its clusters chained through the FAT or      *)
(* contiguous without one (NO_FAT_CHAIN), its valid length shorter than    *)
(* its data length.  A call is one step: one caller at a time, on a device *)
(* that does not fail; the disk may be full.  A file is unlinked or        *)
(* renamed only while it is closed.                                        *)
(***************************************************************************)
EXTENDS Integers, Sequences, FiniteSets, FiniteSetsExt

CONSTANTS Names,
          Need,        \* entries of a name's set: file, stream, names (build_file_set)
          Slots,       \* entries of the root directory after the system's
          Count,       \* cluster_count
          CellsPer,    \* units of data in a cluster
          MaxSize,     \* bound on the size of a file
          Truncating   \* whether files that have clusters are truncated

VARIABLES disk,   \* fat, used (the bitmap), data; slot: "eod", "free" (inactive) or "set"; entry: the file sets
          mem,    \* next_free_cluster and free_clusters
          node,   \* exfat_node of the open files
          full    \* history: an allocation has failed

vars == <<disk, mem, node, full>>

First == 2                                \* EXFAT_CLUSTER_FIRST
Clusters == First .. First + Count - 1    \* cluster_valid
Cells == 0 .. CellsPer - 1
EOC == First + Count
Unknown == -1                             \* free_count_valid is 0
Zeros == [k \in Cells |-> 0]
Old == [k \in Cells |-> -1]                \* the bytes of a free cluster, whatever they are
Absent == [index |-> -1, first |-> 0, dlen |-> 0, vlen |-> 0, nofat |-> FALSE]

Has(f) == f.index >= 0
ClustersFor(size) == (size + CellsPer - 1) \div CellsPer

-----------------------------------------------------------------------------
\* Streams.  A volume in the middle of a call is a record of disk and mem.

\* stream_cluster_at: cluster i of the stream, EOC behind its end.
ClusterAt(fat, f, i) ==
    IF f.nofat THEN f.first + i
    ELSE LET at[j \in 0..i] == IF j = 0 THEN f.first ELSE IF at[j - 1] \in Clusters THEN fat[at[j - 1]] ELSE EOC
         IN at[i]

\* chain_count: a stream of data length 0 counts as empty, whatever its first
\* cluster.
ChainCount(fat, f) ==
    IF f.first = 0 \/ f.dlen = 0 THEN 0
    ELSE IF f.nofat THEN ClustersFor(f.dlen)
    ELSE Cardinality({i \in 0..Count : ClusterAt(fat, f, i) \in Clusters})

ClustersOf(fat, f) ==
    IF f.first = 0 THEN {}
    ELSE IF f.nofat THEN {f.first + i : i \in 0..ClustersFor(f.dlen) - 1}
    ELSE {ClusterAt(fat, f, i) : i \in 0..Count} \cap Clusters

\* exfat_read, of the whole file.
Contents(d, f) ==
    [p \in 1..f.vlen |-> d.data[ClusterAt(d.fat, f, (p - 1) \div CellsPer)][(p - 1) % CellsPer]]

\* zero_stream_range and the loop of exfat_write: val[p] at position p.
Put(d, f, val) ==
    LET place(p) == <<ClusterAt(d.fat, f, p \div CellsPer), p % CellsPer>>
        new(c, k) == {p \in DOMAIN val : place(p) = <<c, k>>}
    IN [d EXCEPT !.data = [c \in Clusters |-> [k \in Cells |->
                             IF new(c, k) = {} THEN @[c][k] ELSE val[CHOOSE p \in new(c, k) : TRUE]]]]

-----------------------------------------------------------------------------
\* Allocation.

Unused(d) == Clusters \ d.used
CanAlloc(v) == Unused(v.d) # {} /\ v.m.free # 0

\* alloc_scan_range from next_free_cluster on, then from the start.
FreeCluster(v) ==
    LET above == {c \in Unused(v.d) : c >= v.m.hint}
    IN Min(IF above # {} THEN above ELSE Unused(v.d))

\* alloc_cluster: marked in the bitmap, end of its chain, zeroed.
Alloc(v) ==
    LET c == FreeCluster(v)
    IN [v EXCEPT !.d.used = @ \cup {c}, !.d.fat[c] = EOC, !.d.data[c] = Zeros,
                 !.m.hint = IF c + 1 \in Clusters THEN c + 1 ELSE First,
                 !.m.free = IF @ > 0 THEN @ - 1 ELSE @]

\* free_chain, with bitmap_set and fat_set for each cluster.
Release(v, C) ==
    [v EXCEPT !.d.used = @ \ C, !.d.fat = [c \in Clusters |-> IF c \in C THEN 0 ELSE @[c]],
              !.d.data = [c \in Clusters |-> IF c \in C THEN Old ELSE @[c]],
              !.m.hint = Min(C \cup {@}), !.m.free = IF @ = Unknown THEN @ ELSE @ + Cardinality(C)]

\* convert_no_fat_chain.
Converted(d, f) ==
    LET last == f.first + ClustersFor(f.dlen) - 1
    IN IF ~f.nofat THEN d
       ELSE [d EXCEPT !.fat = [c \in Clusters |-> IF c \in f.first..last - 1 THEN c + 1
                                                  ELSE IF c = last THEN EOC ELSE @[c]]]

\* The loop of ensure_clusters: k more clusters, linked one by one behind the
\* last.  With a first cluster that is not counted there is no last, and
\* the new cluster is given back.
Extend(v, f, k) ==
    LET have == ChainCount(v.d.fat, f)
        g[i \in 0..k] ==
          IF i = 0 THEN [v |-> v, f |-> f, last |-> IF have = 0 THEN 0 ELSE ClusterAt(v.d.fat, f, have - 1), ok |-> TRUE]
          ELSE LET p == g[i - 1]
                   c == FreeCluster(p.v)
               IN IF ~p.ok \/ ~CanAlloc(p.v) THEN [p EXCEPT !.ok = FALSE]
                  ELSE IF p.f.first = 0
                  THEN [p EXCEPT !.v = Alloc(p.v), !.f.first = c, !.last = c]
                  ELSE IF p.last = 0
                  THEN [p EXCEPT !.v = Release(Alloc(p.v), {c}), !.ok = FALSE]
                  ELSE [p EXCEPT !.v = [Alloc(p.v) EXCEPT !.d.fat[p.last] = c], !.last = c]
    IN g[k]

\* ensure_clusters.
Ensure(v, f, need) ==
    LET w == [v EXCEPT !.d = Converted(@, f)]
        h == [f EXCEPT !.nofat = FALSE]
        have == ChainCount(w.d.fat, h)
    IN Extend(w, h, IF need > have THEN need - have ELSE 0)

-----------------------------------------------------------------------------
\* The directory.

\* stream_layout_valid, of what parse_file_set requires: an empty file has no
\* clusters.
LayoutValid(f) == f.dlen = 0 => f.first = 0

\* scan_dir finds the set of n: it ends at the first "eod" and gives up at a set
\* that does not parse.
Found(n) ==
    /\ Has(disk.entry[n])
    /\ \A i \in 0..disk.entry[n].index : disk.slot[i] # "eod"
    /\ \A m \in Names : Has(disk.entry[m]) /\ disk.entry[m].index <= disk.entry[n].index => LayoutValid(disk.entry[m])

\* dir_find_free in the root: the runs of unused entries the scan can end with
\* before it stops at an "eod".
Runs(need) ==
    {i \in 0..Slots - need : /\ \A j \in i..i + need - 1 : disk.slot[j] # "set"
                             /\ \A j \in 0..i + need - 2 : disk.slot[j] # "eod"}

Marked(s, i, need, x) == [j \in DOMAIN s |-> IF j \in i..i + need - 1 THEN x ELSE s[j]]

\* write_new_set.
Entered(d, n, i, f) ==
    [d EXCEPT !.slot = Marked(@, i, Need[n], "set"), !.entry[n] = [f EXCEPT !.index = i]]

\* mark_set_inactive.
Removed(d, n) == [d EXCEPT !.slot = Marked(@, d.entry[n].index, Need[n], "free"), !.entry[n] = Absent]

-----------------------------------------------------------------------------
V == [d |-> disk, m |-> mem]

\* exfat_create (sys_open with O_CREAT): the new file is opened.
Create(n) ==
    /\ ~Found(n) /\ ~Has(disk.entry[n])
    /\ Runs(Need[n]) # {}
    /\ disk' = Entered(disk, n, Min(Runs(Need[n])), Absent)
    /\ node' = [node EXCEPT ![n] = disk'.entry[n]]
    /\ UNCHANGED <<mem, full>>

\* exfat_finddir, make_vnode, for a file that is not open yet.
Open(n) ==
    /\ Found(n) /\ ~Has(node[n])
    /\ node' = [node EXCEPT ![n] = disk.entry[n]]
    /\ UNCHANGED <<disk, mem, full>>

Close(n) ==
    /\ Has(node[n])
    /\ node' = [node EXCEPT ![n] = Absent]
    /\ UNCHANGED <<disk, mem, full>>

\* Mutant: the gap between the valid length and the write is not zeroed.
GapKept(d, f, off) == d

\* exfat_write zeroes from the valid length to the offset.
Gap(d, f, off) == IF off > f.vlen THEN Put(d, f, [p \in f.vlen..off - 1 |-> 0]) ELSE d

\* exfat_write, and update_node_entry.
Write(n, off, len) ==
    LET e == Ensure(V, node[n], ClustersFor(off + len))
        end == off + len
        f == [e.f EXCEPT !.dlen = Max({@, end}), !.vlen = Max({@, end})]
        d == Put(Gap(e.v.d, e.f, off), e.f, [p \in off..end - 1 |-> p + 1])
    IN /\ Has(node[n])
       /\ mem' = e.v.m
       /\ full' = (full \/ ~e.ok)
       /\ disk' = IF e.ok THEN [d EXCEPT !.entry[n] = f] ELSE e.v.d
       /\ node' = [node EXCEPT ![n] = IF e.ok THEN f ELSE e.f]

\* trim_clusters to nothing: the clusters of a chain that is counted.
Trimmed(v, f) ==
    IF ChainCount(v.d.fat, f) = 0 THEN [v |-> v, f |-> f]
    ELSE [v |-> Release(v, ClustersOf(v.d.fat, f)), f |-> [f EXCEPT !.first = 0, !.nofat = FALSE]]

\* exfat_truncate(0) (sys_open with O_TRUNC): the lengths are 0 before
\* trim_clusters counts the chain.
Truncate(n) ==
    LET t == Trimmed(V, [node[n] EXCEPT !.dlen = 0, !.vlen = 0])
    IN /\ Has(node[n])
       /\ Truncating \/ node[n].first = 0
       /\ disk' = [t.v.d EXCEPT !.entry[n] = t.f]
       /\ mem' = t.v.m
       /\ node' = [node EXCEPT ![n] = t.f]
       /\ UNCHANGED full

\* exfat_unlink.
Unlink(n) ==
    LET v == Release(V, ClustersOf(disk.fat, disk.entry[n]))
    IN /\ Found(n) /\ ~Has(node[n])
       /\ disk' = Removed(v.d, n) /\ mem' = v.m
       /\ UNCHANGED <<node, full>>

\* exfat_rename: the new set is written before the old one is marked.
Rename(n, m) ==
    /\ Found(n) /\ ~Has(disk.entry[m]) /\ ~Has(node[n])
    /\ Runs(Need[m]) # {}
    /\ disk' = Removed(Entered(disk, m, Min(Runs(Need[m])), disk.entry[n]), n)
    /\ UNCHANGED <<mem, node, full>>

\* exfat_info counts the free clusters once; bitmap_set keeps the count.
Info ==
    /\ mem.free = Unknown
    /\ mem' = [mem EXCEPT !.free = Cardinality(Unused(disk))]
    /\ UNCHANGED <<disk, node, full>>

\* exfat_unmount and exfat_mount: what is in memory is forgotten.
Remount ==
    /\ \A n \in Names : ~Has(node[n])
    /\ mem' = [hint |-> First, free |-> Unknown]
    /\ UNCHANGED <<disk, node, full>>

-----------------------------------------------------------------------------
\* The volumes other systems leave.

\* No file, the clusters full of old bytes.
Blank == [fat |-> [c \in Clusters |-> 0], used |-> {}, data |-> [c \in Clusters |-> Old],
          entry |-> [n \in Names |-> Absent]]

\* A file of dlen units, vlen of them valid.
Foreign(n, first, dlen, vlen, nofat) ==
    LET f == [index |-> 0, first |-> first, dlen |-> dlen, vlen |-> vlen, nofat |-> TRUE]
        d == [Blank EXCEPT !.used = ClustersOf(Blank.fat, f), !.entry[n] = [f EXCEPT !.nofat = nofat]]
    IN IF nofat THEN d ELSE Converted(d, f)

Volumes ==
    {Blank} \cup {Foreign(n, c, l[1], l[2], b) : n \in Names, c \in {First, First + Count - ClustersFor(MaxSize)},
                                                 l \in {<<1, 1>>, <<MaxSize, 1>>, <<MaxSize, MaxSize - 1>>}, b \in BOOLEAN}

\* Entries behind the file's are inactive up to some place.
SlotsWith(d, gone) ==
    LET taken == {i \in 0..Slots - 1 : \E n \in Names : Has(d.entry[n]) /\ i < Need[n]}
    IN [i \in 0..Slots - 1 |-> IF i \in taken THEN "set" ELSE IF i < gone THEN "free" ELSE "eod"]

Init ==
    /\ \E d \in Volumes, gone \in 0..Slots :
          disk = [k \in DOMAIN d \cup {"slot"} |-> IF k = "slot" THEN SlotsWith(d, gone) ELSE d[k]]
    /\ mem = [hint |-> First, free |-> Unknown]
    /\ node = [n \in Names |-> Absent]
    /\ full = FALSE

Next ==
    \/ \E n \in Names : Create(n) \/ Open(n) \/ Close(n) \/ Truncate(n) \/ Unlink(n)
    \/ \E n \in Names, off \in 0..MaxSize - 1 : \E len \in 1..MaxSize - off : Write(n, off, len)
    \/ \E n, m \in Names : n # m /\ Rename(n, m)
    \/ Info \/ Remount

Spec == Init /\ [][Next]_vars
-----------------------------------------------------------------------------
TypeOK ==
    /\ disk.fat \in [Clusters -> {0} \cup Clusters \cup {EOC}] /\ disk.used \subseteq Clusters
    /\ mem.hint \in Clusters /\ mem.free \in {Unknown} \cup 0..Count
    /\ disk.slot \in [0..Slots - 1 -> {"eod", "free", "set"}]

Files == {n \in Names : Has(disk.entry[n])}
View(n) == IF Has(node[n]) THEN node[n] ELSE disk.entry[n]

Shown == [n \in Files |-> Contents(disk, View(n))]

Store == INSTANCE FileStore WITH files <- Shown

\* The driver keeps the promise of a file system: the files hold what was
\* written, zeroes where nothing was, whatever clusters they reuse and
\* whatever calls have failed on a full volume (exfat_write, exfat_read).
Promise == [Store!Next]_Shown

Held(n) == ClustersOf(disk.fat, disk.entry[n]) \cup ClustersOf(disk.fat, node[n])

\* The bitmap covers the clusters of every file, no two files share one, the
\* free count is the number of clusters not in use, and no cluster is lost as
\* long as no call has run out of space (alloc_cluster, free_chain, bitmap_set).
SpaceExact ==
    /\ \A n \in Files : Held(n) \subseteq disk.used
    /\ \A n, m \in Files : n # m => Held(n) \cap Held(m) = {}
    /\ mem.free # Unknown => mem.free = Cardinality(Unused(disk))
    /\ ~full => disk.used = UNION {Held(n) : n \in Files}

\* Every file is found; the sets of the directory do not overlap and nothing
\* live lies behind its end; an open file agrees with its set (dir_find_free,
\* mark_set_inactive, update_node_entry).
DirectoryExact ==
    /\ \A i \in 0..Slots - 1 :
          disk.slot[i] = "set" <=> \E n \in Files : i - disk.entry[n].index \in 0..Need[n] - 1
    /\ \A n \in Files : Found(n)
    /\ \A n, m \in Files : n # m => disk.entry[n].index # disk.entry[m].index
    /\ \A n \in Names : Has(node[n]) => n \in Files /\ node[n].vlen = disk.entry[n].vlen
=============================================================================
