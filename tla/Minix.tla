------------------------------- MODULE Minix --------------------------------
(***************************************************************************)
(* The Minix driver (module/minixfs/src/minixfs.c) below its root          *)
(* directory: zones and inodes with their bitmaps, trees of pointer zones, *)
(* and a directory of fixed entries.  A call is one step: one caller at a  *)
(* time, on a device that does not fail; the volume may be full.  A file   *)
(* is unlinked or renamed only while it is closed, and has one name.       *)
(***************************************************************************)
EXTENDS Integers, Sequences, FiniteSets, FiniteSetsExt

CONSTANTS Names,
          DirPer,     \* entries of a directory zone ("." and ".." left out)
          Count,      \* zones from firstdatazone on
          NInodes,    \* inodes for files
          Direct,     \* direct zones of an inode
          Ptrs,       \* pointers in a zone
          CellsPer,   \* units of data in a zone
          MaxSize     \* bound on the size of a file

VARIABLES disk,   \* used, iused (the bitmaps); ptr, data; inode; dir (entries), dirzones
          mem,    \* the driver keeps nothing: always <<>>
          node,   \* minix_inode of the open files
          full    \* history: an allocation has failed

vars == <<disk, mem, node, full>>

Zones == 1..Count
Inodes == 1..NInodes
Cells == 0..CellsPer - 1
Zeros == [k \in Cells |-> 0]
Old == [k \in Cells |-> -1]         \* the bytes of a free zone, as data
NoPtrs == [k \in 0..Ptrs - 1 |-> 0]
OldPtrs == [k \in 0..Ptrs - 1 |-> 1]    \* and as pointers
Fresh == [size |-> 0, zone |-> [i \in 0..Direct + 2 |-> 0]]
Closed == [ino |-> 0, size |-> 0, zone |-> Fresh.zone]

-----------------------------------------------------------------------------
\* Zones.

Unused(d) == Zones \ d.used
NextZone(d) == Min(Unused(d))

\* alloc_zone, with zero_zone.
Alloc(d) ==
    LET z == NextZone(d)
    IN [d EXCEPT !.used = @ \cup {z}, !.ptr[z] = NoPtrs, !.data[z] = Zeros]

\* free_zone of every zone of Z.
FreeAll(d, Z) ==
    [d EXCEPT !.used = @ \ Z, !.ptr = [z \in Zones |-> IF z \in Z THEN OldPtrs ELSE @[z]],
              !.data = [z \in Zones |-> IF z \in Z THEN Old ELSE @[z]]]

Span(k) == Ptrs ^ k

\* The pointer tree of a file block (0: direct) and its index in it.
Level(fb) ==
    IF fb < Direct THEN 0 ELSE IF fb - Direct < Ptrs THEN 1 ELSE IF fb - Direct - Ptrs < Span(2) THEN 2 ELSE 3
Index(fb) ==
    fb - (CASE Level(fb) = 0 -> fb [] Level(fb) = 1 -> Direct [] Level(fb) = 2 -> Direct + Ptrs
            [] OTHER -> Direct + Ptrs + Span(2))
Root(fb) == IF Level(fb) = 0 THEN fb ELSE Direct + Level(fb) - 1

\* data_zone_for: 0 in a hole.
RECURSIVE Reach(_, _, _, _)
Reach(d, z, depth, index) ==
    IF z = 0 \/ depth = 0 THEN z
    ELSE Reach(d, d.ptr[z][index \div Span(depth - 1)], depth - 1, index % Span(depth - 1))

ZoneFor(d, zone, fb) == Reach(d, zone[Root(fb)], Level(fb), Index(fb))

\* get_or_alloc_zone: a zone is linked as soon as it is made, so that what a full
\* volume leaves of the path stays in the tree.
RECURSIVE GetZone(_, _, _, _)
GetZone(d, z, depth, index) ==
    IF z = 0 /\ Unused(d) = {} THEN [d |-> d, z |-> 0, ok |-> FALSE]
    ELSE LET r == IF z = 0 THEN NextZone(d) ELSE z
             e == IF z = 0 THEN Alloc(d) ELSE d
             slot == index \div Span(depth - 1)
             s == GetZone(e, e.ptr[r][slot], depth - 1, index % Span(depth - 1))
         IN IF depth = 0 THEN [d |-> e, z |-> r, ok |-> TRUE]
            ELSE [d |-> [s.d EXCEPT !.ptr[r][slot] = s.z], z |-> r, ok |-> s.ok]

\* The zones of a tree, as free_indirect walks it.
RECURSIVE Tree(_, _, _)
Tree(d, z, depth) ==
    IF z = 0 THEN {}
    ELSE {z} \cup (IF depth = 0 THEN {} ELSE UNION {Tree(d, d.ptr[z][k], depth - 1) : k \in 0..Ptrs - 1})

\* What free_inode_data frees.
ZonesOf(d, zone) ==
    ({zone[i] : i \in 0..Direct - 1} \ {0}) \cup UNION {Tree(d, zone[Direct + k - 1], k) : k \in 1..3}

\* minix_read, of the whole file.
Contents(d, f) ==
    [p \in 1..f.size |-> LET z == ZoneFor(d, f.zone, (p - 1) \div CellsPer)
                         IN IF z = 0 THEN 0 ELSE d.data[z][(p - 1) % CellsPer]]

Put(d, zone, P) ==
    LET new(z, k) == {p \in P : <<ZoneFor(d, zone, p \div CellsPer), p % CellsPer>> = <<z, k>>}
    IN [d EXCEPT !.data = [z \in Zones |-> [k \in Cells |->
                             IF new(z, k) = {} THEN @[z][k] ELSE 1 + CHOOSE p \in new(z, k) : TRUE]]]

-----------------------------------------------------------------------------
\* The directory: entries [ino, name], in zones of DirPer.

\* dir_find_entry: 0 when there is none.
Find(d, n) ==
    LET at == {i \in DOMAIN d.dir : d.dir[i].ino # 0 /\ d.dir[i].name = n}
    IN IF at = {} THEN 0 ELSE Min(at)

Present(n) == Find(disk, n) # 0
InoOf(d, n) == d.dir[Find(d, n)].ino

\* dir_add_entry, write_dirent_at: the first free entry, else one behind the last,
\* which may take a new zone.
AddEntry(d, n, ino) ==
    LET free == {i \in DOMAIN d.dir : d.dir[i].ino = 0}
        new == [ino |-> ino, name |-> n]
        last == Len(d.dir) = DirPer * Len(d.dirzones)
    IN IF free # {} THEN [d |-> [d EXCEPT !.dir[Min(free)] = new], ok |-> TRUE]
       ELSE IF last /\ Unused(d) = {} THEN [d |-> d, ok |-> FALSE]
       ELSE [d |-> [(IF last THEN [Alloc(d) EXCEPT !.dirzones = Append(@, NextZone(d))] ELSE d)
                       EXCEPT !.dir = Append(@, new)], ok |-> TRUE]

Cleared(d, i) == [d EXCEPT !.dir[i] = [ino |-> 0, name |-> ""]]

-----------------------------------------------------------------------------
Open(f) == f.ino # 0

\* write_inode.
Saved(d, f) == [d EXCEPT !.inode[f.ino] = [size |-> f.size, zone |-> f.zone]]

\* minix_create, minix_create_raw (sys_open with O_CREAT): the new file is opened;
\* its inode is given back when the directory has no room.
Create(n) ==
    LET i == Min(Inodes \ disk.iused)
        a == AddEntry([disk EXCEPT !.iused = @ \cup {i}, !.inode[i] = Fresh], n, i)
    IN /\ ~Present(n) /\ Inodes \ disk.iused # {}
       /\ disk' = IF a.ok THEN a.d ELSE [a.d EXCEPT !.iused = @ \ {i}]
       /\ node' = IF a.ok THEN [node EXCEPT ![n] = [Closed EXCEPT !.ino = i]] ELSE node
       /\ full' = (full \/ ~a.ok)
       /\ UNCHANGED mem

\* minix_finddir, make_node, for a file that is not open yet.
OpenFile(n) ==
    /\ Present(n) /\ ~Open(node[n])
    /\ LET f == disk.inode[InoOf(disk, n)]
       IN node' = [node EXCEPT ![n] = [ino |-> InoOf(disk, n), size |-> f.size, zone |-> f.zone]]
    /\ UNCHANGED <<disk, mem, full>>

Close(n) ==
    /\ Open(node[n])
    /\ node' = [node EXCEPT ![n] = Closed]
    /\ UNCHANGED <<disk, mem, full>>

\* minix_write, minix_write_inode_data: zone by zone; the inode is always saved.
Write(n, off, len) ==
    LET lo == off \div CellsPer
        hi == (off + len - 1) \div CellsPer
        w[i \in lo..hi + 1] ==
          IF i = lo THEN [d |-> disk, zone |-> node[n].zone, ok |-> TRUE, next |-> lo]
          ELSE LET p == w[i - 1]
                   g == GetZone(p.d, p.zone[Root(i - 1)], Level(i - 1), Index(i - 1))
               IN IF ~p.ok THEN p
                  ELSE [d |-> g.d, zone |-> [p.zone EXCEPT ![Root(i - 1)] = g.z], ok |-> g.ok,
                        next |-> IF g.ok THEN i ELSE p.next]
        e == w[hi + 1]
        done == IF e.ok THEN len ELSE Max({0, e.next * CellsPer - off})
        f == [node[n] EXCEPT !.zone = e.zone, !.size = IF done > 0 THEN Max({@, off + done}) ELSE @]
    IN /\ Open(node[n])
       /\ disk' = Saved(IF done = 0 THEN e.d ELSE Put(e.d, e.zone, off..off + done - 1), f)
       /\ node' = [node EXCEPT ![n] = f]
       /\ full' = (full \/ ~e.ok)
       /\ UNCHANGED mem

\* minix_truncate(0) (sys_open with O_TRUNC).
Truncate(n) ==
    LET f == [Closed EXCEPT !.ino = node[n].ino]
    IN /\ Open(node[n])
       /\ disk' = Saved(FreeAll(disk, ZonesOf(disk, node[n].zone)), f)
       /\ node' = [node EXCEPT ![n] = f]
       /\ UNCHANGED <<mem, full>>

\* minix_unlink of a file with one link.
Unlink(n) ==
    LET i == InoOf(disk, n)
        d == FreeAll(Cleared(disk, Find(disk, n)), ZonesOf(disk, disk.inode[i].zone))
    IN /\ Present(n) /\ ~Open(node[n])
       /\ disk' = [d EXCEPT !.inode[i] = Fresh, !.iused = @ \ {i}]
       /\ UNCHANGED <<mem, node, full>>

\* minix_rename: the new entry is added before the old one is cleared.
Rename(n, m) ==
    LET a == AddEntry(disk, m, InoOf(disk, n))
    IN /\ Present(n) /\ ~Present(m) /\ ~Open(node[n])
       /\ disk' = IF a.ok THEN Cleared(a.d, Find(disk, n)) ELSE a.d
       /\ full' = (full \/ ~a.ok)
       /\ UNCHANGED <<mem, node>>

-----------------------------------------------------------------------------
\* A volume as it was formatted, its zones full of old bytes: zone 1 is the root
\* directory's; the bit of zone 2 is set too, since alloc_zone counts the bits
\* from 0 where the format counts from 1.
Init ==
    /\ disk = [used |-> {1, 2}, iused |-> {}, ptr |-> [z \in Zones |-> OldPtrs], data |-> [z \in Zones |-> Old],
               inode |-> [i \in Inodes |-> Fresh], dir |-> <<>>, dirzones |-> <<1>>]
    /\ mem = <<>>
    /\ node = [n \in Names |-> Closed]
    /\ full = FALSE

Next ==
    \/ \E n \in Names : Create(n) \/ OpenFile(n) \/ Close(n) \/ Truncate(n) \/ Unlink(n)
    \/ \E n \in Names, off \in 0..MaxSize - 1 : \E len \in 1..MaxSize - off : Write(n, off, len)
    \/ \E n, m \in Names : n # m /\ Rename(n, m)

Spec == Init /\ [][Next]_vars
-----------------------------------------------------------------------------
Files == {n \in Names : Present(n)}

TypeOK ==
    /\ disk.used \subseteq Zones /\ disk.iused \subseteq Inodes
    /\ disk.ptr \in [Zones -> [0..Ptrs - 1 -> {0} \cup Zones]]
    /\ \A n \in Names : node[n].ino \in {0} \cup Inodes

Shown == [n \in Files |-> Contents(disk, IF Open(node[n]) THEN node[n] ELSE disk.inode[InoOf(disk, n)])]

Store == INSTANCE FileStore WITH files <- Shown

\* The driver keeps the promise of a file system: the files hold what was
\* written, zeroes in the holes, whatever zones they reuse and whatever calls
\* have failed on a full volume (minix_write, minix_read).
Promise == [Store!Next]_Shown

Held(n) == ZonesOf(disk, disk.inode[InoOf(disk, n)].zone)
DirZones == {disk.dirzones[k] : k \in DOMAIN disk.dirzones}

\* No zone is in two trees or in a tree and the directory, and no zone or inode
\* is lost, even by the calls that have failed on a full volume (alloc_zone,
\* get_or_alloc_zone, free_inode_data, minix_create_raw).
SpaceExact ==
    /\ \A n \in Files : Held(n) \cap (DirZones \cup {2}) = {}
    /\ \A n, m \in Files : n # m => Held(n) \cap Held(m) = {}
    /\ disk.used = DirZones \cup {2} \cup UNION {Held(n) : n \in Files}
    /\ disk.iused = {InoOf(disk, n) : n \in Files}

\* No two entries share a name or an inode, the entries fit in the directory's
\* zones, and an open file agrees with its inode (dir_add_entry,
\* minix_rename, write_inode).
DirectoryExact ==
    /\ \A i, j \in DOMAIN disk.dir :
          i # j /\ disk.dir[i].ino # 0 => disk.dir[i].ino # disk.dir[j].ino /\ disk.dir[i].name # disk.dir[j].name
    /\ Len(disk.dir) <= DirPer * Len(disk.dirzones)
    /\ \A n \in Names : Open(node[n]) =>
          /\ n \in Files
          /\ [size |-> node[n].size, zone |-> node[n].zone] = disk.inode[InoOf(disk, n)]
=============================================================================
