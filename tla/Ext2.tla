-------------------------------- MODULE Ext2 --------------------------------
(***************************************************************************)
(* The ext2 driver (module/ext2/src/ext2.c) below its root directory:      *)
(* block groups with their bitmaps and counts, inodes with trees of        *)
(* pointer blocks, and directory blocks of records of varying length.  A   *)
(* call is one step: one caller at a time, on a device that does not fail; *)
(* the volume may be full.  A file is unlinked or renamed only while it is *)
(* closed, and has one name.  The inode and pointer caches, written        *)
(* through and dropped by every write, are not told apart from the disk.   *)
(***************************************************************************)
EXTENDS Integers, Sequences, FiniteSets, FiniteSetsExt, SequencesExt

CONSTANTS Names,
          Need,        \* rec_len_for of a name, in units of directory space
          DirUnits,    \* units of a directory block; "." and ".." take one of the first
          PerGroup,    \* blocks of a block group
          Count,       \* blocks of the volume that hold files and directories
          NInodes,     \* inodes for files; each group has half of them
          Direct,      \* direct blocks of an inode
          Ptrs,        \* pointers in a block
          CellsPer,    \* units of data in a block
          MaxSize,     \* bound on the size of a file
          Filling,     \* a write may fill a hole without making the file longer
          FirstGone    \* the first entry of a directory block may be removed

VARIABLES disk,   \* used, count (bitmap and free count of each group), iused; ptr, data; inode; dir
          mem,    \* free_blocks_count, next_block_alloc_group
          node,   \* ext2_node of the open files
          full    \* history: an allocation has failed

vars == <<disk, mem, node, full>>

Blocks == 1..Count
Inodes == 1..NInodes
Cells == 0..CellsPer - 1
Groups == 0..(Count - 1) \div PerGroup
GroupOf(b) == (b - 1) \div PerGroup                   \* ext2_block_in_group
InodeGroup(i) == (i - 1) \div ((NInodes + 1) \div 2)
Zeros == [k \in Cells |-> 0]
NoPtrs == [k \in 0..Ptrs - 1 |-> 0]
OldPtrs == [k \in 0..Ptrs - 1 |-> 1]                  \* read as pointers, the bytes of a free block are
Old == [k \in Cells |-> -1]                       \* some pointers; read as data, some data
Fresh == [size |-> 0, block |-> [i \in 0..Direct + 2 |-> 0]]
Closed == [ino |-> 0, size |-> 0, block |-> Fresh.block]
Span(k) == Ptrs ^ k
BlocksFor(size) == (size + CellsPer - 1) \div CellsPer

-----------------------------------------------------------------------------
\* Blocks.  A volume in the middle of a call is a record of disk and mem.

Unused(d) == Blocks \ d.used

\* ext2_alloc_block: the lowest free block of the first group with a free one,
\* from the group of the last allocation on.
NextBlock(v) ==
    LET g == Min({k \in 0..Cardinality(Groups) - 1 :
                    LET h == (v.m.group + k) % Cardinality(Groups)
                    IN v.d.count[h] > 0 /\ \E b \in Unused(v.d) : GroupOf(b) = h})
    IN Min({b \in Unused(v.d) : GroupOf(b) = (v.m.group + g) % Cardinality(Groups)})

CanAlloc(v) == \E b \in Unused(v.d) : v.d.count[GroupOf(b)] > 0

\* ext2_alloc_block marks the block, counts it and zeroes it.
Alloc(v) ==
    LET b == NextBlock(v)
    IN [v EXCEPT !.d.used = @ \cup {b}, !.d.count[GroupOf(b)] = @ - 1, !.m.free = IF @ > 0 THEN @ - 1 ELSE 0,
                 !.m.group = GroupOf(b), !.d.ptr[b] = NoPtrs, !.d.data[b] = Zeros]

\* ext2_free_block.
Free(v, b) ==
    IF b \notin v.d.used THEN v
    ELSE [v EXCEPT !.d.used = @ \ {b}, !.d.count[GroupOf(b)] = @ + 1, !.m.free = @ + 1,
                     !.d.ptr[b] = OldPtrs, !.d.data[b] = Old]

-----------------------------------------------------------------------------
\* The tree of a file.

\* The pointer tree of a file block (0: direct) and its index in it.
Level(fb) ==
    IF fb < Direct THEN 0 ELSE IF fb - Direct < Ptrs THEN 1 ELSE IF fb - Direct - Ptrs < Span(2) THEN 2 ELSE 3
Index(fb) ==
    CASE Level(fb) = 0 -> fb
      [] Level(fb) = 1 -> fb - Direct
      [] Level(fb) = 2 -> fb - Direct - Ptrs
      [] OTHER -> fb - Direct - Ptrs - Span(2)

\* ext2_bmap_indirect, ext2_read_ptr_block.
RECURSIVE Indirect(_, _, _, _)
Indirect(d, root, depth, index) ==
    IF root = 0 THEN 0
    ELSE IF depth = 1 THEN d.ptr[root][index]
    ELSE Indirect(d, d.ptr[root][index \div Span(depth - 1)], depth - 1, index % Span(depth - 1))

\* ext2_bmap.
Bmap(d, blk, fb) ==
    IF Level(fb) = 0 THEN blk[fb] ELSE Indirect(d, blk[Direct + Level(fb) - 1], Level(fb), Index(fb))

\* ext2_set_indirect: pointer blocks are made on the way down for a block, and
\* given back on the way up once a pointer that is cleared was their last.
Linked(s, r, slot) == IF s.ok THEN [s.v EXCEPT !.d.ptr[r][slot] = s.root] ELSE s.v
Pruned(x, r, ok, b) ==
    IF ok /\ b = 0 /\ x.d.ptr[r] = NoPtrs THEN [v |-> Free(x, r), root |-> 0, ok |-> TRUE]
    ELSE [v |-> x, root |-> r, ok |-> ok]
RECURSIVE SetIndirect(_, _, _, _, _), SetBelow(_, _, _, _, _)
SetBelow(v, r, depth, index, b) ==
    LET slot == index \div Span(depth - 1)
        Done(s) == Pruned(Linked(s, r, slot), r, s.ok, b)
    IN Done(IF depth = 1 THEN [v |-> v, root |-> b, ok |-> TRUE]
            ELSE SetIndirect(v, v.d.ptr[r][slot], depth - 1, index % Span(depth - 1), b))
SetIndirect(v, root, depth, index, b) ==
    IF root # 0 THEN SetBelow(v, root, depth, index, b)
    ELSE IF b # 0 /\ CanAlloc(v) THEN SetBelow(Alloc(v), NextBlock(v), depth, index, b)
    ELSE [v |-> v, root |-> 0, ok |-> b = 0]

\* ext2_set_bmap.
SetBmap(v, blk, fb, b) ==
    LET k == Direct + Level(fb) - 1
        Done(s) == [v |-> s.v, blk |-> [blk EXCEPT ![k] = s.root], ok |-> s.ok]
    IN IF Level(fb) = 0 THEN [v |-> v, blk |-> [blk EXCEPT ![fb] = b], ok |-> TRUE]
       ELSE Done(SetIndirect(v, blk[k], Level(fb), Index(fb), b))

\* ext2_get_or_alloc_block: a block that finds no place in the tree is freed.
GetOrAlloc(v, blk, fb) ==
    LET Done(s, b) == IF s.ok THEN s ELSE [s EXCEPT !.v = Free(s.v, b)]
    IN IF Bmap(v.d, blk, fb) # 0 THEN [v |-> v, blk |-> blk, ok |-> TRUE]
       ELSE IF ~CanAlloc(v) THEN [v |-> v, blk |-> blk, ok |-> FALSE]
       ELSE Done(SetBmap(Alloc(v), blk, fb, NextBlock(v)), NextBlock(v))

\* The blocks a tree holds, as ext2_count_allocated_blocks counts them.
RECURSIVE Tree(_, _, _)
Tree(d, root, depth) ==
    IF root = 0 THEN {}
    ELSE IF depth = 0 THEN {root}
    ELSE {root} \cup UNION {Tree(d, d.ptr[root][k], depth - 1) : k \in 0..Ptrs - 1}

BlocksOf(d, blk) ==
    ({blk[i] : i \in 0..Direct - 1} \ {0}) \cup UNION {Tree(d, blk[Direct + k - 1], k) : k \in 1..3}

\* ext2_file_read, of the whole file: a hole reads as zeroes.
Contents(d, f) ==
    [p \in 1..f.size |-> LET b == Bmap(d, f.block, (p - 1) \div CellsPer)
                         IN IF b = 0 THEN 0 ELSE d.data[b][(p - 1) % CellsPer]]

Put(d, blk, P) ==
    LET new(b, k) == {p \in P : <<Bmap(d, blk, p \div CellsPer), p % CellsPer>> = <<b, k>>}
    IN [d EXCEPT !.data = [b \in Blocks |-> [k \in Cells |->
                             IF new(b, k) = {} THEN @[b][k] ELSE 1 + CHOOSE p \in new(b, k) : TRUE]]]

\* Mutant: the last block of the file is not given back.
TruncateShort(v, f) ==
    LET Step(p, i, b) == IF b = 0 \/ i = BlocksFor(f.size) THEN p ELSE SetBmap(Free(p.v, b), p.blk, i - 1, 0)
        t[i \in 0..BlocksFor(f.size)] ==
          IF i = 0 THEN [v |-> v, blk |-> f.block, ok |-> TRUE]
          ELSE LET At(p) == Step(p, i, Bmap(p.v.d, p.blk, i - 1)) IN At(t[i - 1])
    IN t[BlocksFor(f.size)]

\* ext2_truncate_node to size 0: block by block, then the indirect block when no
\* pointer is left in it.
Truncated(v, f) ==
    LET Step(p, i, b) == IF b = 0 THEN p ELSE SetBmap(Free(p.v, b), p.blk, i - 1, 0)
        t[i \in 0..BlocksFor(f.size)] ==
          IF i = 0 THEN [v |-> v, blk |-> f.block, ok |-> TRUE]
          ELSE LET At(p) == Step(p, i, Bmap(p.v.d, p.blk, i - 1)) IN At(t[i - 1])
        End(e) == IF f.size > 0 /\ e.blk[Direct] # 0 /\ e.v.d.ptr[e.blk[Direct]] = NoPtrs
                  THEN [v |-> Free(e.v, e.blk[Direct]), blk |-> [e.blk EXCEPT ![Direct] = 0]]
                  ELSE [v |-> e.v, blk |-> e.blk]
    IN End(t[BlocksFor(f.size)])

-----------------------------------------------------------------------------
\* The directory: blocks of records [ino, name, len]; a record without an inode
\* keeps its name.

Ideal(r) == IF r.name = "." THEN 1 ELSE Need[r.name]
Live(r) == r.ino # 0

\* ext2_validate_dirent refuses a record with a name and no inode.
Valid(r) == Live(r) \/ r.name = ""

\* ext2_dir_find_entry_len: block and position of the record of n; <<0, 0>> when
\* there is none before the end or a record that is refused.
FindEntry(d, n) ==
    LET hits == {<<b, i>> \in (1..Len(d.dir)) \X (1..DirUnits) :
                    /\ i <= Len(d.dir[b].recs) /\ Live(d.dir[b].recs[i]) /\ d.dir[b].recs[i].name = n
                    /\ \A c \in 1..b : \A j \in DOMAIN d.dir[c].recs :
                          (c < b \/ j < i) => Valid(d.dir[c].recs[j])}
    IN IF hits = {} THEN <<0, 0>> ELSE CHOOSE h \in hits : TRUE

InoOf(d, n) == LET e == FindEntry(d, n) IN d.dir[e[1]].recs[e[2]].ino
Present(d, n) == FindEntry(d, n) # <<0, 0>>

\* The records of a block, with one for n in the first place ext2_dir_add_entry
\* finds in it; <<>> when it finds none.
Placed(recs, n, ino) ==
    LET new(len) == [ino |-> ino, name |-> n, len |-> len]
        fits(i) == /\ \A j \in 1..i : Valid(recs[j])
                   /\ recs[i].len >= Need[n] + (IF Live(recs[i]) THEN Ideal(recs[i]) ELSE 0)
        at == {i \in DOMAIN recs : fits(i)}
        i == Min(at)
    IN IF at = {} THEN <<>>
       ELSE IF Live(recs[i])
       THEN SubSeq(recs, 1, i - 1)
            \o <<[recs[i] EXCEPT !.len = Ideal(recs[i])], new(recs[i].len - Ideal(recs[i]))>>
            \o SubSeq(recs, i + 1, Len(recs))
       ELSE [recs EXCEPT ![i] = new(recs[i].len)]

\* ext2_dir_add_entry: in the first block with room, else in a new one.
AddEntry(v, n, ino) ==
    LET room == {b \in 1..Len(v.d.dir) : Placed(v.d.dir[b].recs, n, ino) # <<>>}
        b == Min(room)
    IN IF room # {} THEN [v |-> [v EXCEPT !.d.dir[b].recs = Placed(@, n, ino)], ok |-> TRUE]
       ELSE IF ~CanAlloc(v) THEN [v |-> v, ok |-> FALSE]
       ELSE [v |-> [Alloc(v) EXCEPT !.d.dir = Append(@, [block |-> NextBlock(v),
                                       recs |-> <<[ino |-> ino, name |-> n, len |-> DirUnits]>>])],
             ok |-> TRUE]

\* ext2_dir_remove_entry: the record before takes the space; the first of a block
\* loses its inode.
RemoveEntry(d, n) ==
    LET e == FindEntry(d, n)
        recs == d.dir[e[1]].recs
        i == e[2]
    IN [d EXCEPT !.dir[e[1]].recs = IF i = 1 THEN [recs EXCEPT ![1].ino = 0]
                                    ELSE RemoveAt([recs EXCEPT ![i - 1].len = @ + recs[i].len], i)]

-----------------------------------------------------------------------------
V == [d |-> disk, m |-> mem]
Open(f) == f.ino # 0

\* ext2_alloc_inode starts from the group of the last block too.
NextInode(d, m) ==
    LET later == {i \in Inodes \ d.iused : InodeGroup(i) >= m.group}
    IN Min(IF later # {} THEN later ELSE Inodes \ d.iused)

\* ext2_save_node.
Saved(d, f) == [d EXCEPT !.inode[f.ino] = [size |-> f.size, block |-> f.block]]

\* ext2_create (sys_open with O_CREAT): the new file is opened; the inode is given
\* back when there is no room for the entry.
Create(n) ==
    /\ ~Present(disk, n) /\ Inodes \ disk.iused # {}
    /\ \E i \in {NextInode(disk, mem)} :
       \E a \in {AddEntry([V EXCEPT !.d.iused = @ \cup {i}, !.d.inode[i] = Fresh], n, i)} :
         /\ disk' = IF a.ok THEN a.v.d ELSE [a.v.d EXCEPT !.iused = @ \ {i}]
         /\ mem' = a.v.m
         /\ node' = IF a.ok THEN [node EXCEPT ![n] = [Closed EXCEPT !.ino = i]] ELSE node
         /\ full' = (full \/ ~a.ok)

\* ext2_finddir, ext2_vnode_from_ino, for a file that is not open yet.
OpenFile(n) ==
    /\ Present(disk, n) /\ ~Open(node[n])
    /\ LET f == disk.inode[InoOf(disk, n)]
       IN node' = [node EXCEPT ![n] = [ino |-> InoOf(disk, n), size |-> f.size, block |-> f.block]]
    /\ UNCHANGED <<disk, mem, full>>

Close(n) ==
    /\ Open(node[n])
    /\ node' = [node EXCEPT ![n] = Closed]
    /\ UNCHANGED <<disk, mem, full>>

\* ext2_file_write: block by block; the inode is saved when the file grew.
WriteBlocks(n, lo, hi) ==
    LET Step(p, g, i) ==
          IF ~p.ok THEN p
          ELSE [v |-> g.v, blk |-> g.blk, ok |-> g.ok, next |-> IF g.ok THEN i ELSE p.next]
        w[i \in lo..hi + 1] ==
          IF i = lo THEN [v |-> V, blk |-> node[n].block, ok |-> TRUE, next |-> lo]
          ELSE LET At(p) == Step(p, GetOrAlloc(p.v, p.blk, i - 1), i) IN At(w[i - 1])
    IN w[hi + 1]
Write(n, off, len) ==
    /\ Open(node[n])
    /\ \E e \in {WriteBlocks(n, off \div CellsPer, (off + len - 1) \div CellsPer)} :
         LET done == IF e.ok THEN len ELSE Max({0, e.next * CellsPer - off})
             grown == done > 0 /\ off + done > node[n].size
             f == [node[n] EXCEPT !.block = e.blk, !.size = IF grown THEN off + done ELSE @]
             d == IF done = 0 THEN e.v.d ELSE Put(e.v.d, e.blk, off..off + done - 1)
         IN /\ Filling \/ grown \/ done = 0 \/ e.v.d.used = disk.used
            /\ mem' = e.v.m
            /\ node' = [node EXCEPT ![n] = f]
            /\ full' = (full \/ ~e.ok)
            /\ disk' = IF grown THEN Saved(d, f) ELSE d

\* ext2_truncate_vnode to size 0 (sys_open with O_TRUNC).
Truncate(n) ==
    /\ Open(node[n])
    /\ \E t \in {Truncated(V, node[n])} :
         LET f == [node[n] EXCEPT !.size = 0, !.block = t.blk]
         IN /\ disk' = Saved(t.v.d, f) /\ mem' = t.v.m
            /\ node' = [node EXCEPT ![n] = f]
    /\ UNCHANGED full

\* ext2_unlink of a file with one link.
Unlinked(v, n) ==
    LET i == InoOf(v.d, n)
        t == Truncated([v EXCEPT !.d = RemoveEntry(v.d, n)], v.d.inode[i])
    IN [t.v EXCEPT !.d.iused = @ \ {i}, !.d.inode[i] = Fresh]

Removable(n) == Present(disk, n) /\ ~Open(node[n]) /\ (FirstGone \/ FindEntry(disk, n)[2] # 1)

Unlink(n) ==
    /\ Removable(n)
    /\ \E v \in {Unlinked(V, n)} : disk' = v.d /\ mem' = v.m
    /\ UNCHANGED <<node, full>>

\* ext2_rename: a file of the new name is unlinked, the new entry is added, the old
\* one removed.
Rename(n, m) ==
    /\ Removable(n) /\ (Present(disk, m) => Removable(m))
    /\ \E v \in {IF Present(disk, m) THEN Unlinked(V, m) ELSE V} :
       \E a \in {AddEntry(v, m, InoOf(disk, n))} :
         /\ disk' = IF a.ok THEN RemoveEntry(a.v.d, n) ELSE a.v.d
         /\ mem' = a.v.m
         /\ full' = (full \/ ~a.ok)
    /\ UNCHANGED node

\* ext2_unmount and ext2_mount: the counts come from the superblock, which
\* ext2_update_super_counts keeps.
Remount ==
    /\ \A n \in Names : ~Open(node[n])
    /\ mem' = [mem EXCEPT !.group = 0]
    /\ UNCHANGED <<disk, node, full>>

-----------------------------------------------------------------------------
\* A volume as it was formatted, its blocks full of old bytes; block 1 is the
\* first of the root directory.
Init ==
    /\ disk = [used |-> {1},
               count |-> [g \in Groups |-> Cardinality({b \in Blocks \ {1} : GroupOf(b) = g})],
               iused |-> {}, ptr |-> [b \in Blocks |-> OldPtrs],
               data |-> [b \in Blocks |-> Old],
               inode |-> [i \in Inodes |-> Fresh],
               dir |-> <<[block |-> 1, recs |-> <<[ino |-> -1, name |-> ".", len |-> DirUnits]>>]>>]
    /\ mem = [free |-> Count - 1, group |-> 0]
    /\ node = [n \in Names |-> Closed]
    /\ full = FALSE

Next ==
    \/ \E n \in Names : Create(n) \/ OpenFile(n) \/ Close(n) \/ Truncate(n) \/ Unlink(n)
    \/ \E n \in Names, off \in 0..MaxSize - 1 : \E len \in 1..MaxSize - off : Write(n, off, len)
    \/ \E n, m \in Names : n # m /\ Rename(n, m)
    \/ Remount

Spec == Init /\ [][Next]_vars
-----------------------------------------------------------------------------
Named(n) == \E b \in 1..Len(disk.dir) : \E i \in DOMAIN disk.dir[b].recs :
               Live(disk.dir[b].recs[i]) /\ disk.dir[b].recs[i].name = n
Files == {n \in Names : Named(n)}

TypeOK ==
    /\ disk.used \subseteq Blocks /\ disk.iused \subseteq Inodes
    /\ disk.ptr \in [Blocks -> [0..Ptrs - 1 -> {0} \cup Blocks]]
    /\ \A n \in Names : node[n].ino \in {0} \cup Inodes

Shown == [n \in Files |-> Contents(disk, IF Open(node[n]) THEN node[n] ELSE disk.inode[InoOf(disk, n)])]

Store == INSTANCE FileStore WITH files <- Shown

\* The driver keeps the promise of a file system: the files hold what was
\* written, zeroes in the holes, whatever blocks they reuse and whatever
\* calls have failed on a full volume (ext2_file_write, ext2_file_read).
Promise == [Store!Next]_Shown

Held(n) == BlocksOf(disk, disk.inode[InoOf(disk, n)].block) \cup BlocksOf(disk, node[n].block)
DirBlocks == {disk.dir[b].block : b \in 1..Len(disk.dir)}

\* No block is in two trees or in a tree and the directory, all are marked, the
\* group counts and the volume's agree with the bitmap, and no block or inode
\* is lost as long as no call has run out of space (ext2_alloc_block,
\* ext2_free_block, ext2_set_indirect, ext2_truncate_node).
SpaceExact ==
    /\ \A n \in Files : Held(n) \subseteq disk.used \ DirBlocks
    /\ \A n, m \in Files : n # m => Held(n) \cap Held(m) = {}
    /\ \A g \in Groups : disk.count[g] = Cardinality({b \in Unused(disk) : GroupOf(b) = g})
    /\ mem.free = Cardinality(Unused(disk))
    /\ disk.iused = {InoOf(disk, n) : n \in Files}
    /\ ~full => disk.used = DirBlocks \cup UNION {Held(n) : n \in Files}

\* Every file is found, under an inode of its own; the records of every
\* directory block fill it; and an open file agrees with its inode
\* (ext2_dir_add_entry, ext2_dir_remove_entry, ext2_save_node).
DirectoryExact ==
    /\ \A n \in Files : Present(disk, n)
    /\ \A n, m \in Files : n # m => InoOf(disk, n) # InoOf(disk, m)
    /\ \A b \in 1..Len(disk.dir) :
          FoldLeft(LAMBDA t, r : t + r.len, 0, disk.dir[b].recs) = DirUnits
    /\ \A n \in Names : Open(node[n]) => n \in Files /\ node[n].size = disk.inode[node[n].ino].size
=============================================================================
