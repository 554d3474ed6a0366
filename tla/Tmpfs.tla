------------------------------- MODULE Tmpfs --------------------------------
(***************************************************************************)
(* The memory file systems (module/tmpfs/src/tmpfs.c): files made of pages *)
(* that are allocated as they are written, and, for tmpfs but not ramfs, a *)
(* limit on the pages of the mount.  The kernel may be out of memory for a *)
(* page at any time.  A file is unlinked or renamed only while it is       *)
(* closed.                                                                 *)
(***************************************************************************)
EXTENDS Integers, Sequences, FiniteSets, FiniteSetsExt

CONSTANTS Names,
          Limit,      \* limit of the mount, in pages
          Enforce,    \* enforce_limit: tmpfs
          CellsPer,   \* units of data in a page
          MaxSize     \* bound on the size of a file

VARIABLES disk,   \* the tmpfs_node of the names there are: size, page_count, pages
          mem,    \* used, in pages
          node,   \* the names that are open
          full    \* history: a page was refused

vars == <<disk, mem, node, full>>

PagesFor(size) == (size + CellsPer - 1) \div CellsPer
Pages == 0..PagesFor(MaxSize) - 1
Cells == 0..CellsPer - 1
None == <<>>                              \* a page that is not allocated
Empty == [size |-> 0, count |-> 0, page |-> [p \in Pages |-> None]]
Files == DOMAIN disk

With(n, f) == [m \in Files \cup {n} |-> IF m = n THEN f ELSE disk[m]]
Without(n) == [m \in Files \ {n} |-> disk[m]]
Allocated(f) == {p \in Pages : f.page[p] # None}

\* tmpfs_read, of the whole file.
Contents(f) ==
    [p \in 1..f.size |-> LET page == f.page[(p - 1) \div CellsPer]
                         IN IF page = None THEN 0 ELSE page[(p - 1) % CellsPer]]

\* account.
MayAccount(used) == Enforce => 1 <= Limit - used

-----------------------------------------------------------------------------
\* tmpfs_create, alloc_node_len (sys_open with O_CREAT): the new file is opened.
Create(n) ==
    /\ n \notin Files
    /\ disk' = With(n, Empty)
    /\ node' = node \cup {n}
    /\ UNCHANGED <<mem, full>>

\* tmpfs_finddir, make_vnode.
Open(n) ==
    /\ n \in Files \ node
    /\ node' = node \cup {n}
    /\ UNCHANGED <<disk, mem, full>>

Close(n) ==
    /\ n \in node
    /\ node' = node \ {n}
    /\ UNCHANGED <<disk, mem, full>>

\* ensure_file_capacity: page_count covers the write before any page is there.
Counted(f, end) == [f EXCEPT !.count = Max({@, PagesFor(end)})]

\* tmpfs_write, ensure_data_page: the pages of the write up to the first that
\* is refused; the file grows to the offset even if that is all.
Write(n, off, len) ==
    LET first == off \div CellsPer
        last == (off + len - 1) \div CellsPer
        f == Counted(disk[n], off + len)
        new(stop) == (first..stop - 1) \ Allocated(f)
    IN \E stop \in first..last + 1 :      \* the page that is refused; last + 1: none is
          LET done == IF stop > last THEN len ELSE Max({0, stop * CellsPer - off})
              page == [p \in Pages |->
                         IF p \notin first..stop - 1 THEN f.page[p]
                         ELSE [k \in Cells |-> IF p * CellsPer + k \in off..off + done - 1 THEN p * CellsPer + k + 1
                                               ELSE IF f.page[p] = None THEN 0 ELSE f.page[p][k]]]
          IN /\ n \in node
             /\ \A p \in new(stop) : MayAccount(mem + Cardinality({q \in new(stop) : q < p}))
             /\ stop <= last => stop \notin Allocated(f)
             /\ disk' = With(n, [f EXCEPT !.page = page, !.size = Max({@, off + done})])
             /\ mem' = mem + Cardinality(new(stop))
             /\ full' = (full \/ stop <= last)
             /\ UNCHANGED node

\* unaccount.
Unaccounted(k) == IF k > mem THEN 0 ELSE mem - k

\* tmpfs_truncate(0) (sys_open with O_TRUNC): the pages below page_count.
Truncate(n) ==
    LET f == disk[n]
        gone == {p \in Allocated(f) : p < f.count}
    IN /\ n \in node
       /\ disk' = With(n, [size |-> 0, count |-> 0,
                           page |-> [p \in Pages |-> IF p \in gone THEN None ELSE f.page[p]]])
       /\ mem' = Unaccounted(Cardinality(gone))
       /\ UNCHANGED <<node, full>>

\* tmpfs_unlink, free_node: the pages of the whole array.
Unlink(n) ==
    /\ n \in Files \ node
    /\ disk' = Without(n)
    /\ mem' = Unaccounted(Cardinality(Allocated(disk[n])))
    /\ UNCHANGED <<node, full>>

\* tmpfs_rename.
Rename(n, m) ==
    /\ n \in Files \ node /\ m \notin Files
    /\ disk' = [k \in (Files \ {n}) \cup {m} |-> IF k = m THEN disk[n] ELSE disk[k]]
    /\ UNCHANGED <<mem, node, full>>

-----------------------------------------------------------------------------
\* mount_common.
Init ==
    /\ disk = <<>>
    /\ mem = 0
    /\ node = {}
    /\ full = FALSE

Next ==
    \/ \E n \in Names : Create(n) \/ Open(n) \/ Close(n) \/ Truncate(n) \/ Unlink(n)
    \/ \E n \in Names, off \in 0..MaxSize - 1 : \E len \in 1..MaxSize - off : n \in Files /\ Write(n, off, len)
    \/ \E n, m \in Names : n # m /\ Rename(n, m)

Spec == Init /\ [][Next]_vars
-----------------------------------------------------------------------------
TypeOK ==
    /\ Files \subseteq Names /\ node \subseteq Files
    /\ mem \in Nat

Shown == [n \in Files |-> Contents(disk[n])]

Store == INSTANCE FileStore WITH files <- Shown

\* The driver keeps the promise of a file system: the files hold what was
\* written, zeroes where nothing was, whatever writes a full mount has cut
\* short (tmpfs_write, tmpfs_truncate, tmpfs_read).
Promise == [Store!Next]_Shown

\* What is accounted is what is allocated, within the limit, whatever has failed
\* (account, unaccount, ensure_data_page, free_node).
SpaceExact ==
    /\ mem = Cardinality({<<n, p>> \in Files \X Pages : p \in Allocated(disk[n])})
    /\ Enforce => mem <= Limit

\* A page lies below the page count, which tmpfs_truncate goes by, and the size
\* is within it (ensure_file_capacity).
DirectoryExact == \A n \in Files : /\ \A p \in Allocated(disk[n]) : p < disk[n].count
                                   /\ PagesFor(disk[n].size) <= disk[n].count
=============================================================================
