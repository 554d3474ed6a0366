-------------------------------- MODULE Pmm --------------------------------
(***************************************************************************)
(* The buddy allocator of physical pages (memory/pmm.cpp) with its sparse  *)
(* reference counts.  Addresses are page numbers; every operation runs     *)
(* under pmm_lock and is one step, except that unref_page drops the lock   *)
(* between a count that reached zero and the free of the page.             *)
(*                                                                         *)
(* The memory m is a record of the free lists, the cached mask of non-empty*)
(* orders, the count of free pages, the radix nodes that hold reference    *)
(* counts with the page each of them lives in, and whether the kernel has  *)
(* panicked.  Clients allocate blocks, give them back whole, or use them   *)
(* page by page through ref_page and unref_page as the VM layer does.      *)
(***************************************************************************)
EXTENDS Naturals, Sequences, FiniteSets, SequencesExt, FiniteSetsExt

CONSTANTS Start, End,   \* the managed pages are Start..End-1
          MaxOrder,     \* active_max_order
          LEAF,         \* REFCOUNTS_PER_LEAF
          RADIX,        \* REF_RADIX_ENTRIES
          LEVELS,       \* REF_RADIX_LEVELS
          Windows,      \* the <<min_phys, max_phys_exclusive>> that drivers ask for
          MaxUsers      \* bound on the references to one page

VARIABLES m,        \* the allocator
          ref,      \* the reference counts
          users,    \* references the clients hold on each page
          blocks,   \* whole blocks the clients hold
          zero      \* pages whose count reached zero and that are not freed yet

vars == <<m, ref, users, blocks, zero>>

Pages == Start..(End - 1)
Orders == 0..MaxOrder
Size(o) == 2^o
Block(a, o) == a..(a + Size(o) - 1)

\* mark_order_empty, after a block has left the list of o.
TakenMask(mm, o) == IF Len(mm.free[o]) = 1 THEN mm.mask \ {o} ELSE mm.mask

\* push_block
Push(mm, a, o) ==
    [mm EXCEPT !.free[o] = <<a>> \o @, !.mask = @ \cup {o}, !.count = @ + Size(o),
               !.panic = @ \/ a % Size(o) # 0]

\* remove_block; pop_block is the case of the first block.
TakeOff(mm, a, o) ==
    [mm EXCEPT !.free[o] = SelectSeq(@, LAMBDA b : b # a), !.mask = TakenMask(mm, o),
               !.count = @ - Size(o)]

\* The splits of alloc: the block at a of order i gives back its upper halves
\* until order o is left.
Split(mm, a, i, o) ==
    FoldLeft(LAMBDA acc, j : Push(acc, a + Size(i - j), i - j), mm, [j \in 1..(i - o) |-> j])

\* first_nonempty_order; an order whose list turns out empty is skipped.
Fits(mm, o) == {i \in mm.mask : i >= o /\ mm.free[i] # <<>>}

\* alloc_metadata_page_locked; nobody but the radix tree knows the page.
MetaPage(mm, node) ==
    IF Fits(mm, 0) = {} THEN [mm EXCEPT !.panic = TRUE]
    ELSE LET i == Min(Fits(mm, 0))
             a == Head(mm.free[i])
         IN  [Split(TakeOff(mm, a, i), a, i, 0) EXCEPT !.nodes = @ \cup {[id |-> node, page |-> a]}]

\* The radix nodes on the way to the count of page p, from the top.
Path(p) == [l \in 1..LEVELS |-> <<LEVELS - l, (p \div LEAF) \div RADIX^(LEVELS - l)>>]

\* get_ref_slot_locked with create; stops where memory runs out.
Slot(mm, p) ==
    FoldLeft(LAMBDA acc, id : IF acc.panic \/ \E n \in acc.nodes : n.id = id THEN acc
                              ELSE MetaPage(acc, id), mm, Path(p))

HasSlot(mm, p) == \E n \in mm.nodes : n.id = Path(p)[LEVELS]

\* init_refcounts_locked: the nodes.
Slots(mm, a, o) == FoldLeft(LAMBDA acc, i : Slot(acc, a + i - 1), mm, [i \in 1..Size(o) |-> i])

\* The blocks push_range_locked and add_span cut a range into.
PieceOrder(c, last) ==
    Max({o \in Orders : c % Size(o) = 0 /\ Size(o) <= last - c})

PushRange(mm, first, last) ==
    LET rest[c \in first..last] ==
            IF c >= last THEN <<>> ELSE <<c>> \o rest[c + Size(PieceOrder(c, last))]
    IN  FoldLeft(LAMBDA acc, c : Push(acc, c, PieceOrder(c, last)), mm, rest[first])

Buddy(a, o) == IF (a \div Size(o)) % 2 = 0 THEN a + Size(o) ELSE a - Size(o)

\* One turn of the merge loop of free.
Merge(mm, a, o) ==
    LET b == Buddy(a, o)
    IN  IF b \in Range(mm.free[o])
        THEN [mm |-> TakeOff(mm, b, o), a |-> Min({a, b}), o |-> o + 1, go |-> TRUE]
        ELSE [mm |-> mm, a |-> a, o |-> o, go |-> FALSE]

\* free, the counts aside.
Freed(mm, a, o) ==
    LET acc == FoldLeft(LAMBDA s, k : IF s.go THEN Merge(s.mm, s.a, s.o) ELSE s,
                        [mm |-> mm, a |-> a, o |-> o, go |-> TRUE], [k \in 1..(MaxOrder - o) |-> k])
    IN  Push(acc.mm, acc.a, acc.o)

Init ==
    /\ m = PushRange([free |-> [o \in Orders |-> <<>>], mask |-> {}, count |-> 0, nodes |-> {}, panic |-> FALSE],
                     Start, End)
    /\ ref = [p \in Pages |-> 0]
    /\ users = [p \in Pages |-> 0]
    /\ blocks = {}
    /\ zero = {}

\* init_refcounts_locked: the counts.
Counted(a, o) == [p \in Pages |-> IF p \in Block(a, o) THEN 1 ELSE ref[p]]

\* What the client gets: the block and one reference on each of its pages.
Take(a, o, mm) ==
    /\ m' = mm
    /\ ref' = Counted(a, o)
    /\ users' = [p \in Pages |-> IF p \in Block(a, o) THEN 1 ELSE users[p]]
    /\ blocks' = blocks \cup {<<a, o>>}
    /\ UNCHANGED zero

\* alloc; without a block that fits it returns 0 and nothing changes.
Alloc(o) ==
    /\ ~m.panic /\ Fits(m, o) # {}
    /\ LET i == Min(Fits(m, o))
           a == Head(m.free[i])
       IN  Take(a, o, Slots(Split(TakeOff(m, a, i), a, i, o), a, o))

\* Where alloc_constrained puts a block of order o in a free block of order i:
\* at or above lo, below hi, aligned to its size.
Candidates(a, i, o, lo, hi) ==
    {c \in a..(a + Size(i) - Size(o)) : c >= lo /\ c + Size(o) <= hi /\ c % Size(o) = 0}

\* Mutant: the part of the block behind the candidate is forgotten.
CarveFront(mm, a, i, c, o) == PushRange(TakeOff(mm, a, i), a, c)

Carve(mm, a, i, c, o) ==
    PushRange(PushRange(TakeOff(mm, a, i), a, c), c + Size(o), a + Size(i))

\* alloc_constrained: orders upwards, each list from its head.
AllocConstrained(o, lo, hi) ==
    /\ ~m.panic
    /\ LET ok(i, k) == Candidates(m.free[i][k], i, o, lo, hi) # {}
           sizes == {i \in Fits(m, o) : \E k \in 1..Len(m.free[i]) : ok(i, k)}
           i == Min(sizes)
           a == m.free[i][Min({k \in 1..Len(m.free[i]) : ok(i, k)})]
           c == Min(Candidates(a, i, o, lo, hi))
       IN  /\ sizes # {}
           /\ Take(c, o, Slots(Carve(m, a, i, c, o), c, o))

\* free of a whole block; the counts are cleared.
Free(a, o) ==
    /\ ~m.panic /\ <<a, o>> \in blocks /\ \A p \in Block(a, o) : users[p] = 1
    /\ m' = Freed(m, a, o)
    /\ ref' = [p \in Pages |-> IF p \in Block(a, o) THEN 0 ELSE ref[p]]
    /\ users' = [p \in Pages |-> IF p \in Block(a, o) THEN 0 ELSE users[p]]
    /\ blocks' = blocks \ {<<a, o>>}
    /\ UNCHANGED zero

\* ref_page, by a client that has a reference.
RefPage(p) ==
    /\ ~m.panic /\ users[p] \in 1..(MaxUsers - 1)
    /\ m' = Slot(m, p)
    /\ ref' = [ref EXCEPT ![p] = @ + 1]
    /\ users' = [users EXCEPT ![p] = @ + 1]
    /\ UNCHANGED <<blocks, zero>>

\* A block used page by page is no longer given back whole.
Holders(p) == {b \in blocks : p \in Block(b[1], b[2])}

\* unref_page: the count; at zero the page is to be freed.
GivesUp(p) == HasSlot(m, p) /\ ref[p] <= 1

UnrefPage(p) ==
    /\ ~m.panic /\ users[p] > 0
    /\ users' = [users EXCEPT ![p] = @ - 1]
    /\ ref' = [ref EXCEPT ![p] = IF @ > 0 THEN @ - 1 ELSE 0]
    /\ zero' = IF GivesUp(p) THEN zero \cup {p} ELSE zero
    /\ blocks' = blocks \ Holders(p)
    /\ UNCHANGED m

\* .. and its free, after the lock was dropped.
FreeZero(p) ==
    /\ ~m.panic /\ p \in zero
    /\ m' = Freed(m, p, 0)
    /\ ref' = [ref EXCEPT ![p] = 0]
    /\ zero' = zero \ {p}
    /\ UNCHANGED <<users, blocks>>

Next ==
    \/ \E o \in Orders : Alloc(o) \/ \E w \in Windows : AllocConstrained(o, w[1], w[2])
    \/ \E b \in blocks : Free(b[1], b[2])
    \/ \E p \in Pages : RefPage(p) \/ UnrefPage(p) \/ FreeZero(p)

Spec == Init /\ [][Next]_vars
-----------------------------------------------------------------------------
FreeBlocks == {<<m.free[o][k], o>> : <<o, k>> \in
                  {x \in Orders \X (1..(End - Start)) : x[2] <= Len(m.free[x[1]])}}
FreePages == UNION {Block(b[1], b[2]) : b \in FreeBlocks}
MetaPages == {n.page : n \in m.nodes}
Used == {p \in Pages : users[p] > 0}

TypeOK ==
    /\ \A o \in Orders : \A a \in Range(m.free[o]) : Block(a, o) \subseteq Pages
    /\ MetaPages \subseteq Pages
    /\ m.mask \subseteq Orders /\ m.count \in 0..(End - Start)
    /\ ref \in [Pages -> 0..MaxUsers] /\ users \in [Pages -> 0..MaxUsers]
    /\ \A b \in blocks : Block(b[1], b[2]) \subseteq Pages
    /\ zero \subseteq Pages

\* Every managed page is exactly one of free, held by clients, a radix node or
\* on its way back: no page is handed out twice, and none is lost, through
\* splits, merges, constrained carving and metadata allocations.
EveryPageOnce ==
    ~m.panic =>
       /\ \A x, y \in FreeBlocks : x # y => Block(x[1], x[2]) \cap Block(y[1], y[2]) = {}
       /\ Cardinality(FreeBlocks) = SumFunction([o \in Orders |-> Len(m.free[o])])
       /\ Cardinality(MetaPages) = Cardinality(m.nodes)
       /\ Cardinality(FreePages) + Cardinality(Used) + Cardinality(MetaPages) + Cardinality(zero)
             = End - Start
       /\ FreePages \cup Used \cup MetaPages \cup zero = Pages

\* The cached mask and the count of free pages are those of the lists, and no
\* block in a list is misaligned ("PMM: invalid free block").
CachesExact ==
    ~m.panic =>
       /\ m.mask = {o \in Orders : m.free[o] # <<>>}
       /\ m.count = Cardinality(FreePages)
       /\ \A b \in FreeBlocks : b[1] % Size(b[2]) = 0

\* The count of a page that is in use is the number of its users, so that no
\* user's page is freed by another (the fork and exec case pmm.cpp tells of in
\* free).
CountsExact == ~m.panic => \A p \in Used : ref[p] = users[p]

\* Two free buddies are never left apart: memory that is all free again is in
\* blocks as large as at boot.
FullyMerged ==
    ~m.panic => \A b \in FreeBlocks : b[2] < MaxOrder => <<Buddy(b[1], b[2]), b[2]>> \notin FreeBlocks

\* pmm.h on alloc: the address, "or 0 if allocation failed".
NeverPanics == ~m.panic
=============================================================================
