------------------------------ MODULE SlabHeap ------------------------------
(***************************************************************************)
(* The kernel heap: one slab cache of it, and the large allocations that   *)
(* compete with it for pages.  A slab is a page with a header and          *)
(* total_slots slots; a CPU allocates from a slab of its own without a     *)
(* lock, a slab that fills up is put on the full_slabs list, and kfree()   *)
(* works on any slab under the cache's lock.  The lists are modelled with  *)
(* the headers' next and prev pointers, since kfree() unlinks through      *)
(* them.  krealloc() is a kmalloc() followed by a kfree().                 *)
(***************************************************************************)
EXTENDS Naturals, Sequences, FiniteSets, SequencesExt

CONSTANTS
  CPUs,
  Pages,             \* pages pmm::alloc() can give
  SLOTS,             \* total_slots of a slab of this cache
  None

VARIABLES
  hdr,               \* hdr[p]: the slab header at page p
  partial, full,     \* list heads
  heap_cache,        \* heap_cache[c]: the slab CPU c allocates from
  early,             \* no per-CPU data yet
  large,             \* pages of large allocations
  held,              \* slots in the hands of callers: <<page, slot>>
  op                 \* op[c]: how far CPU c is in kmalloc()

vars == <<hdr, partial, full, heap_cache, early, large, held, op>>

NoSlab == [magic |-> FALSE, used |-> 0, free |-> <<>>, next |-> None, prev |-> None,
           owner |-> None]
Slots == [i \in 1 .. SLOTS |-> i]
Idle == [k |-> "idle"]
FreePages == {p \in Pages : ~hdr[p].magic /\ p \notin large}

Init ==
  /\ hdr = [p \in Pages |-> NoSlab]
  /\ partial = None /\ full = None
  /\ heap_cache = [c \in CPUs |-> None]
  /\ early = TRUE
  /\ large = {} /\ held = {}
  /\ op = [c \in CPUs |-> Idle]

(* smp::init_bsp() gives the CPU its cpu_local.                            *)
Online == early /\ early' = FALSE
          /\ UNCHANGED <<hdr, partial, full, heap_cache, large, held, op>>

----------------------------------------------------------------------------
(* list_remove(), list_push(), on the headers h and the list with the      *)
(* given head.                                                             *)
Relink(h, p) ==
  LET a == IF h[p].prev # None THEN [h EXCEPT ![h[p].prev].next = h[p].next] ELSE h
      b == IF h[p].next # None THEN [a EXCEPT ![h[p].next].prev = h[p].prev] ELSE a
  IN [b EXCEPT ![p].next = None, ![p].prev = None]
HeadWithout(head, h, p) == IF head = p THEN h[p].next ELSE head

Pushed(h, head, p) ==
  LET a == [h EXCEPT ![p].next = head, ![p].prev = None]
  IN IF head # None THEN [a EXCEPT ![head].prev = p] ELSE a

(* create_slab()                                                           *)
NewSlab(h, p) == [h EXCEPT ![p] = [NoSlab EXCEPT !.magic = TRUE, !.free = Slots]]

\* Mutant: used_slots is not counted.
TakeUncounted(h, p) == [h EXCEPT ![p].free = Tail(@)]

(* alloc_from_slab(), in one go: free_list = next of the first slot.       *)
Take(h, p) == [h EXCEPT ![p].free = Tail(@), ![p].used = @ + 1]

(* The headers and the first partial slab once the cache has one, if need  *)
(* be a new one.                                                           *)
Stock == IF partial # None THEN {<<hdr, partial>>}
         ELSE {<<Pushed(NewSlab(hdr, p), None, p), p>> : p \in FreePages}

----------------------------------------------------------------------------
(* kmalloc() before there is per-CPU data, all under the lock.             *)
KmallocEarly ==
  /\ early
  /\ \E st \in Stock :
       LET p == st[2]
           h == Take(st[1], p)
       IN /\ held' = held \cup {<<p, Head(st[1][p].free)>>}
          /\ IF h[p].used = SLOTS
             THEN /\ partial' = HeadWithout(p, h, p)
                  /\ hdr' = Pushed(Relink(h, p), full, p)
                  /\ full' = p
             ELSE hdr' = h /\ partial' = p /\ UNCHANGED full
  /\ UNCHANGED <<heap_cache, early, large, op>>

(* kmalloc(): the CPU's own slab, if it has a free slot ...                *)
HasLocal(c) == IF heap_cache[c] = None THEN FALSE ELSE hdr[heap_cache[c]].free # <<>>

KmallocLocal(c) ==
  /\ ~early /\ op[c] = Idle
  /\ HasLocal(c)
  /\ op' = [op EXCEPT ![c] = [k |-> "pop", p |-> heap_cache[c]]]
  /\ UNCHANGED <<hdr, partial, full, heap_cache, early, large, held>>

(* ... or one from the cache, which becomes the CPU's own.                 *)
Owned(h, p, c) == [Relink(h, p) EXCEPT ![p].owner = c]

KmallocRefill(c) ==
  /\ ~early /\ op[c] = Idle
  /\ ~HasLocal(c)
  /\ \E st \in Stock :
       LET p == st[2] IN
       /\ partial' = HeadWithout(p, st[1], p)
       /\ hdr' = Owned(st[1], p, c)
       /\ heap_cache' = [heap_cache EXCEPT ![c] = p]
       /\ op' = [op EXCEPT ![c] = [k |-> "pop", p |-> p]]
  /\ UNCHANGED <<full, early, large, held>>

(* alloc_from_slab() without a lock: read the first free slot and what     *)
(* follows it ...                                                          *)
PopRead(c) ==
  /\ op[c].k = "pop"
  /\ LET p == op[c].p IN
       op' = [op EXCEPT ![c] = IF hdr[p].free = <<>> THEN Idle
                               ELSE [k |-> "take", p |-> p, slot |-> Head(hdr[p].free),
                                     rest |-> Tail(hdr[p].free)]]
  /\ UNCHANGED <<hdr, partial, full, heap_cache, early, large, held>>

(* ... and make that the free list.                                        *)
PopWrite(c) ==
  /\ op[c].k = "take"
  /\ hdr' = [hdr EXCEPT ![op[c].p].free = op[c].rest, ![op[c].p].used = @ + 1]
  /\ held' = held \cup {<<op[c].p, op[c].slot>>}
  /\ op' = [op EXCEPT ![c] = [k |-> "retire", p |-> op[c].p]]
  /\ UNCHANGED <<partial, full, heap_cache, early, large>>

(* retire_full_local_slab()                                                *)
Retire(c) ==
  /\ op[c].k = "retire"
  /\ LET p == op[c].p IN
       IF hdr[p].used = SLOTS
       THEN /\ hdr' = Pushed([hdr EXCEPT ![p].owner = None], full, p)
            /\ full' = p
            /\ heap_cache' = [heap_cache EXCEPT ![c] = None]
       ELSE UNCHANGED <<hdr, full, heap_cache>>
  /\ op' = [op EXCEPT ![c] = Idle]
  /\ UNCHANGED <<partial, early, large, held>>

----------------------------------------------------------------------------
(* kfree() of a slot, under the cache's lock.  An empty slab that no CPU   *)
(* owns goes back to the page allocator, and is taken off partial_slabs.   *)
GivenBack(h, p, i) == [h EXCEPT ![p].free = <<i>> \o @, ![p].used = @ - 1]

WasFull(h, p) == h[p].used = SLOTS

Unowned(h, p) == h[p].owner = None

Kfree(c, p, i) ==
  /\ op[c] = Idle
  /\ <<p, i>> \in held
  /\ held' = held \ {<<p, i>>}
  /\ LET h == GivenBack(hdr, p, i) IN
       IF h[p].used = 0
       THEN IF Unowned(hdr, p)
            THEN /\ partial' = HeadWithout(partial, h, p)
                 /\ hdr' = [Relink(h, p) EXCEPT ![p].magic = FALSE]
                 /\ UNCHANGED full
            ELSE hdr' = h /\ UNCHANGED <<partial, full>>
       ELSE IF WasFull(hdr, p)
       THEN /\ full' = HeadWithout(full, h, p)
            /\ hdr' = Pushed(Relink(h, p), partial, p)
            /\ partial' = p
       ELSE hdr' = h /\ UNCHANGED <<partial, full>>
  /\ UNCHANGED <<heap_cache, early, large, op>>

(* alloc_large(), and kfree() of what it returned.                         *)
KmallocLarge(p) ==
  /\ p \in FreePages
  /\ large' = large \cup {p}
  /\ UNCHANGED <<hdr, partial, full, heap_cache, early, held, op>>

KfreeLarge(p) ==
  /\ p \in large
  /\ large' = large \ {p}
  /\ UNCHANGED <<hdr, partial, full, heap_cache, early, held, op>>

----------------------------------------------------------------------------
Next ==
  \/ Online \/ KmallocEarly
  \/ \E c \in CPUs :
       \/ KmallocLocal(c) \/ KmallocRefill(c) \/ PopRead(c) \/ PopWrite(c) \/ Retire(c)
       \/ \E p \in Pages, i \in 1 .. SLOTS : Kfree(c, p, i)
  \/ \E p \in Pages : KmallocLarge(p) \/ KfreeLarge(p)

Spec == Init /\ [][Next]_vars

----------------------------------------------------------------------------
TypeOK ==
  /\ hdr \in [Pages -> [magic : BOOLEAN, used : 0 .. SLOTS, free : Seq(1 .. SLOTS),
                        next : Pages \cup {None}, prev : Pages \cup {None},
                        owner : CPUs \cup {None}]]
  /\ {partial, full} \subseteq Pages \cup {None}
  /\ heap_cache \in [CPUs -> Pages \cup {None}]
  /\ early \in BOOLEAN /\ large \subseteq Pages
  /\ held \subseteq Pages \X (1 .. SLOTS)

(* A slot that a caller gave back is there to be given out again: each     *)
(* slot of a live slab is either in the hands of exactly one caller or     *)
(* exactly once on the slab's free list, and used_slots counts the former. *)
SlotsExact ==
  \A p \in Pages :
    IF hdr[p].magic
    THEN LET mine == {i \in 1 .. SLOTS : <<p, i>> \in held} IN
         /\ ToSet(hdr[p].free) = (1 .. SLOTS) \ mine
         /\ Len(hdr[p].free) = SLOTS - Cardinality(mine)
         /\ hdr[p].used = Cardinality(mine)
    ELSE \A i \in 1 .. SLOTS : <<p, i>> \notin held

(* The pages reached from a list head.                                     *)
Listed(head) ==
  LET walk[k \in 0 .. Cardinality(Pages)] ==
        IF k = 0 THEN {head} \ {None}
        ELSE walk[k - 1] \cup ({hdr[p].next : p \in walk[k - 1]} \ {None})
  IN walk[Cardinality(Pages)]

(* full_slabs holds live slabs that are "completely used", and all of      *)
(* those no CPU owns.                                                      *)
FullSlabsFull ==
  Listed(full) = {p \in Pages : hdr[p].magic /\ hdr[p].owner = None /\ hdr[p].used = SLOTS}

(* partial_slabs holds live slabs "with some free slots" that no CPU owns, *)
(* and all of them: no slot is out of reach, and none is reached both from *)
(* the list and from a CPU's own slab.                                     *)
PartialSlabsFree ==
  Listed(partial) = {p \in Pages : hdr[p].magic /\ hdr[p].owner = None /\ hdr[p].used < SLOTS}

(* The slab a CPU allocates from without a lock is live and is its own.    *)
OwnSlabLive ==
  \A c \in CPUs : heap_cache[c] # None =>
    hdr[heap_cache[c]].magic /\ hdr[heap_cache[c]].owner = c
=============================================================================
