----------------------------- MODULE KernelStack -----------------------------
(***************************************************************************)
(* VirtualRangeAllocator and its two clients: kernel stacks, which leave   *)
(* an unmapped guard page on each side (GUARD = 1), and MMIO windows,      *)
(* which map the whole range (GUARD = 0).  Addresses count pages.  Each    *)
(* CPU runs alloc_kernel_stack() or mmio_map() and their inverses; only    *)
(* the allocator's own two operations hold its lock, so the CPUs           *)
(* interleave between them and between the pages of an unmapping.          *)
(***************************************************************************)
EXTENDS Naturals, Sequences, SequencesExt

CONSTANTS
  CPUs,
  BASE, SIZE,        \* the window the allocator hands out
  Sizes,             \* usable sizes clients ask for
  GUARD,             \* 1 for kernel stacks, 0 for MMIO windows
  MAX_SEGS           \* bound: kmalloc() fails beyond this many segments

VARIABLES
  segs,      \* the list of segments, in list order
  mapped,    \* pages that have a mapping
  live,      \* stacks or windows handed out: [base, size] of the usable part
  op         \* op[c]: what CPU c is in the middle of

vars == <<segs, mapped, live, op>>

Seg(start, size, free) == [start |-> start, size |-> size, free |-> free]
Pages(base, n) == base .. (base + n - 1)
Total(n) == n + 2 * GUARD

Init ==
  /\ segs = <<Seg(BASE, SIZE, TRUE)>>
  /\ mapped = {}
  /\ live = {}
  /\ op = [c \in CPUs |-> [k |-> "idle"]]

----------------------------------------------------------------------------

\* Mutant: a segment one page too small will do.
FitsBy(s, n) == s.free /\ s.size + 1 >= n

(* allocate(): the first free segment that is large enough.  Splitting it  *)
(* needs memory for a new segment.                                         *)
Fits(s, n) == s.free /\ s.size >= n
FirstFit(n) == SelectInSeq(segs, LAMBDA s : Fits(s, n))

Split(i, n) ==
  LET s == segs[i]
      taken == Seg(s.start, n, FALSE)
  IN IF s.size > n
     THEN InsertAt(ReplaceAt(segs, i, taken), i + 1, Seg(s.start + n, s.size - n, TRUE))
     ELSE ReplaceAt(segs, i, taken)

(* coalesce(): the segment takes in a free successor, then a free          *)
(* predecessor takes in the segment.                                       *)
MergeNext(q, i) ==
  IF i < Len(q) /\ q[i + 1].free
  THEN RemoveAt(ReplaceAt(q, i, Seg(q[i].start, q[i].size + q[i + 1].size, TRUE)), i + 1)
  ELSE q

MergePrev(q, i) ==
  IF i > 1 /\ q[i - 1].free
  THEN RemoveAt(ReplaceAt(q, i - 1, Seg(q[i - 1].start, q[i - 1].size + q[i].size, TRUE)), i)
  ELSE q

(* free(): the segment that starts at the address, if there is one.        *)
Freed(addr) ==
  LET i == SelectInSeq(segs, LAMBDA s : s.start = addr) IN
  IF i = 0 THEN segs
  ELSE MergePrev(MergeNext(ReplaceAt(segs, i, [segs[i] EXCEPT !.free = TRUE]), i), i)

----------------------------------------------------------------------------
(* alloc_kernel_stack(), mmio_map(): reserve addresses ...                 *)
Reserve(c, n) ==
  /\ op[c].k = "idle"
  /\ LET i == FirstFit(Total(n)) IN
       /\ i # 0
       /\ segs[i].size > Total(n) => Len(segs) < MAX_SEGS
       /\ segs' = Split(i, Total(n))
       /\ op' = [op EXCEPT ![c] = [k |-> "reserved", at |-> segs[i].start, n |-> n]]
  /\ UNCHANGED <<mapped, live>>

(* ... then back them with memory and map the part between the guards ...  *)
UsableFrom(at) == at + GUARD

Back(c) ==
  /\ op[c].k = "reserved"
  /\ LET base == UsableFrom(op[c].at) IN
       /\ mapped' = mapped \cup Pages(base, op[c].n)
       /\ live' = live \cup {[base |-> base, size |-> op[c].n]}
  /\ op' = [op EXCEPT ![c] = [k |-> "idle"]]
  /\ UNCHANGED segs

(* ... or give them back when pmm::alloc() has nothing.                    *)
BackFails(c) ==
  /\ GUARD = 1
  /\ op[c].k = "reserved"
  /\ segs' = Freed(op[c].at)
  /\ op' = [op EXCEPT ![c] = [k |-> "idle"]]
  /\ UNCHANGED <<mapped, live>>

(* free_kernel_stack(), mmio_unmap(): the caller gives up a stack, its     *)
(* pages lose their mappings one by one, and only then are the addresses   *)
(* returned.                                                               *)
Release(c) ==
  /\ op[c].k = "idle"
  /\ \E r \in live :
       /\ live' = live \ {r}
       /\ op' = [op EXCEPT ![c] = [k |-> "unmap", base |-> r.base, n |-> r.size, off |-> 0]]
  /\ UNCHANGED <<segs, mapped>>

AfterPage(off) == off + 1

UnmapPage(c) ==
  /\ op[c].k = "unmap" /\ op[c].off < op[c].n
  /\ mapped' = mapped \ {op[c].base + op[c].off}
  /\ op' = [op EXCEPT ![c].off = AfterPage(@)]
  /\ UNCHANGED <<segs, live>>

LowGuard(base) == base - GUARD

Return(c) ==
  /\ op[c].k = "unmap" /\ op[c].off = op[c].n
  /\ segs' = Freed(LowGuard(op[c].base))
  /\ op' = [op EXCEPT ![c] = [k |-> "idle"]]
  /\ UNCHANGED <<mapped, live>>

Next ==
  \E c \in CPUs :
    \/ \E n \in Sizes : Reserve(c, n)
    \/ Back(c) \/ BackFails(c) \/ Release(c) \/ UnmapPage(c) \/ Return(c)

Spec == Init /\ [][Next]_vars

----------------------------------------------------------------------------
Window == BASE .. (BASE + SIZE - 1)

TypeOK ==
  /\ segs \in Seq([start : Window, size : 1 .. SIZE, free : BOOLEAN])
  /\ Len(segs) \in 1 .. MAX_SEGS
  /\ mapped \subseteq Window
  /\ live \subseteq [base : Window, size : Sizes]

(* The segments cover the window from end to end, without a gap and        *)
(* without an overlap (the splits of allocate() and the merges of          *)
(* coalesce()).                                                            *)
Tiles ==
  /\ Head(segs).start = BASE
  /\ \A i \in 1 .. Len(segs) :
       segs[i].start + segs[i].size =
         IF i = Len(segs) THEN BASE + SIZE ELSE segs[i + 1].start

(* Two free segments are never neighbours: free() "merges adjacent free    *)
(* blocks", so what was given back can be handed out in one piece.         *)
Coalesced ==
  \A i \in 1 .. Len(segs) - 1 : ~(segs[i].free /\ segs[i + 1].free)

(* Ranges in somebody's hands: a stack in use or under construction.       *)
Held ==
  {<<r.base - GUARD, Total(r.size)>> : r \in live}
  \cup {<<op[c].at, Total(op[c].n)>> : c \in {d \in CPUs : op[d].k = "reserved"}}
  \cup {<<op[c].base - GUARD, Total(op[c].n)>> : c \in {d \in CPUs : op[d].k = "unmap"}}

(* The used segments are exactly the ranges in somebody's hands: none is   *)
(* handed out twice, none is lost when building a stack fails half way.    *)
HeldExactly ==
  {<<s.start, s.size>> : s \in {segs[i] : i \in {j \in 1 .. Len(segs) : ~segs[j].free}}}
    = Held

(* A page is mapped if and only if it is a usable page of a stack in use,  *)
(* or one a free_kernel_stack() has not come to yet: guard pages and       *)
(* returned addresses fault, and the "corrupt kernel stack mapping" panic  *)
(* of free_kernel_stack is not reached.                                    *)
MappedExactly ==
  mapped = UNION {Pages(r.base, r.size) : r \in live}
    \cup UNION {(op[c].base + op[c].off) .. (op[c].base + op[c].n - 1) :
                  c \in {d \in CPUs : op[d].k = "unmap"}}
=============================================================================
