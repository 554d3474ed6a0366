----------------------------- MODULE VmAreas -----------------------------
(***************************************************************************)
(* A process's memory areas: the sorted list of vm_area records and the     *)
(* mmap, munmap and brk calls that edit it (syscall.cpp), with add_vma,     *)
(* remove_vma and clone_vmas (scheduler.cpp).  Addresses are in units of    *)
(* which PageSize make a page; mapped is the set of pages with an entry in  *)
(* the page tables, present or to be filled on demand.  A process has one   *)
(* thread here; fork copies the list.                                       *)
(***************************************************************************)
EXTENDS Integers, Sequences, FiniteSets, SequencesExt

CONSTANTS
    PageSize,
    HeapPage,     \* the page the heap starts on, above the image
    MmapMin, MmapWindow,  \* the pages choose_mmap_addr searches
    StackPage,    \* the first page of the stack area, its guard
    TopPage,      \* user_top
    Addrs, Sizes, \* addresses and lengths the calls are given, in units
    Kinds,        \* what is mapped: "ANON" memory, a "DEVICE" file's
    MaxAreas      \* bound on the areas mapped at a time

VARIABLES
    areas,        \* vma_list: [start, end, type], in pages, by address
    mapped,       \* pages with a page table entry
    brk,          \* program_break, in units
    hint,         \* mmap_hint, in pages
    refused       \* history: pages the last call, an mmap with no address,
                  \* was refused; 0 after any other call

vars == <<areas, mapped, brk, hint, refused>>

Area(s, e, ty) == [start |-> s, end |-> e, type |-> ty]
Pages(a) == a.start..(a.end - 1)
Image == Area(1, HeapPage, "IMAGE")
Heap0 == Area(HeapPage, HeapPage + 1, "HEAP")
StackArea == Area(StackPage, TopPage - 1, "STACK")

Init ==
    /\ areas = <<Image, Heap0, StackArea>>
    /\ mapped = Pages(Image) \cup Pages(StackArea)
    /\ brk = HeapPage * PageSize
    /\ hint \in MmapMin..(MmapMin + MmapWindow - 1)     \* random_mmap_base
    /\ refused = 0

-----------------------------------------------------------------------------
Up(x) == (x + PageSize - 1) \div PageSize
Down(x) == x \div PageSize

is_page_range(s, e) == s # 0 /\ e > s /\ e < TopPage
Overlaps(a, s, e) == s < a.end /\ e > a.start
vma_range_free(l, s, e) == is_page_range(s, e) /\ \A k \in DOMAIN l : ~Overlaps(l[k], s, e)

\* add_vma: the list with the area in its place, or the list itself when the
\* range is not free.
add_vma(l, a) ==
    IF ~vma_range_free(l, a.start, a.end) THEN l
    ELSE LET k == Cardinality({j \in DOMAIN l : l[j].start < a.start})
         IN SubSeq(l, 1, k) \o <<a>> \o SubSeq(l, k + 1, Len(l))
\* clone_vmas: the areas added one by one to an empty list.
clone_vmas(l) == FoldLeft(add_vma, <<>>, l)

Limit == IF MmapMin + MmapWindow > TopPage THEN TopPage ELSE MmapMin + MmapWindow
\* choose_mmap_addr: from the hint upwards past every area in the way, then
\* once more from the bottom of the window; 0 when neither finds room.
Search(n) ==
    LET f[c \in 0..TopPage] ==
          IF c < MmapMin \/ c > Limit \/ n > Limit - c THEN 0
          ELSE LET hits == {k \in DOMAIN areas : Overlaps(areas[k], c, c + n)}
               IN IF hits = {} THEN c ELSE f[areas[CHOOSE k \in hits : \A j \in hits : k <= j].end]
    IN f
choose_mmap_addr(n) == IF Search(n)[hint] # 0 THEN Search(n)[hint] ELSE Search(n)[MmapMin]

Done == refused' = 0
Refuse(n) == refused' = n /\ UNCHANGED <<areas, mapped, brk, hint>>

\* sys_mmap of an anonymous or a device range, at a fixed address, at one that is
\* asked for, or where the kernel likes (0).  The record may not be had.
Mmap(fixed, addr, len, ty) ==
    LET n == Up(len)
        virt == IF fixed THEN Down(addr) ELSE IF addr # 0 THEN Up(addr) ELSE choose_mmap_addr(n)
    IN /\ Len(areas) < MaxAreas
       /\ IF \/ virt = 0
             \/ fixed /\ virt * PageSize # addr
             \/ virt >= TopPage
             \/ virt + n > TopPage
             \/ ~vma_range_free(areas, virt, virt + n)
          THEN Refuse(IF fixed \/ addr # 0 THEN 0 ELSE n)
          ELSE \/ /\ areas' = add_vma(areas, Area(virt, virt + n, ty))
                  /\ mapped' = mapped \cup virt..(virt + n - 1)
                  /\ hint' = IF fixed THEN hint ELSE virt + n
                  /\ Done /\ UNCHANGED brk
               \/ Refuse(0)

\* sys_munmap: within one area.  Cutting a hole first adds the part above the
\* hole as an area of its own; add_vma takes no range an area still covers, so
\* the call is refused.
Munmap(addr, len) ==
    LET virt == Down(addr)
        n == Up(addr - virt * PageSize + len)
        end == virt + n
        In(k) == virt \in Pages(areas[k])
    IN IF virt = 0 \/ end > TopPage \/ ~\E k \in DOMAIN areas : In(k) THEN Refuse(0)
       ELSE LET k == CHOOSE j \in DOMAIN areas : In(j)
                a == areas[k]
                tail == add_vma(areas, Area(end, a.end, a.type))
            IN IF \/ a.type \notin {"ANON", "DEVICE"}
                  \/ end > a.end
                  \/ virt > a.start /\ end < a.end /\ tail = areas
               THEN Refuse(0)
               ELSE /\ areas' = IF virt = a.start /\ end = a.end
                                THEN RemoveAt(areas, k)
                                ELSE IF virt = a.start THEN [areas EXCEPT ![k].start = end]
                                                       ELSE [areas EXCEPT ![k].end = virt]
                    /\ mapped' = mapped \ (virt..(end - 1))
                    /\ Done /\ UNCHANGED <<brk, hint>>

\* Mutant: the break grows over whatever is mapped above the heap.
NeverBlocked(heap, new) == FALSE

\* range_overlaps_vma: an area other than the heap is in the way.
GrowBlocked(heap, new) == \E k \in DOMAIN areas : areas[k] # heap /\ Overlaps(areas[k], heap.end, new)

HeapIndex == CHOOSE k \in DOMAIN areas : areas[k].type = "HEAP"
\* sys_brk.
Brk(req) ==
    LET h == HeapIndex
        heap == areas[h]
        old == Up(brk)
        new == Up(req)
    IN IF \/ req >= TopPage * PageSize
          \/ req < heap.start * PageSize
          \/ req > StackPage * PageSize
          \/ new > old /\ GrowBlocked(heap, new)
       THEN Refuse(0)
       ELSE /\ mapped' = IF new > old THEN mapped \cup old..(new - 1) ELSE mapped \ (new..(old - 1))
            /\ areas' = [areas EXCEPT ![h].end =
                 IF new > old THEN (IF new > @ THEN new ELSE @)
                 ELSE IF new < old THEN (IF new > heap.start THEN new ELSE heap.start + 1)
                 ELSE @]
            /\ brk' = req
            /\ Done /\ UNCHANGED hint

\* fork: the child goes on with the cloned list.
Fork ==
    /\ areas' = clone_vmas(areas)
    /\ Done /\ UNCHANGED <<mapped, brk, hint>>

Next ==
    \/ \E f \in BOOLEAN, addr \in Addrs, len \in Sizes, ty \in Kinds : Mmap(f, addr, len, ty)
    \/ \E addr \in Addrs, len \in Sizes : Munmap(addr, len)
    \/ \E req \in Addrs : Brk(req)
    \/ Fork

Spec == Init /\ [][Next]_vars

-----------------------------------------------------------------------------
TypeOK == /\ mapped \subseteq 1..(TopPage - 1) /\ brk \in 0..(TopPage * PageSize)
          /\ \A k \in DOMAIN areas : areas[k].type \in {"IMAGE", "HEAP", "STACK", "ANON", "DEVICE"}

Covered == UNION {Pages(areas[k]) : k \in DOMAIN areas}
\* The list and the page tables tell the same story after every sequence of
\* calls: the areas are in order and never overlap or touch the top, no page is
\* mapped outside them, the pages of a mapped area are all there, and those of
\* the heap are exactly the pages up to the break; and a fork's copy of the list
\* (which adds the areas again, one by one) loses none of them.
AreasExact ==
    /\ \A k \in DOMAIN areas : is_page_range(areas[k].start, areas[k].end)
    /\ \A j, k \in DOMAIN areas : j < k => areas[j].end <= areas[k].start
    /\ mapped \subseteq Covered
    /\ \A k \in DOMAIN areas : areas[k].type # "HEAP" => Pages(areas[k]) \subseteq mapped
    /\ LET heap == areas[HeapIndex] IN
       /\ Pages(heap) \cap mapped = heap.start..(Up(brk) - 1)
       /\ Up(brk) <= heap.end
    /\ clone_vmas(areas) = areas

\* An mmap that leaves the place to the kernel fails only when the window has
\* no gap of that size, wherever the hint has got to.
Gap(n) == \E c \in MmapMin..(Limit - n) : vma_range_free(areas, c, c + n)
MmapFindsRoom == refused # 0 => ~Gap(refused)

=============================================================================
