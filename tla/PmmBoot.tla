------------------------------ MODULE PmmBoot ------------------------------
(***************************************************************************)
(* pmm::init and release_deferred_memory: from the firmware's memory map   *)
(* and the reserved ranges to the pages handed to the buddy allocator, the *)
(* spans of the direct map, the page of the AP trampoline and the largest  *)
(* block order.  Addresses are bytes of small pages; one step per entry of *)
(* the map, then one for the memory above the temporary boot mapping.      *)
(***************************************************************************)
EXTENDS Naturals, Sequences, FiniteSets, SequencesExt, FiniteSetsExt

CONSTANTS PAGE,        \* PAGE_SIZE
          LOW,         \* 0x100000: reserved, home of the trampoline
          EARLY,       \* EARLY_DIRECT_MAP_BYTES
          TRAMPOLINE,  \* bytes of the trampoline, whole pages
          TARGET,      \* TARGET_TOP_LEVEL_BLOCKS
          MIN_ORDER, MAX_ORDER_LIMIT,
          Edges,       \* where entries of the memory map begin and end
          Cuts,        \* where reserved ranges begin and end
          Entries      \* number of entries

VARIABLES mmap,      \* the available entries, as <<start, end>>
          reserved,  \* the reserved ranges, the low megabyte first
          done,      \* entries processed
          freed,     \* page numbers given to the buddy allocator
          managed,   \* managed_bytes
          deferred,  \* deferred_spans
          direct,    \* direct_map_spans
          late       \* release_deferred_memory has run

vars == <<mmap, reserved, done, freed, managed, deferred, direct, late>>

Ranges(S) == {<<a, b>> \in S \X S : a < b}
Bytes(r) == r[1]..(r[2] - 1)
Overlap(r, s) == r[1] < s[2] /\ s[1] < r[2]
Up(x) == ((x + PAGE - 1) \div PAGE) * PAGE
Down(x) == (x \div PAGE) * PAGE
PagesOf(r) == {p \in (r[1] \div PAGE)..(r[2] \div PAGE) : r[1] <= p * PAGE /\ (p + 1) * PAGE <= r[2]}

\* The recursion of free_with_reservation and measure_available_range: the
\* pieces of r between the reserved ranges.
RECURSIVE Pieces(_, _)
Pieces(r, res) ==
    LET hit == {i \in 1..Len(res) : Overlap(r, res[i])} IN
    IF r[1] >= r[2] THEN <<>> ELSE IF hit = {} THEN <<r>>
    ELSE LET i    == Min(hit)
             rest == SubSeq(res, i + 1, Len(res))
         IN  Pieces(<<r[1], res[i][1]>>, rest) \o Pieces(<<res[i][2], r[2]>>, rest)

\* add_span before release_deferred_memory: what may be written now, and what
\* has to wait, aligned inwards.
Now(r) == IF r[2] > EARLY THEN <<r[1], EARLY>> ELSE r

Later(r) ==
    LET s == <<Up(IF r[1] < EARLY THEN EARLY ELSE r[1]), Down(r[2])>>
    IN  IF r[2] > EARLY /\ s[1] < s[2] THEN {s} ELSE {}

\* add_direct_map_span, the scan from index i on; after a merge it goes on at
\* index 2, the second of the table.
RECURSIVE Absorb(_, _, _)
Absorb(tab, r, i) ==
    IF i > Len(tab) THEN Append(tab, r)
    ELSE IF r[2] < tab[i][1] \/ r[1] > tab[i][2] THEN Absorb(tab, r, i + 1)
    ELSE Absorb(SubSeq([tab EXCEPT ![i] = tab[Len(tab)]], 1, Len(tab) - 1),
                <<Min({r[1], tab[i][1]}), Max({r[2], tab[i][2]})>>, 2)

DirectSpan(r) == <<Down(r[1]), Up(r[2])>>

\* reserve_ap_trampoline_span: the places below 1 MiB that are available and
\* outside the reserved ranges other than the low megabyte.
Places(m, res) ==
    {c \in {p * PAGE : p \in 0..(LOW \div PAGE)} :
        /\ \E i \in 1..Len(m) : m[i][1] <= c /\ c + TRAMPOLINE <= Min({m[i][2], LOW})
        /\ \A i \in 2..Len(res) : ~Overlap(<<c, c + TRAMPOLINE>>, res[i])}

\* The highest of them; the kernel panics if there is none.
Trampoline == Max(Places(mmap, reserved))

\* measure_buddy_sizing: whole pages of each piece.
PieceSizes(m, res) ==
    FlattenSeq([i \in 1..Len(m) |->
        LET ps == Pieces(m[i], res) IN [k \in 1..Len(ps) |-> Cardinality(PagesOf(ps[k]))]])

Log2(n) == Max({o \in 0..n : 2^o <= n})

\* choose_max_order
ChooseMaxOrder(pages, largest) ==
    IF pages = 0 \/ largest = 0 THEN 0
    ELSE LET top    == Log2(largest)
             target == pages \div TARGET
             want   == IF target = 0 THEN top
                       ELSE IF Log2(target) < MIN_ORDER THEN Min({top, MIN_ORDER}) ELSE Log2(target)
         IN  Min({want, top, MAX_ORDER_LIMIT})

\* The pages that add_span pushes for some spans, and how many bytes it counts.
Pushed(spans) == UNION {PagesOf(spans[k]) : k \in 1..Len(spans)}
Counted(spans) ==
    PAGE * FoldLeft(LAMBDA n, r : n + Cardinality(PagesOf(r)), 0, spans)

Init ==
    /\ mmap \in {s \in [1..Entries -> Ranges(Edges)] :
                    \A i, j \in 1..Entries : i # j => ~Overlap(s[i], s[j])}
    /\ reserved \in {<<<<0, LOW>>, a, b>> : a, b \in Ranges(Cuts)}
    /\ Places(mmap, reserved) # {}
    /\ done = 0
    /\ freed = {} /\ managed = 0 /\ deferred = <<>> /\ direct = <<>> /\ late = FALSE

\* One entry of the last loop of init.
AddEntry ==
    /\ done < Entries
    /\ done' = done + 1
    /\ LET e   == mmap[done + 1]
           ps  == Pieces(e, reserved)
           now == [k \in 1..Len(ps) |-> Now(ps[k])]
       IN  /\ direct' = Absorb(direct, DirectSpan(e), 1)
           /\ freed' = freed \cup Pushed(now)
           /\ managed' = managed + Counted(now)
           /\ deferred' = deferred \o FlattenSeq([k \in 1..Len(ps) |-> SetToSeq(Later(ps[k]))])
    /\ UNCHANGED <<mmap, reserved, late>>

\* release_deferred_memory, once the direct map covers all memory.
ReleaseDeferred ==
    /\ done = Entries /\ ~late
    /\ late' = TRUE
    /\ freed' = freed \cup Pushed(deferred)
    /\ managed' = managed + Counted(deferred)
    /\ deferred' = <<>>
    /\ UNCHANGED <<mmap, reserved, done, direct>>

Next == AddEntry \/ ReleaseDeferred

Spec == Init /\ [][Next]_vars
-----------------------------------------------------------------------------
TypeOK ==
    /\ done \in 0..Entries /\ late \in BOOLEAN
    /\ \A k \in 1..Len(deferred) : deferred[k][1] < deferred[k][2]

Whole(p) == (p * PAGE)..((p + 1) * PAGE - 1)

\* When boot is over, the allocator has exactly the pages that lie wholly in an
\* available entry and touch no reserved range (free_with_reservation): a page
\* more is somebody else's memory, a page less is lost.
ExactlyTheFreePages ==
    late => freed = {p \in 0..Max(Edges) :
        /\ \E i \in 1..Entries : Whole(p) \subseteq Bytes(mmap[i])
        /\ \A i \in 1..Len(reserved) : Whole(p) \cap Bytes(reserved[i]) = {}}

\* No page is pushed twice: managed_bytes counts each freed page once.
PushedOnce == managed = Cardinality(freed) * PAGE

\* Until the full direct map exists, no free-list node is written above the
\* boot mapping ("safe only below this temporary map").
EarlyWritesMapped == ~late => \A p \in freed : (p + 1) * PAGE <= EARLY

\* Every byte of available memory is in the direct map, which release and the
\* allocator rely on (add_direct_map_span).
DirectMapCovers ==
    \A i \in 1..done : Bytes(mmap[i]) \subseteq UNION {Bytes(direct[k]) : k \in 1..Len(direct)}

\* The trampoline is in available memory that nothing else uses.
TrampolineFree ==
    LET t == Trampoline..(Trampoline + TRAMPOLINE - 1) IN
    /\ \A p \in freed : Whole(p) \cap t = {}
    /\ \A i \in 2..Len(reserved) : Bytes(reserved[i]) \cap t = {}

\* Sizing sees the memory that is then freed, and the largest order fits into
\* its largest span.
SizingMatches ==
    late => LET sizes == PieceSizes(mmap, reserved)
                pages == FoldLeft(LAMBDA a, b : a + b, 0, sizes)
                largest == Max({0} \cup Range(sizes))
            IN  /\ pages * PAGE = managed
                /\ 2^ChooseMaxOrder(pages, largest) <= Max({1, largest})
=============================================================================
