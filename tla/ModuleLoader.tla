--------------------------- MODULE ModuleLoader ---------------------------
(***************************************************************************)
(* load_module of module_loader.cpp, one loading thread, and the worker     *)
(* that runs the start functions.  A module file is its name, its           *)
(* loadable sections (bytes and flags), the symbols it imports and exports, *)
(* and what its init and start return; a file that is malformed, and a heap *)
(* that is exhausted, show as a load that fails at some stage.              *)
(* PAGE_SIZE is PageSize units of section size.  Modules are never          *)
(* unloaded.                                                                *)
(***************************************************************************)
EXTENDS Integers, Sequences, FiniteSets, SequencesExt

CONSTANTS
    Files,         \* [name, secs, imports, exports, init, start] records
    KernelSyms,    \* the kernel's own symbol table
    PageSize,
    PhysPages,     \* pages of memory the loader may get
    VirtPages,     \* pages of the module range (MODULE_SIZE)
    MaxLoads       \* bound on the number of calls of load_module

VARIABLES
    used,          \* physical pages taken from the pmm
    ranges,        \* module_v_alloc: [base, n] ranges handed out
    map,           \* virtual page -> [phys, w, x] for the mapped ones
    syms,          \* dynamic_table: [name, owner]
    list,          \* module_list, newest first
    pc, cur,       \* the load under way
    queue,         \* start works queued, by file name
    running,       \* the start function the worker is in, or none
    loads,
    refs           \* history: what each listed module's relocations point to

vars == <<used, ranges, map, syms, list, pc, cur, queue, running, loads, refs>>

NoLoad == [file |-> [name |-> "", secs |-> <<>>, imports |-> {}, exports |-> {},
                     init |-> "none", start |-> "none"],
           n |-> 0, phys |-> 0, base |-> 0, to |-> {}]
NoPage == [phys |-> -1, w |-> FALSE, x |-> FALSE]
Virt == 0..(VirtPages - 1)
Phys == 0..(PhysPages - 1)
Run(b, n) == b..(b + n - 1)

Init ==
    /\ used = {} /\ ranges = {} /\ map = [v \in Virt |-> NoPage]
    /\ syms = {} /\ list = <<>>
    /\ pc = "idle" /\ cur = NoLoad
    /\ queue = <<>> /\ running = "none" /\ loads = 0 /\ refs = <<>>

-----------------------------------------------------------------------------
AlignUp(x) == ((x + PageSize - 1) \div PageSize) * PageSize
\* The sizing pass: every section starts on a page.
TotalSize(secs) == FoldLeft(LAMBDA t, s : AlignUp(t) + s.size, 0, secs)
PageCount(secs) == AlignUp(TotalSize(secs)) \div PageSize
\* The placing pass: the offset of section i.
Offset(secs, i) == AlignUp(TotalSize(SubSeq(secs, 1, i - 1)))
\* The pages of a section in the image, and the flags the image's page gets.
SecPages(secs, i) ==
    IF secs[i].size = 0 THEN {}
    ELSE (Offset(secs, i) \div PageSize)..((Offset(secs, i) + secs[i].size - 1) \div PageSize)
Writable(secs, g)   == \E i \in DOMAIN secs : g \in SecPages(secs, i) /\ secs[i].w
Executable(secs, g) == \E i \in DOMAIN secs : g \in SecPages(secs, i) /\ secs[i].x

IsLoaded(name) == \E i \in DOMAIN list : list[i].name = name
\* ksym::resolve_symbol: the kernel's table, then the modules' symbols.
Resolves(s) == s \in KernelSyms \/ \E e \in syms : e.name = s
Owner(s) == IF s \in KernelSyms THEN "kernel" ELSE (CHOOSE e \in syms : e.name = s).owner

Goto(l) == pc' = l
End == pc' = "idle" /\ cur' = NoLoad

\* The file is opened and its headers are sized up; pmm::alloc gives the pages,
\* as one run, or the load ends.
Open(f) ==
    /\ pc = "idle" /\ loads < MaxLoads
    /\ loads' = loads + 1
    /\ LET n == PageCount(f.secs)
           free == {b \in Phys : Run(b, n) \subseteq Phys \ used}
       IN \/ /\ n > 0
             /\ \E b \in free : /\ used' = used \cup Run(b, n)
                                /\ cur' = [NoLoad EXCEPT !.file = f, !.n = n, !.phys = b]
             /\ Goto("range")
          \/ /\ free = {} \/ n = 0
             /\ UNCHANGED <<used, pc, cur>>
    /\ UNCHANGED <<ranges, map, syms, list, queue, running, refs>>

\* module_v_alloc->allocate; without room the pages go back.  map_range then
\* maps the image writable, and executable, to be filled.
MapImage ==
    /\ pc = "range"
    /\ LET room == {b \in Virt : /\ Run(b, cur.n) \subseteq Virt
                                 /\ \A r \in ranges : Run(b, cur.n) \cap Run(r.base, r.n) = {}}
       IN \/ \E b \in room :
               /\ ranges' = ranges \cup {[base |-> b, n |-> cur.n]}
               /\ cur' = [cur EXCEPT !.base = b]
               /\ map' = [v \in Virt |-> IF v \in Run(b, cur.n)
                                         THEN [phys |-> cur.phys + v - b, w |-> TRUE, x |-> TRUE]
                                         ELSE map[v]]
               /\ Goto("relocate") /\ UNCHANGED used
          \/ /\ room = {}
             /\ used' = used \ Run(cur.phys, cur.n)
             /\ End /\ UNCHANGED <<ranges, map>>
    /\ UNCHANGED <<syms, list, queue, running, loads, refs>>

\* Mutant: the address range is not given back.
UndoPages ==
    /\ map' = [v \in Virt |-> IF v \in Run(cur.base, cur.n) THEN NoPage ELSE map[v]]
    /\ used' = used \ Run(cur.phys, cur.n)
    /\ UNCHANGED ranges
    /\ End

\* fail_unmapped and the labels above it: the image is unmapped, the range and
\* the pages are given back.
Undo ==
    /\ map' = [v \in Virt |-> IF v \in Run(cur.base, cur.n) THEN NoPage ELSE map[v]]
    /\ ranges' = ranges \ {[base |-> cur.base, n |-> cur.n]}
    /\ used' = used \ Run(cur.phys, cur.n)
    /\ End

\* The sections are read and relocated: every undefined symbol must resolve.
Relocate ==
    /\ pc = "relocate"
    /\ \/ /\ \A s \in cur.file.imports : Resolves(s)
          /\ cur' = [cur EXCEPT !.to = {Owner(s) : s \in cur.file.imports}]
          /\ Goto("check") /\ UNCHANGED <<used, ranges, map>>
       \/ Undo
    /\ UNCHANGED <<syms, list, queue, running, loads, refs>>

\* The checks on the metadata: no module of that name, no symbol exported twice;
\* a file may fail the others.
CheckOk == /\ ~IsLoaded(cur.file.name)
           /\ \A s \in cur.file.exports : ~Resolves(s)
Check ==
    /\ pc = "check"
    /\ \/ /\ CheckOk
          /\ Goto("protect") /\ UNCHANGED <<used, ranges, map, cur>>
       \/ Undo
    /\ UNCHANGED <<syms, list, queue, running, loads, refs>>

\* The final protections, page by page.  A page both writable and executable
\* ends the load, with the pages before it already remapped.
PageOk(g) == ~(Writable(cur.file.secs, g) /\ Executable(cur.file.secs, g))
FinalPage(g) == [phys |-> cur.phys + g, w |-> Writable(cur.file.secs, g),
                 x |-> Executable(cur.file.secs, g)]
Protect ==
    /\ pc = "protect"
    /\ \/ /\ \A g \in 0..(cur.n - 1) : PageOk(g)
          /\ map' = [v \in Virt |-> IF v \in Run(cur.base, cur.n) THEN FinalPage(v - cur.base)
                                                                  ELSE map[v]]
          /\ Goto("publish") /\ UNCHANGED <<used, ranges, cur>>
       \/ Undo
    /\ UNCHANGED <<syms, list, queue, running, loads, refs>>

\* The record is made, the symbols are exported and the module goes on the list.
Publish ==
    /\ pc = "publish"
    /\ \/ /\ syms' = syms \cup {[name |-> s, owner |-> cur.file.name] : s \in cur.file.exports}
          /\ list' = <<[name |-> cur.file.name, base |-> cur.base, n |-> cur.n, phys |-> cur.phys,
                        secs |-> cur.file.secs, state |-> "INIT_PENDING"]>> \o list
          /\ refs' = <<cur.to>> \o refs
          /\ Goto("init") /\ UNCHANGED <<used, ranges, map, cur>>
       \/ /\ Undo /\ UNCHANGED <<syms, list, refs>>
    /\ UNCHANGED <<queue, running, loads>>

\* init runs; then the start work is queued if there is one.  INIT_FAILED
\* leaves the module on the list with its symbols.
SetState(name, s) == [i \in DOMAIN list |-> IF list[i].name = name
                                            THEN [list[i] EXCEPT !.state = s] ELSE list[i]]
RunInit ==
    /\ pc = "init"
    /\ LET f == cur.file IN
       IF f.init = "fails"
       THEN list' = SetState(f.name, "INIT_FAILED") /\ UNCHANGED queue
       ELSE IF f.start = "none"
       THEN list' = SetState(f.name, "RUNNING") /\ UNCHANGED queue
       ELSE list' = SetState(f.name, "START_PENDING") /\ queue' = Append(queue, f)
    /\ End
    /\ UNCHANGED <<used, ranges, map, syms, running, loads, refs>>

\* module_start_work on the worker.
StartWork ==
    /\ running = "none" /\ queue # <<>>
    /\ running' = Head(queue).name
    /\ list' = SetState(Head(queue).name, "STARTING")
    /\ UNCHANGED <<used, ranges, map, syms, pc, cur, queue, loads, refs>>

StartDone ==
    /\ running # "none"
    /\ list' = SetState(running, IF Head(queue).start = "ok" THEN "RUNNING" ELSE "START_FAILED")
    /\ running' = "none" /\ queue' = Tail(queue)
    /\ UNCHANGED <<used, ranges, map, syms, pc, cur, loads, refs>>

Next ==
    \/ \E f \in Files : Open(f)
    \/ MapImage \/ Relocate \/ Check \/ Protect \/ Publish \/ RunInit
    \/ StartWork \/ StartDone

Spec == Init /\ [][Next]_vars

-----------------------------------------------------------------------------
TypeOK ==
    /\ used \subseteq Phys /\ queue \in Seq(Files)
    /\ \A i \in DOMAIN list : list[i].state \in
         {"INIT_PENDING", "INIT_FAILED", "START_PENDING", "STARTING", "RUNNING", "START_FAILED"}

Mapped(v) == map[v] # NoPage
Owned(m) == Run(m.base, m.n)
\* A load either lands whole or leaves no trace, at whatever stage it fails:
\* with no load under way the physical pages, the address ranges, the mappings
\* and the symbols are those of the listed modules and no others, each module's
\* pages map its own memory, and names and symbols are unique (the labels
\* fail_loaded to fail_unmapped, and the sizing and placing passes agreeing).
LoadsExact ==
    pc = "idle" =>
      /\ used = UNION {Run(list[i].phys, list[i].n) : i \in DOMAIN list}
      /\ ranges = {[base |-> list[i].base, n |-> list[i].n] : i \in DOMAIN list}
      /\ {v \in Virt : Mapped(v)} = UNION {Owned(list[i]) : i \in DOMAIN list}
      /\ \A i \in DOMAIN list : \A v \in Owned(list[i]) :
           map[v].phys = list[i].phys + v - list[i].base
      /\ {e.owner : e \in syms} \subseteq {list[i].name : i \in DOMAIN list}
      /\ \A i, j \in DOMAIN list : list[i].name = list[j].name => i = j
      /\ \A d, e \in syms : d.name = e.name => d = e

\* Code of a module runs only from pages that are its own, executable and not
\* writable, and it calls only into the kernel and into modules that are still
\* loaded: from init on, every page of a listed module is writable exactly when
\* one of its sections is, executable likewise, never both, and the modules its
\* relocations point to are on the list.
CodeSafe ==
    /\ \A i \in DOMAIN list : \A v \in Owned(list[i]) :
         /\ ~(map[v].w /\ map[v].x)
         /\ map[v].w = Writable(list[i].secs, v - list[i].base)
         /\ map[v].x = Executable(list[i].secs, v - list[i].base)
    /\ \A i \in DOMAIN refs : refs[i] \subseteq {"kernel"} \cup {list[j].name : j \in DOMAIN list}
    /\ \A i \in DOMAIN list : \A k \in DOMAIN list[i].secs :
         Offset(list[i].secs, k) + list[i].secs[k].size <= list[i].n * PageSize

\* The life of a module: start runs once, on the worker, after an init that
\* succeeded, and no state is left but forward.
Rank(s) == CASE s = "INIT_PENDING" -> 0 [] s = "START_PENDING" -> 1 [] s = "STARTING" -> 2
             [] OTHER -> 3
StateForward ==
    [][\A i \in DOMAIN list :
         LET j == i + Len(list') - Len(list) IN
         /\ list'[j].name = list[i].name
         /\ list'[j].state # list[i].state =>
              /\ Rank(list'[j].state) > Rank(list[i].state)
              /\ list'[j].state = "STARTING" => list[i].state = "START_PENDING"]_vars

=============================================================================
