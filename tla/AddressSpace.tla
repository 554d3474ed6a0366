---------------------------- MODULE AddressSpace ----------------------------
(***************************************************************************)
(* User address spaces: demand-zero pages, copy-on-write after a fork, and *)
(* the reference counts that decide when a page frame is free.             *)
(*                                                                         *)
(* Every CPU runs its own task, so the operations of two tasks interleave; *)
(* an operation is cut where it lets go of pmm_lock, because that is all   *)
(* the synchronisation there is.  With UP set there is one CPU, on which a *)
(* system call or fault runs to its end before another task does.          *)
(*                                                                         *)
(* Page tables are abstracted to their leaves, pte[s][v]; an area of the   *)
(* task's vma_list to the access it gives each page; a range operation to  *)
(* its steps, one page at a time; a page frame to one value.               *)
(***************************************************************************)
EXTENDS Naturals, FiniteSets

CONSTANTS
  Tasks, Spaces,      \* tasks; top-level page tables (cr3 values)
  VPages, Phys,       \* user virtual pages 1..n; page frames
  Image,              \* pages the program image maps
  Stack,              \* pages of the stack area above its guard page
  Guard,              \* the guard page of the stack area
  Values, Zero,       \* page contents; the all-zero page
  CloneModes,         \* which clone() calls programs make: "cow", "vm"
  MAX_REF,            \* bound: no fork while a frame has this many references
  PKU,                \* cpu_features.pku: pkey_mprotect() is available
  UP, None

ASSUME SpaceAssumption ==
  /\ IsFiniteSet(Tasks) /\ IsFiniteSet(Spaces) /\ IsFiniteSet(VPages) /\ VPages = 1..Cardinality(VPages)
  /\ Image \cup Stack \cup Guard \subseteq VPages /\ Guard \cap Stack = {}
  /\ Zero \in Values /\ None \notin Tasks \cup Spaces \cup Phys \cup Values
  /\ UP \in BOOLEAN /\ PKU \in BOOLEAN

VARIABLES
  cr3,      \* cr3[t]: address space of task t, None when there is no such task
  vma,      \* vma[t][v]: "none", "ro" or "rw"
  pte,      \* pte[s][v]: the leaf entry
  ref,      \* sparse reference counts; 0 means the frame is free
  mem,      \* contents of each frame
  op,       \* op[t]: the kernel operation task t is in
  lost      \* frames held by no entry that the next access can use (history)

vars == <<cr3, vma, pte, ref, mem, op, lost>>

Kinds == {"none", "zero", "guard", "page", "stray"}
Entry == [k : Kinds, p : Phys \cup {None}, w : BOOLEAN, c : BOOLEAN]

Soft(kind, w) == [k |-> kind, p |-> None, w |-> w, c |-> FALSE]
Leaf(p, w, c) == [k |-> "page", p |-> p, w |-> w, c |-> c]
Absent == Soft("none", FALSE)
Empty == [v \in VPages |-> Absent]

(* What the locals of an operation hold: the table and the page it is at,  *)
(* the frames of a copy, the child of a clone.                             *)
Idle == [k |-> "idle", s |-> None, v |-> 0, old |-> None, new |-> None, child |-> None]
Operation(kind, s, v) == [Idle EXCEPT !.k = kind, !.s = s, !.v = v]
InUse == {cr3[t] : t \in Tasks} \ {None}
Busy(s) == \E t \in Tasks : op[t].s = s
FreeSpaces == {s \in Spaces : s \notin InUse /\ ~Busy(s)}
FreePages == {p \in Phys : ref[p] = 0}

(* A task can start a system call or take a fault.                         *)
CanRun(t) ==
  /\ cr3[t] # None /\ op[t] = Idle
  /\ UP => \A u \in Tasks : op[u] = Idle

\* Mutant: no look at the other tasks.
UsedByNobodyElse(s, owner) == FALSE

(* free_task_resources() and exec() keep a page table another task uses.   *)
address_space_used_by_other(s, owner) == \E t \in Tasks \ {owner} : cr3[t] = s

(* unref_page(): at zero the frame goes back to the buddy allocator.       *)
Unref(r, p) == [r EXCEPT ![p] = IF @ > 0 THEN @ - 1 ELSE 0]

(* unmap_page() clears the whole entry.                                    *)
Cleared(e) == Absent

(* The image a program starts with: one frame for each image page, a guard *)
(* page, and a stack that is touched later.                                *)
Start(f) ==
  [v \in VPages |-> IF v \in Image THEN Leaf(f[v], TRUE, FALSE)
                    ELSE IF v \in Guard THEN Soft("guard", FALSE) ELSE Absent]
StartVma ==
  [v \in VPages |-> IF v \in Image \cup Stack \cup Guard THEN "rw" ELSE "none"]
Loads(from) == {f \in [Image -> from] : \A a, b \in Image : f[a] = f[b] => a = b}

Init ==
  \E t \in Tasks, s \in Spaces :
    /\ cr3 = [u \in Tasks |-> IF u = t THEN s ELSE None]
    /\ vma = [u \in Tasks |-> IF u = t THEN StartVma ELSE [v \in VPages |-> "none"]]
    /\ \E f \in Loads(Phys) :
         /\ pte = [x \in Spaces |-> IF x = s THEN Start(f) ELSE Empty]
         /\ ref = [p \in Phys |-> IF \E v \in Image : f[v] = p THEN 1 ELSE 0]
    /\ mem = [p \in Phys |-> Zero]
    /\ op = [u \in Tasks |-> Idle]
    /\ lost = {}

----------------------------------------------------------------------------
(* A store that the entry allows: no kernel code runs.                     *)
Store(t, v, x) ==
  /\ CanRun(t)
  /\ LET e == pte[cr3[t]][v] IN
       /\ e.k = "page" /\ e.w
       /\ mem' = [mem EXCEPT ![e.p] = x]
  /\ UNCHANGED <<cr3, vma, pte, ref, op, lost>>

(* sys_mmap() of anonymous memory, sys_brk() growing the heap.             *)
Mmap(t, v, prot) ==
  /\ CanRun(t)
  /\ vma[t][v] = "none"
  /\ vma' = [vma EXCEPT ![t][v] = prot]
  /\ pte' = [pte EXCEPT ![cr3[t]][v] = Soft("zero", prot = "rw")]
  /\ UNCHANGED <<cr3, ref, mem, op, lost>>

(* sys_munmap() of one page, sys_brk() shrinking the heap.                 *)
Munmap(t, v) ==
  /\ CanRun(t)
  /\ vma[t][v] # "none" /\ v \notin Image \cup Stack \cup Guard
  /\ LET e == pte[cr3[t]][v] IN ref' = IF e.k = "page" THEN Unref(ref, e.p) ELSE ref
  /\ pte' = [pte EXCEPT ![cr3[t]][v] = Cleared(@)]
  /\ vma' = [vma EXCEPT ![t][v] = "none"]
  /\ UNCHANGED <<cr3, mem, op, lost>>

(* sys_pkey_mprotect() of one page: a frame that is present is mapped      *)
(* again with the new access; an untouched page keeps its entry.           *)
PkeyMprotect(t, v, prot) ==
  /\ PKU
  /\ CanRun(t)
  /\ vma[t][v] # "none" /\ v \notin Stack \cup Guard
  /\ LET e == pte[cr3[t]][v] IN
       /\ e.k \in {"page", "zero"}
       /\ pte' = IF e.k = "page"
                 THEN [pte EXCEPT ![cr3[t]][v] = Leaf(e.p, prot = "rw", FALSE)]
                 ELSE pte
  /\ vma' = [vma EXCEPT ![t][v] = prot]
  /\ UNCHANGED <<cr3, ref, mem, op, lost>>

----------------------------------------------------------------------------

(* handle_demand_zero_fault(), handle_stack_fault(): the first access to a *)
(* page without a frame gets a cleared one.                                *)
ZeroFilled(m, p) == [m EXCEPT ![p] = Zero]

Touch(t, v) ==
  /\ CanRun(t)
  /\ LET s == cr3[t]
         e == pte[s][v]
     IN /\ e.k = "zero" \/ (e.k = "none" /\ v \in Stack /\ vma[t][v] = "rw")
        /\ \E p \in FreePages :
             /\ pte' = [pte EXCEPT ![s][v] = Leaf(p, e.k = "none" \/ e.w, FALSE)]
             /\ ref' = [ref EXCEPT ![p] = 1]
             /\ mem' = ZeroFilled(mem, p)
  /\ UNCHANGED <<cr3, vma, op, lost>>

(* handle_fault(), a write that neither of the two above resolves: the     *)
(* entry is marked copy-on-write, or the area may be written although the  *)
(* entry says otherwise.  The reference count is read here, outside the    *)
(* page tables, and acted on later.                                        *)
CowEntry(t, v) ==
  LET e == pte[cr3[t]][v] IN e.k = "page" /\ ~e.w /\ (e.c \/ vma[t][v] = "rw")

Sole(p) == ref[p] = 1

WriteFault(t, v) ==
  /\ CanRun(t)
  /\ CowEntry(t, v)
  /\ LET p == pte[cr3[t]][v].p IN
       op' = [op EXCEPT ![t] = [Operation(IF Sole(p) THEN "sole" ELSE "shared", cr3[t], v)
                                  EXCEPT !.old = p]]
  /\ UNCHANGED <<cr3, vma, pte, ref, mem, lost>>

FaultSole(t) ==
  /\ op[t].k = "sole"
  /\ pte' = [pte EXCEPT ![op[t].s][op[t].v].w = TRUE, ![op[t].s][op[t].v].c = FALSE]
  /\ op' = [op EXCEPT ![t] = Idle]
  /\ UNCHANGED <<cr3, vma, ref, mem, lost>>

(* Without a frame for the copy the fault is not resolved and the program  *)
(* gets it as an event.                                                    *)
FaultCopy(t) ==
  /\ op[t].k = "shared"
  /\ IF FreePages = {}
     THEN op' = [op EXCEPT ![t] = Idle] /\ UNCHANGED <<ref, mem>>
     ELSE \E n \in FreePages :
            /\ ref' = [ref EXCEPT ![n] = 1]
            /\ mem' = [mem EXCEPT ![n] = mem[op[t].old]]
            /\ op' = [op EXCEPT ![t] = [op[t] EXCEPT !.k = "copied", !.new = n]]
  /\ UNCHANGED <<cr3, vma, pte, lost>>

FaultUnref(t) ==
  /\ op[t].k = "copied"
  /\ ref' = Unref(ref, op[t].old)
  /\ op' = [op EXCEPT ![t] = [op[t] EXCEPT !.k = "install"]]
  /\ UNCHANGED <<cr3, vma, pte, mem, lost>>

FaultInstall(t) ==
  /\ op[t].k = "install"
  /\ pte' = [pte EXCEPT ![op[t].s][op[t].v] = Leaf(op[t].new, TRUE, FALSE)]
  /\ op' = [op EXCEPT ![t] = Idle]
  /\ UNCHANGED <<cr3, vma, ref, mem, lost>>

(* The same code reached by a write to an entry that holds no frame: a     *)
(* guard page, or an untouched page whose area became writable.  A frame   *)
(* is taken, but the entry stays not present, so nothing can use it.       *)
StrayFault(t, v) ==
  /\ CanRun(t)
  /\ vma[t][v] = "rw"
  /\ LET e == pte[cr3[t]][v] IN
       /\ e.k = "guard" \/ (e.k = "zero" /\ ~e.w)
       /\ \E p \in FreePages :
            /\ ref' = [ref EXCEPT ![p] = 1]
            /\ pte' = [pte EXCEPT ![cr3[t]][v] =
                         Soft(IF e.k = "zero" THEN "zero" ELSE "stray", TRUE)]
            /\ lost' = lost \cup {p}
  /\ UNCHANGED <<cr3, vma, mem, op>>
----------------------------------------------------------------------------
(* clone(CLONE_VM): the child runs in its parent's address space, with a   *)
(* copy of the area list.                                                  *)
CloneShared(t, u) ==
  /\ "vm" \in CloneModes
  /\ CanRun(t)
  /\ cr3[u] = None /\ op[u] = Idle
  /\ cr3' = [cr3 EXCEPT ![u] = cr3[t]]
  /\ vma' = [vma EXCEPT ![u] = vma[t]]
  /\ UNCHANGED <<pte, ref, mem, op, lost>>

(* clone(): clone_address_space() walks the parent's table, page by page.  *)
CloneStart(t, u) ==
  /\ "cow" \in CloneModes
  /\ CanRun(t)
  /\ \A p \in Phys : ref[p] < MAX_REF
  /\ cr3[u] = None /\ op[u] = Idle
  /\ \A x \in Tasks : op[x].child # u
  /\ \E s \in FreeSpaces :
       op' = [op EXCEPT ![t] = [Operation("clone", s, 1) EXCEPT !.child = u]]
  /\ UNCHANGED <<cr3, vma, pte, ref, mem, lost>>

Shared(e) == IF e.w THEN [e EXCEPT !.w = FALSE, !.c = TRUE] ELSE e

\* Mutant: the copied entry is not counted.
TakenNot(r, p) == r

Taken(r, p) == [r EXCEPT ![p] = @ + 1]

\* Mutant: demand-zero entries are not copied.
CarriedGuardOnly(e) == IF e.k = "guard" THEN e ELSE Absent

Carried(e) == IF e.k \in {"zero", "guard"} THEN e ELSE Absent

ClonePage(t) ==
  /\ op[t].k = "clone" /\ op[t].v \in VPages
  /\ LET v == op[t].v
         e == pte[cr3[t]][v]
     IN IF e.k = "page"
        THEN /\ pte' = [pte EXCEPT ![cr3[t]][v] = Shared(e), ![op[t].s][v] = Shared(e)]
             /\ ref' = Taken(ref, e.p)
        ELSE /\ pte' = [pte EXCEPT ![op[t].s][v] = Carried(e)]
             /\ UNCHANGED ref
  /\ op' = [op EXCEPT ![t].v = @ + 1]
  /\ UNCHANGED <<cr3, vma, mem, lost>>

CloneDone(t) ==
  /\ op[t].k = "clone" /\ op[t].v \notin VPages
  /\ cr3' = [cr3 EXCEPT ![op[t].child] = op[t].s]
  /\ vma' = [vma EXCEPT ![op[t].child] = vma[t]]
  /\ op' = [op EXCEPT ![t] = Idle]
  /\ UNCHANGED <<pte, ref, mem, lost>>

Destroying(s) == Operation("destroy", s, 1)

(* A later step of clone() cannot get memory: free_failed_clone().         *)
CloneFails(t) ==
  /\ op[t].k = "clone" /\ op[t].v \notin VPages
  /\ op' = [op EXCEPT ![t] = Destroying(op[t].s)]
  /\ UNCHANGED <<cr3, vma, pte, ref, mem, lost>>

----------------------------------------------------------------------------
(* exec(): the new image is built in a new table, the task moves over, and *)
(* then looks whether the old table is still needed.                       *)
Exec(t) ==
  /\ CanRun(t)
  /\ \E s \in FreeSpaces, f \in Loads(FreePages) :
       /\ cr3' = [cr3 EXCEPT ![t] = s]
       /\ vma' = [vma EXCEPT ![t] = StartVma]
       /\ pte' = [pte EXCEPT ![s] = Start(f)]
       /\ ref' = [p \in Phys |-> IF \E v \in Image : f[v] = p THEN 1 ELSE ref[p]]
       /\ mem' = [p \in Phys |-> IF \E v \in Image : f[v] = p THEN Zero ELSE mem[p]]
       /\ op' = [op EXCEPT ![t] = Operation("leave", cr3[t], 0)]
  /\ UNCHANGED lost

Leave(t) ==
  /\ op[t].k = "leave"
  /\ op' = [op EXCEPT ![t] = IF address_space_used_by_other(op[t].s, t) THEN Idle
                             ELSE Destroying(op[t].s)]
  /\ UNCHANGED <<cr3, vma, pte, ref, mem, lost>>

(* exit() and, on the parent's behalf, free_task_resources(): the task is  *)
(* gone once its page table has been looked at.                            *)
Exit(t) ==
  /\ CanRun(t)
  /\ cr3' = [cr3 EXCEPT ![t] = None]
  /\ vma' = [vma EXCEPT ![t] = [v \in VPages |-> "none"]]
  /\ op' = [op EXCEPT ![t] = IF address_space_used_by_other(cr3[t], t) THEN Idle
                             ELSE Destroying(cr3[t])]
  /\ UNCHANGED <<pte, ref, mem, lost>>

(* destroy_user_address_space(), one leaf at a time.                       *)
DropPage(t) ==
  /\ op[t].k = "destroy" /\ op[t].v \in VPages
  /\ LET e == pte[op[t].s][op[t].v] IN
       ref' = IF e.k = "page" THEN Unref(ref, e.p) ELSE ref
  /\ pte' = [pte EXCEPT ![op[t].s][op[t].v] = Absent]
  /\ op' = [op EXCEPT ![t].v = @ + 1]
  /\ UNCHANGED <<cr3, vma, mem, lost>>

DropDone(t) ==
  /\ op[t].k = "destroy" /\ op[t].v \notin VPages
  /\ op' = [op EXCEPT ![t] = Idle]
  /\ UNCHANGED <<cr3, vma, pte, ref, mem, lost>>

----------------------------------------------------------------------------
Next ==
  \E t \in Tasks :
    \/ \E v \in VPages :
         \/ \E x \in Values : Store(t, v, x)
         \/ \E prot \in {"ro", "rw"} : Mmap(t, v, prot) \/ PkeyMprotect(t, v, prot)
         \/ Munmap(t, v) \/ Touch(t, v) \/ WriteFault(t, v) \/ StrayFault(t, v)
    \/ FaultSole(t) \/ FaultCopy(t) \/ FaultUnref(t) \/ FaultInstall(t)
    \/ \E u \in Tasks : CloneShared(t, u) \/ CloneStart(t, u)
    \/ ClonePage(t) \/ CloneDone(t) \/ CloneFails(t)
    \/ Exec(t) \/ Leave(t) \/ Exit(t) \/ DropPage(t) \/ DropDone(t)

Spec == Init /\ [][Next]_vars

----------------------------------------------------------------------------
Faulting == {"sole", "shared", "copied", "install"}
Moving == {"clone", "leave", "destroy"}
Op == [k : {"idle"} \cup Faulting \cup Moving, s : Spaces \cup {None}, v : Nat,
       old : Phys \cup {None}, new : Phys \cup {None}, child : Tasks \cup {None}]

TypeOK ==
  /\ cr3 \in [Tasks -> Spaces \cup {None}]
  /\ vma \in [Tasks -> [VPages -> {"none", "ro", "rw"}]]
  /\ pte \in [Spaces -> [VPages -> Entry]]
  /\ \A s \in Spaces, v \in VPages : (pte[s][v].k = "page") <=> (pte[s][v].p # None)
  /\ ref \in [Phys -> Nat]
  /\ mem \in [Phys -> Values]
  /\ op \in [Tasks -> Op]
  /\ lost \subseteq Phys

(* Between unref_page() and the store of the new entry, the old entry is   *)
(* out of date.                                                            *)
Stale(s, v) == \E t \in Tasks : op[t].k = "install" /\ op[t].s = s /\ op[t].v = v

(* What can hold a reference to a frame: an entry, and, as page 0 of the   *)
(* task, the copy of a fault being resolved.                               *)
Claims == (Spaces \X VPages) \cup (Tasks \X {0})
Holds(x, v) ==
  IF v = 0 THEN IF op[x].k \in {"copied", "install"} THEN op[x].new ELSE None
  ELSE IF Stale(x, v) THEN None ELSE pte[x][v].p
Holders(p) == {h \in Claims : Holds(h[1], h[2]) = p}

(* Every frame's reference count is exactly the number of entries that map *)
(* it, whatever forks, faults and exits are under way on other CPUs: no    *)
(* frame is freed while it is mapped, and none is kept for ever, except    *)
(* the ones a write to a guard page loses (handle_fault, unref_page).      *)
RefExact ==
  \A p \in Phys :
    ref[p] = Cardinality(Holders(p)) + (IF p \in lost THEN 1 ELSE 0)

(* No entry a task can use maps a frame that is free (unref_page called    *)
(* once for each mapping dropped).                                         *)
NoMappedFree ==
  \A s \in InUse, v \in VPages :
    pte[s][v].k = "page" /\ ~Stale(s, v) => ref[pte[s][v].p] > 0

(* A table that some task runs on is never being torn down                 *)
(* (address_space_used_by_other in exec() and free_task_resources()).      *)
UsedTableKept == \A t \in Tasks : op[t].k = "destroy" => op[t].s \notin InUse

(* An entry that can be written is the only one that maps its frame:       *)
(* clone_user_table takes the write bit from both sides, and the fault     *)
(* handler gives it back to a sole owner only.                             *)
WritableIsSole ==
  \A s, r \in Spaces, v, x \in VPages :
    /\ pte[s][v].k = "page" /\ pte[s][v].w
    /\ pte[r][x].p = pte[s][v].p /\ ~Stale(r, x)
    => s = r /\ v = x

Unmapped == None
Seen(t, v) ==
  IF cr3[t] = None THEN Unmapped
  ELSE LET e == pte[cr3[t]][v] IN
       IF op[t].k = "install" /\ op[t].v = v THEN mem[op[t].new]
       ELSE IF e.k = "page" THEN mem[e.p]
       ELSE IF e.k = "zero" \/ (e.k = "none" /\ v \in Stack) THEN Zero
       ELSE Unmapped

View == [t \in Tasks |-> [v \in VPages |-> Seen(t, v)]]
P == INSTANCE PrivateMemory WITH view <- View

(* Programs share no address space and do not use protection keys.         *)
Private == "vm" \notin CloneModes /\ ~PKU

(* Every frame's reference count is exactly the number of entries that map *)
(* it, whatever forks, faults and exits are under way on other CPUs: no    *)
(* frame is freed while it is mapped, none is kept for ever except the     *)
(* ones a write to a guard page loses, no table in use is taken down, and  *)
(* an entry that can be written is the only one that maps its frame        *)
(* (clone_user_table, handle_fault, unref_page, free_task_resources).      *)
FramesExact ==
  /\ TypeOK /\ UsedTableKept /\ NoMappedFree
  /\ RefExact /\ WritableIsSole

(* Frames, counts, faults and page-by-page cloning together behave like    *)
(* one private memory per task: a store is seen by the task that made it   *)
(* only, a fork copies a snapshot, and a page reads as zero until it is    *)
(* written (clone_address_space, handle_fault).                            *)
PrivateSpec == P!Spec
=============================================================================
