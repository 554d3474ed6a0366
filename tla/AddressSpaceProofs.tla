------------------------- MODULE AddressSpaceProofs -------------------------
(***************************************************************************)
(* Theorems about AddressSpace, for any number of tasks, tables, pages and *)
(* frames, where programs share no address space and use no protection     *)
(* keys.                                                                   *)
(*                                                                         *)
(* Why the counts are exact: every table belongs to one task, the one that *)
(* runs on it, or the one that builds it or takes it down.  So what an     *)
(* operation has read of its own table is still true when it goes on,      *)
(* although other CPUs work in between; and a frame with one reference,    *)
(* which nobody else can reach, keeps it.                                  *)
(***************************************************************************)
EXTENDS AddressSpace, FiniteSetTheorems, TLAPS

OpHolds(t) ==
  /\ op[t].k = "idle" => op[t] = Idle
  /\ op[t].k \in Faulting =>
       /\ cr3[t] # None /\ op[t].s = cr3[t] /\ op[t].v \in VPages
       /\ op[t].old # None /\ pte[op[t].s][op[t].v].p = op[t].old /\ ~pte[op[t].s][op[t].v].w
  /\ op[t].k \in {"copied", "install"} => op[t].new # None
  /\ op[t].k \in Moving => op[t].s # None
  /\ op[t].k \in {"clone", "destroy"} => op[t].v # 0
  /\ op[t].k = "clone" =>
       /\ cr3[t] # None /\ op[t].child # None /\ cr3[op[t].child] = None
       /\ op[op[t].child].k = "idle"

Apart(t, u) ==
  /\ cr3[t] # None /\ cr3[t] = cr3[u] => t = u
  /\ op[t].k \in Moving => op[t].s # cr3[u]
  /\ op[t].k \in Moving /\ op[u].k \in Moving /\ op[t].s = op[u].s => t = u
  /\ op[t].k = "clone" /\ op[u].k = "clone" /\ op[t].child = op[u].child => t = u

TablesKept ==
  /\ \A s \in FreeSpaces, v \in VPages : pte[s][v].k = "none"
  /\ \A t \in Tasks, v \in VPages :
       /\ cr3[t] # None /\ vma[t][v] = "none" => pte[cr3[t]][v].k = "none"
       /\ op[t].k = "clone" /\ (v >= op[t].v \/ vma[t][v] = "none") => pte[op[t].s][v].k = "none"
       /\ op[t].k = "destroy" /\ v < op[t].v => pte[op[t].s][v].k = "none"

OwnInv ==
  /\ TypeOK
  /\ \A t \in Tasks : OpHolds(t)
  /\ \A t, u \in Tasks : Apart(t, u)
  /\ TablesKept

SoleInv ==
  /\ \A s \in Spaces, v \in VPages : pte[s][v].k = "page" /\ pte[s][v].w => ref[pte[s][v].p] = 1
  /\ \A t \in Tasks : op[t].k = "sole" => ref[op[t].old] = 1
  /\ \A t \in Tasks : op[t].k \in {"copied", "install"} => ref[op[t].new] = 1

CountInv == OwnInv /\ RefExact /\ SoleInv

(* And why each task sees a memory of its own: a copy and a fork under way *)
(* are as good as what they are made from, because nobody can write to a   *)
(* frame that somebody else holds.                                         *)
ReadsZero(e, v) == e.k = "zero" \/ (e.k = "none" /\ v \in Stack)
Alike(e, f, v) ==
  /\ e.p = f.p /\ ((e.k = "page") <=> (f.k = "page"))
  /\ ReadsZero(e, v) <=> ReadsZero(f, v)

CopyKept(t) == op[t].k = "copied" => mem[op[t].new] = mem[op[t].old]
CloneKept(t) ==
  op[t].k = "clone" =>
    \A v \in VPages : v < op[t].v => Alike(pte[op[t].s][v], pte[cr3[t]][v], v)
ImageKept(t) == cr3[t] # None => \A v \in Image : pte[cr3[t]][v].k = "page"
GuardKept == \A s \in Spaces, v \in VPages : pte[s][v].k \in {"guard", "stray"} => v \in Guard

MemInv ==
  /\ \A t \in Tasks : CopyKept(t) /\ CloneKept(t) /\ ImageKept(t)
  /\ GuardKept

----------------------------------------------------------------------------
(* Counting references.                                                    *)

\* Most steps are plain logic; those that count or open records name SMT, and Z3
\* for a second try.
USE Zenon

\* Two sets of places that differ in the place h only: how many they are.
LEMMA CountMoves ==
  ASSUME NEW F, NEW G, IsFiniteSet(F), IsFiniteSet(G), NEW h, F \ {h} = G \ {h}
  PROVE  /\ Cardinality(F) \in Nat /\ Cardinality(G) \in Nat
         /\ Cardinality(G) + (IF h \in F THEN 1 ELSE 0) = Cardinality(F) + (IF h \in G THEN 1 ELSE 0)
<1> DEFINE A == F \ {h}
<1> HIDE DEF A
<1> QED  BY SMT, Z3, FS_Subset, FS_CardinalityType, FS_AddElement

\* The claims are finitely many.
LEMMA ClaimsFinite == IsFiniteSet(Claims)
BY SpaceAssumption, FS_Product, FS_Singleton, FS_Union DEF Claims

\* The holders of a frame are finitely many; one of them makes a reference,
\* and of two there are two.
LEMMA HoldersCount ==
  ASSUME NEW p
  PROVE  /\ IsFiniteSet(Holders(p)) /\ Cardinality(Holders(p)) \in Nat
         /\ \A h \in Holders(p) : Cardinality(Holders(p)) >= 1
         /\ \A h, i \in Holders(p) : h # i => Cardinality(Holders(p)) >= 2
<1>1. IsFiniteSet(Holders(p)) /\ Cardinality(Holders(p)) \in Nat
  BY ClaimsFinite, FS_Subset, FS_CardinalityType DEF Holders
<1>2. ASSUME NEW h \in Holders(p) PROVE Cardinality(Holders(p)) >= 1
  BY SMT, Z3, <1>1, FS_EmptySet
<1>3. ASSUME NEW h \in Holders(p), NEW i \in Holders(p), h # i PROVE Cardinality(Holders(p)) >= 2
  <2> DEFINE R == Holders(p) \ {h}
  <2>1. IsFiniteSet(R) /\ Cardinality(R) = Cardinality(Holders(p)) - 1
    BY <1>1, FS_RemoveElement
  <2>2. R # {}  BY <1>3
  <2>3. Cardinality(R) \in Nat /\ Cardinality(R) # 0  BY <2>1, <2>2, FS_EmptySet, FS_CardinalityType
  <2> QED  BY SMT, Z3, <1>1, <2>1, <2>3
<1> QED  BY <1>1, <1>2, <1>3

Hold(h) == Holds(h[1], h[2])

\* A frame that is held has a reference, and one with a single reference is
\* held once.
LEMMA Held ==
  ASSUME TypeOK, RefExact, NEW p \in Phys
  PROVE  /\ \A h \in Claims : Hold(h) = p => ref[p] >= 1
         /\ \A h, i \in Claims : Hold(h) = p /\ Hold(i) = p /\ ref[p] = 1 => h = i
         /\ ref[p] = 0 => p \notin lost /\ Holders(p) = {}
<1>2. \A h \in Claims : Hold(h) = p <=> h \in Holders(p)  BY DEF Holders, Hold
<1> QED  BY SMT, Z3, <1>2, HoldersCount DEF TypeOK, RefExact

\* The count follows a step that changes what one place holds.
LEMMA RefStep ==
  ASSUME RefExact, NEW h \in Claims, \A i \in Claims \ {h} : Hold(i)' = Hold(i),
         TypeOK, TypeOK', lost' = lost,
         \A p \in Phys : ref'[p] + (IF Hold(h) = p THEN 1 ELSE 0) = ref[p] + (IF Hold(h)' = p THEN 1 ELSE 0)
  PROVE  RefExact'
<1> SUFFICES ASSUME NEW p \in Phys
             PROVE  ref'[p] = Cardinality(Holders(p)') + (IF p \in lost THEN 1 ELSE 0)
  BY DEF RefExact
<1>5. ref[p] \in Nat /\ ref'[p] \in Nat /\ ref[p] = Cardinality(Holders(p)) + (IF p \in lost THEN 1 ELSE 0)
  BY DEF TypeOK, RefExact
<1> QED  BY SMT, Z3, ClaimsFinite, FS_Subset, CountMoves, <1>5 DEF Holders, Hold

----------------------------------------------------------------------------
(* Tables and their owners.                                                *)

PageIffFrame(e) == (e.k = "page") <=> (e.p # None)

\* The entries that the operations write.
LEMMA Entries ==
  /\ \A k \in Kinds \ {"page"}, w \in BOOLEAN :
       Soft(k, w) \in Entry /\ Soft(k, w).k = k /\ Soft(k, w).p = None
  /\ \A p \in Phys, w, c \in BOOLEAN :
       Leaf(p, w, c) \in Entry /\ Leaf(p, w, c).k = "page" /\ Leaf(p, w, c).p = p /\ Leaf(p, w, c).w = w
  /\ Absent \in Entry /\ Absent.k = "none" /\ Absent.p = None
BY DEF Absent, Kinds, Soft, Entry, Leaf

\* A present entry has a frame, and only such an entry has one.
LEMMA PageFrame ==
  ASSUME TypeOK, NEW s \in Spaces, NEW v \in VPages
  PROVE  /\ pte[s][v].k = "page" => pte[s][v].p \in Phys
         /\ pte[s][v].k # "page" => pte[s][v].p = None
         /\ pte[s][v] \in Entry
BY SMT, Z3 DEF TypeOK, Entry

\* unref_page takes one reference of one frame.
LEMMA UnrefOne ==
  ASSUME NEW r \in [Phys -> Nat], NEW p \in Phys
  PROVE  /\ Unref(r, p) \in [Phys -> Nat]
         /\ Unref(r, p)[p] = IF r[p] > 0 THEN r[p] - 1 ELSE 0
         /\ \A o \in Phys \ {p} : Unref(r, p)[o] = r[o]
BY SMT, Z3 DEF Unref

\* One entry of one table is written.
LEMMA PutEntry ==
  ASSUME NEW q \in [Spaces -> [VPages -> Entry]], NEW s \in Spaces, NEW v \in VPages, NEW e \in Entry
  PROVE  /\ [q EXCEPT ![s][v] = e] \in [Spaces -> [VPages -> Entry]]
         /\ \A r \in Spaces, x \in VPages :
              [q EXCEPT ![s][v] = e][r][x] = IF r = s /\ x = v THEN e ELSE q[r][x]
         /\ \A r \in Spaces \ {s} : [q EXCEPT ![s][v] = e][r] = q[r]
OBVIOUS

\* The operation of one task changes.
LEMMA PutOp ==
  ASSUME TypeOK, NEW t \in Tasks, NEW o \in Op
  PROVE  /\ [op EXCEPT ![t] = o] \in [Tasks -> Op] /\ [op EXCEPT ![t] = o][t] = o
         /\ \A u \in Tasks \ {t} : [op EXCEPT ![t] = o][u] = op[u]
BY DEF TypeOK

\* The records of the operations.
LEMMA Operations ==
  /\ Idle \in Op /\ Idle.k = "idle" /\ Idle.s = None /\ Idle.child = None
  /\ \A k \in Faulting \cup Moving, s \in Spaces \cup {None}, v \in Nat :
       /\ Operation(k, s, v) \in Op /\ Operation(k, s, v).k = k /\ Operation(k, s, v).s = s
       /\ Operation(k, s, v).v = v /\ Operation(k, s, v).child = None
       /\ Operation(k, s, v).old = None /\ Operation(k, s, v).new = None
<1>1. Idle \in Op /\ Idle.k = "idle" /\ Idle.s = None /\ Idle.child = None
  BY SMT, Z3 DEF Idle, Op
<1>2. ASSUME NEW k \in Faulting \cup Moving, NEW s \in Spaces \cup {None}, NEW v \in Nat
      PROVE  /\ Operation(k, s, v) \in Op /\ Operation(k, s, v).k = k /\ Operation(k, s, v).s = s
             /\ Operation(k, s, v).v = v /\ Operation(k, s, v).child = None
             /\ Operation(k, s, v).old = None /\ Operation(k, s, v).new = None
  <2> DEFINE o == Operation(k, s, v)
  <2> QED  BY <1>1 DEF Operation, Op, Idle
<1> QED
  BY <1>1, <1>2

\* What the record of an operation under way holds.
LEMMA OpFields ==
  ASSUME TypeOK, NEW t \in Tasks
  PROVE  /\ op[t] \in Op /\ op[t].k \in {"idle"} \cup Faulting \cup Moving
         /\ op[t].s \in Spaces \cup {None} /\ op[t].v \in Nat
         /\ op[t].old \in Phys \cup {None} /\ op[t].new \in Phys \cup {None} /\ op[t].child \in Tasks \cup {None}
<1>1. op[t] \in Op  BY DEF TypeOK
<1> QED  BY SMT, Z3, <1>1 DEF Op

\* A table starts to be taken down at its first page.
LEMMA Destroyings ==
  ASSUME NEW s \in Spaces
  PROVE  /\ Destroying(s) \in Op /\ Destroying(s).k = "destroy" /\ Destroying(s).s = s /\ Destroying(s).v = 1
         /\ Destroying(s).child = None
BY SMT, Z3, Operations DEF Destroying, Moving

\* A step of a task in its own table, at the start, in the middle or at the end
\* of a fault: nobody else's table or operation is concerned.
LEMMA OwnStep ==
  ASSUME OwnInv, TypeOK', NEW t \in Tasks, cr3[t] # None, cr3' = cr3,
         op[t].k \in Faulting \cup {"idle"}, op'[t].k \in Faulting \cup {"idle"},
         \A u \in Tasks \ {t} : op'[u] = op[u] /\ vma'[u] = vma[u],
         OpHolds(t)',
         \A s \in Spaces \ {cr3[t]} : pte'[s] = pte[s],
         \A v \in VPages : vma'[t][v] = "none" => pte'[cr3[t]][v].k = "none"
  PROVE  OwnInv'
<1>0. TypeOK /\ TablesKept  BY DEF OwnInv
<1>1. \A u \in Tasks : OpHolds(u) /\ \A w \in Tasks : Apart(u, w)  BY DEF OwnInv
<1>3. ASSUME NEW u \in Tasks, u # t PROVE OpHolds(u)'
  <2>1. OpHolds(u) /\ op'[u] = op[u]  BY <1>1, <1>3
  <2>2. op[u].k \in Faulting => pte'[op[u].s] = pte[op[u].s]
    <3> SUFFICES ASSUME op[u].k \in Faulting PROVE pte'[op[u].s] = pte[op[u].s]
      OBVIOUS
    <3>1. cr3[u] # None /\ op[u].s = cr3[u]  BY <2>1 DEF OpHolds
    <3> QED  BY SMT, Z3, <3>1, <1>1, <1>3 DEF TypeOK, Apart
  <2>3. op[u].k = "clone" => op[u].child \in Tasks /\ op'[op[u].child].k = "idle"
    <3> SUFFICES ASSUME op[u].k = "clone" PROVE op[u].child \in Tasks /\ op'[op[u].child].k = "idle"
      OBVIOUS
    <3>2. op[u].child # t  BY <2>1 DEF OpHolds
    <3> QED  BY SMT, Z3, <2>1, <1>0, <3>2 DEF OpHolds, TypeOK, Op
  <2> QED  BY SMT, Z3, <2>1, <2>2, <2>3 DEF OpHolds
<1>4. ASSUME NEW u \in Tasks, NEW w \in Tasks PROVE Apart(u, w)'
  <2>1. Apart(u, w) /\ (u # t => op'[u] = op[u]) /\ (w # t => op'[w] = op[w])  BY <1>1
  <2> QED  BY <2>1 DEF Apart, Faulting, Moving
<1>5. ASSUME NEW s \in FreeSpaces' PROVE s \in FreeSpaces /\ s # cr3[t]
  BY SMT, Z3, <1>5, SpaceAssumption, <1>1, Operations DEF FreeSpaces, InUse, Busy, OpHolds
<1>7. ASSUME NEW u \in Tasks, NEW v \in VPages
      PROVE  /\ cr3'[u] # None /\ vma'[u][v] = "none" => pte'[cr3'[u]][v].k = "none"
             /\ op'[u].k = "clone" /\ (v >= op'[u].v \/ vma'[u][v] = "none") => pte'[op'[u].s][v].k = "none"
             /\ op'[u].k = "destroy" /\ v < op'[u].v => pte'[op'[u].s][v].k = "none"
  <2>1. CASE u = t
    BY <2>1 DEF Faulting
  <2>2. CASE u # t
    <3>3. op[u].k \in Moving => pte'[op[u].s] = pte[op[u].s]
      BY SMT, Z3, <1>0, <1>1 DEF TypeOK, Op, OpHolds, Apart
    <3> QED  BY SMT, Z3, <1>0, <2>2, <1>1, <3>3 DEF TablesKept, Moving, Apart, TypeOK
  <2> QED  BY <2>1, <2>2
<1> QED  BY SMT, Z3, <1>3, <1>4, <1>5, <1>7 DEF OwnInv, TablesKept, FreeSpaces

\* A task that is in no operation.
LEMMA IdleHolds ==
  ASSUME NEW t \in Tasks, op'[t] = Idle
  PROVE  OpHolds(t)'
BY Operations DEF OpHolds, Faulting, Moving

\* One entry of the task's own table and its area are written between two
\* operations.
LEMMA EntryStep ==
  ASSUME OwnInv, NEW t \in Tasks, CanRun(t), NEW v \in VPages, NEW e \in Entry, PageIffFrame(e),
         NEW a \in {"none", "ro", "rw"}, a = "none" => e.k = "none",
         pte' = [pte EXCEPT ![cr3[t]][v] = e], vma' = [vma EXCEPT ![t][v] = a],
         UNCHANGED <<cr3, op>>, ref' \in [Phys -> Nat], mem' \in [Phys -> Values], lost' \subseteq Phys
  PROVE  OwnInv'
<1>1. TypeOK /\ cr3[t] # None /\ op[t] = Idle /\ TablesKept  BY DEF OwnInv, CanRun
<1>3. /\ pte' \in [Spaces -> [VPages -> Entry]]
      /\ \A r \in Spaces, x \in VPages : pte'[r][x] = IF r = cr3[t] /\ x = v THEN e ELSE pte[r][x]
      /\ \A r \in Spaces \ {cr3[t]} : pte'[r] = pte[r]
  BY SMT, Z3, <1>1 DEF TypeOK
<1>4. /\ vma' \in [Tasks -> [VPages -> {"none", "ro", "rw"}]]
      /\ \A x \in VPages : vma'[t][x] = IF x = v THEN a ELSE vma[t][x]
      /\ \A u \in Tasks \ {t} : vma'[u] = vma[u]
  BY <1>1 DEF TypeOK
<1>5. TypeOK'  BY SMT, Z3, <1>1 DEF TypeOK, PageIffFrame
<1>6. \A x \in VPages : vma'[t][x] = "none" => pte'[cr3[t]][x].k = "none"
  BY SMT, Z3, <1>1, <1>3, <1>4 DEF TablesKept
<1>7. OpHolds(t)'  BY <1>1, IdleHolds
<1>8. op[t].k \in Faulting \cup {"idle"} /\ op'[t].k \in Faulting \cup {"idle"}  BY <1>1, Operations
<1>9. \A u \in Tasks \ {t} : op'[u] = op[u] /\ vma'[u] = vma[u]  BY <1>4
<1> QED  BY <1>1, <1>3, <1>5, <1>6, <1>7, <1>8, <1>9, OwnStep

\* mmap, munmap, the first access to a page, and the write that loses a frame.
LEMMA OwnAreas ==
  ASSUME OwnInv, NEW t \in Tasks, NEW v \in VPages,
         (\E prot \in {"ro", "rw"} : Mmap(t, v, prot)) \/ Munmap(t, v) \/ Touch(t, v) \/ StrayFault(t, v)
  PROVE  OwnInv'
<1>1. TypeOK /\ TablesKept  BY DEF OwnInv
<1>2. /\ ref \in [Phys -> Nat] /\ mem \in [Phys -> Values] /\ lost \subseteq Phys
      /\ vma \in [Tasks -> [VPages -> {"none", "ro", "rw"}]]
  BY <1>1 DEF TypeOK
<1>3. CASE \E prot \in {"ro", "rw"} : Mmap(t, v, prot)
  <2>1. PICK prot \in {"ro", "rw"} : Mmap(t, v, prot)  BY <1>3
  <2> DEFINE e == Soft("zero", prot = "rw")
  <2>2. e \in Entry /\ PageIffFrame(e)
    <3>2. "zero" \in Kinds \ {"page"}  BY DEF Kinds
    <3> QED  BY <3>2, Entries DEF PageIffFrame
  <2>3. /\ CanRun(t) /\ pte' = [pte EXCEPT ![cr3[t]][v] = e] /\ vma' = [vma EXCEPT ![t][v] = prot]
        /\ UNCHANGED <<cr3, op, ref, mem, lost>>
    BY <2>1 DEF Mmap
  <2> HIDE DEF e
  <2> QED  BY <1>2, <2>2, <2>3, EntryStep
<1>4. CASE Munmap(t, v)
  <2>1. CanRun(t) /\ pte' = [pte EXCEPT ![cr3[t]][v] = Absent] /\ vma' = [vma EXCEPT ![t][v] = "none"]
        /\ UNCHANGED <<cr3, op, mem, lost>>
    BY <1>4 DEF Munmap, Cleared
  <2>2. ref' \in [Phys -> Nat]
    <3>1. cr3[t] \in Spaces  BY <1>1, <2>1 DEF TypeOK, CanRun
    <3> QED  BY <1>1, <1>2, <1>4, <3>1, PageFrame, UnrefOne DEF Munmap
  <2> QED  BY <1>2, <2>1, <2>2, Entries, EntryStep DEF PageIffFrame
<1>5. CASE Touch(t, v)
  <2> DEFINE e0 == pte[cr3[t]][v]
  <2>0. CanRun(t) /\ cr3[t] \in Spaces  BY <1>1, <1>5 DEF Touch, CanRun, TypeOK
  <2>1. PICK p \in FreePages :
          /\ pte' = [pte EXCEPT ![cr3[t]][v] = Leaf(p, e0.k = "none" \/ e0.w, FALSE)]
          /\ ref' = [ref EXCEPT ![p] = 1] /\ mem' = ZeroFilled(mem, p)
    BY <1>5 DEF Touch
  <2>2. p \in Phys  BY DEF FreePages
  <2> DEFINE e == Leaf(p, e0.k = "none" \/ e0.w, FALSE)
  <2>3. e \in Entry /\ PageIffFrame(e)
    <3>2. p # None  BY <2>2, SpaceAssumption
    <3> QED  BY <2>2, <3>2, Entries DEF PageIffFrame
  <2>4. ref' \in [Phys -> Nat] /\ mem' \in [Phys -> Values]  BY <1>2, <2>1, SpaceAssumption DEF ZeroFilled
  <2>5. vma[t][v] # "none"  BY <1>5, <1>1 DEF Touch, TablesKept, CanRun
  <2>6. vma' = [vma EXCEPT ![t][v] = vma[t][v]] /\ vma[t][v] \in {"none", "ro", "rw"}
    BY SMT, Z3, <1>2, <1>5 DEF Touch
  <2>7. UNCHANGED <<cr3, op>> /\ lost' \subseteq Phys  BY <1>2, <1>5 DEF Touch
  <2>8. pte' = [pte EXCEPT ![cr3[t]][v] = e]  BY <2>1
  <2> HIDE DEF e
  <2> QED  BY <2>0, <2>3, <2>4, <2>5, <2>6, <2>7, <2>8, EntryStep
<1>6. CASE StrayFault(t, v)
  <2> DEFINE k == IF pte[cr3[t]][v].k = "zero" THEN "zero" ELSE "stray"
             e == Soft(k, TRUE)
  <2>0. CanRun(t) /\ vma[t][v] = "rw"  BY <1>6 DEF StrayFault
  <2>1. PICK p \in FreePages : /\ ref' = [ref EXCEPT ![p] = 1] /\ lost' = lost \cup {p}
                               /\ pte' = [pte EXCEPT ![cr3[t]][v] = e]
    BY <1>6 DEF StrayFault
  <2>3. e \in Entry /\ PageIffFrame(e)
    <3>1. k \in Kinds \ {"page"}  BY DEF Kinds
    <3> HIDE DEF k
    <3> QED  BY <3>1, Entries DEF PageIffFrame
  <2>5. vma' = [vma EXCEPT ![t][v] = "rw"] /\ UNCHANGED <<cr3, op, mem>>  BY SMT, Z3, <1>2, <1>6 DEF StrayFault
  <2> HIDE DEF e
  <2> QED  BY <1>2, <2>0, <2>1, <2>3, <2>5, EntryStep DEF FreePages
<1> QED  BY <1>3, <1>4, <1>5, <1>6

\* The steps of a write fault.
LEMMA OwnFaults ==
  ASSUME OwnInv, NEW t \in Tasks,
         (\E v \in VPages : WriteFault(t, v)) \/ FaultSole(t) \/ FaultCopy(t) \/ FaultUnref(t) \/ FaultInstall(t)
  PROVE  OwnInv'
<1>1. TypeOK /\ TablesKept /\ OpHolds(t) /\ op[t] \in Op  BY DEF OwnInv, TypeOK
<1>2. /\ cr3' = cr3 /\ vma' = vma /\ lost' = lost
      /\ \A u \in Tasks \ {t} : op'[u] = op[u] /\ vma'[u] = vma[u]
  BY <1>1 DEF WriteFault, FaultSole, FaultCopy, FaultUnref, FaultInstall, TypeOK
<1>3. cr3[t] # None /\ cr3[t] \in Spaces /\ op[t].k \in Faulting \cup {"idle"}
  <2>1. cr3[t] # None /\ op[t].k \in Faulting \cup {"idle"}
    BY <1>1, Operations DEF WriteFault, CanRun, FaultSole, FaultCopy, FaultUnref, FaultInstall, OpHolds, Faulting
  <2> QED  BY <1>1, <2>1 DEF TypeOK
<1>4. CASE \E v \in VPages : WriteFault(t, v)
  <2>1. PICK v \in VPages : WriteFault(t, v)  BY <1>4
  <2> DEFINE e == pte[cr3[t]][v]
             k == IF Sole(e.p) THEN "sole" ELSE "shared"
             o == [Operation(k, cr3[t], v) EXCEPT !.old = e.p]
  <2>2. op' = [op EXCEPT ![t] = o] /\ UNCHANGED <<pte, ref, mem>>  BY <2>1 DEF WriteFault
  <2>3. e.k = "page" /\ ~e.w  BY <2>1 DEF WriteFault, CowEntry
  <2>4. e.p \in Phys /\ e.p # None  BY <1>1, <1>3, <2>3, PageFrame, SpaceAssumption
  <2>5. k \in {"sole", "shared"}  OBVIOUS
  <2>6. v \in Nat  BY SMT, Z3, SpaceAssumption, FS_CardinalityType
  <2>7. o \in Op /\ o.k = k /\ o.s = cr3[t] /\ o.v = v /\ o.old = e.p
    <3> HIDE DEF k, e
    <3> QED  BY SMT, Z3, <2>4, <1>3, <2>6, <2>5, Operations DEF Op, Faulting
  <2> HIDE DEF o
  <2>8. op' \in [Tasks -> Op] /\ op'[t] = o  BY <1>1, <2>2, <2>7, PutOp
  <2>9. TypeOK'  BY <1>1, <1>2, <2>2, <2>8 DEF TypeOK
  <2>10. OpHolds(t)'  BY <1>2, <1>3, <2>2, <2>3, <2>4, <2>7, <2>8 DEF OpHolds, Faulting, Moving
  <2>11. op'[t].k \in Faulting \cup {"idle"}  BY <2>7, <2>8 DEF Faulting
  <2>12. \A x \in VPages : vma'[t][x] = "none" => pte'[cr3[t]][x].k = "none"
    BY <1>1, <1>2, <1>3, <2>2 DEF TablesKept
  <2> QED  BY <1>2, <1>3, <2>2, <2>9, <2>10, <2>11, <2>12, OwnStep
<1>5. ASSUME NEW e \in Entry, e.k = "page", e.p \in Phys, op[t].k \in Faulting,
             pte' = [pte EXCEPT ![op[t].s][op[t].v] = e], op' = [op EXCEPT ![t] = Idle],
             UNCHANGED <<ref, mem>>
      PROVE  OwnInv'
  <2>1. op[t].s = cr3[t] /\ op[t].v \in VPages /\ pte[cr3[t]][op[t].v].p # None  BY <1>1, <1>5 DEF OpHolds
  <2>2. /\ pte' \in [Spaces -> [VPages -> Entry]]
        /\ \A r \in Spaces, x \in VPages : pte'[r][x] = IF r = cr3[t] /\ x = op[t].v THEN e ELSE pte[r][x]
        /\ \A r \in Spaces \ {cr3[t]} : pte'[r] = pte[r]
    BY SMT, Z3, <1>1, <1>3, <1>5, <2>1 DEF TypeOK
  <2>3. op' \in [Tasks -> Op] /\ op'[t] = Idle  BY <1>1, <1>5, PutOp, Operations
  <2>4. TypeOK'
    BY SMT, Z3, <1>1, <1>2, <1>5, <2>2, <2>3, SpaceAssumption DEF TypeOK
  <2>5. OpHolds(t)' /\ op'[t].k \in Faulting \cup {"idle"}  BY <2>3, IdleHolds, Operations
  <2>6. \A x \in VPages : vma'[t][x] = "none" => pte'[cr3[t]][x].k = "none"
    BY SMT, Z3, <1>1, <1>3, <2>1, PageFrame, <1>2, <2>2 DEF TablesKept
  <2> QED  BY <1>2, <1>3, <2>2, <2>4, <2>5, <2>6, OwnStep
<1>6. CASE FaultSole(t)
  <2> DEFINE e0 == pte[op[t].s][op[t].v]
             e == [e0 EXCEPT !.w = TRUE, !.c = FALSE]
  <2>1. op[t].k \in Faulting /\ op[t].s \in Spaces /\ op[t].v \in VPages /\ e0.p # None
    BY <1>1, <1>3, <1>6 DEF FaultSole, Faulting, OpHolds
  <2>2. e0 \in Entry /\ e0.k = "page" /\ e0.p \in Phys  BY <1>1, <2>1, PageFrame
  <2>3. e \in Entry /\ e.k = "page" /\ e.p \in Phys  BY <2>2 DEF Entry
  <2>4. pte' = [pte EXCEPT ![op[t].s][op[t].v] = e]  BY <1>6 DEF FaultSole, TypeOK, Entry
  <2> HIDE DEF e
  <2> QED  BY <1>5, <2>1, <2>3, <2>4, <1>6 DEF FaultSole
<1>7. CASE FaultInstall(t)
  <2> DEFINE e == Leaf(op[t].new, TRUE, FALSE)
  <2>1. op[t].k \in Faulting /\ op[t].new \in Phys
    BY <1>1, <1>7 DEF FaultInstall, Faulting, OpHolds, Op
  <2>2. e \in Entry /\ e.k = "page" /\ e.p \in Phys  BY <2>1, Entries
  <2>3. /\ pte' = [pte EXCEPT ![op[t].s][op[t].v] = e]
        /\ op' = [op EXCEPT ![t] = Idle] /\ UNCHANGED <<ref, mem>>
    BY <1>7 DEF FaultInstall
  <2> HIDE DEF e
  <2> QED  BY <1>5, <2>1, <2>2, <2>3
<1>8. ASSUME NEW o \in Op, o = Idle \/ (o.k \in Faulting /\ o.s = op[t].s /\ o.v = op[t].v /\ o.old = op[t].old),
             o.k \in {"copied", "install"} => o.new # None,
             op[t].k \in Faulting, op' = [op EXCEPT ![t] = o], pte' = pte,
             ref' \in [Phys -> Nat], mem' \in [Phys -> Values]
      PROVE  OwnInv'
  <2>1. op' \in [Tasks -> Op] /\ op'[t] = o  BY <1>1, <1>8, PutOp
  <2>2. TypeOK'  BY SMT, Z3, <1>1, <1>2, <1>8 DEF TypeOK
  <2>3. o.k \in Faulting \cup {"idle"}  BY <1>8, Operations
  <2>4. OpHolds(t)'  BY <2>1, IdleHolds, <1>1, <1>2, <1>8 DEF OpHolds, Faulting, Moving
  <2>5. \A x \in VPages : vma'[t][x] = "none" => pte'[cr3[t]][x].k = "none"
    BY <1>1, <1>2, <1>3, <1>8 DEF TablesKept
  <2> QED  BY <1>2, <1>3, <1>8, <2>1, <2>2, <2>3, <2>4, <2>5, OwnStep
<1>9. CASE FaultUnref(t)
  <2> DEFINE o == [op[t] EXCEPT !.k = "install"]
  <2>1. op[t].k = "copied" /\ op' = [op EXCEPT ![t] = o] /\ ref' = Unref(ref, op[t].old) /\ UNCHANGED <<pte, mem>>
    BY <1>9 DEF FaultUnref
  <2>3. /\ o \in Op /\ o.k = "install" /\ o.s = op[t].s /\ o.v = op[t].v /\ o.old = op[t].old
        /\ o.new = op[t].new
    BY <1>1 DEF Op, Faulting
  <2> HIDE DEF o
  <2> QED  BY <1>8, <2>1, <1>1, <2>3, UnrefOne DEF TypeOK, Faulting, OpHolds, Op
<1>10. CASE FaultCopy(t)
  <2>1. op[t].k = "shared" /\ op[t].k \in Faulting /\ pte' = pte  BY <1>10 DEF FaultCopy, Faulting
  <2>2. CASE FreePages = {}
    <3>1. op' = [op EXCEPT ![t] = Idle] /\ ref' = ref /\ mem' = mem  BY <1>10, <2>2 DEF FaultCopy
    <3> QED  BY <1>8, <2>1, <3>1, <1>1, Operations DEF TypeOK
  <2>3. CASE FreePages # {}
    <3>1. PICK n \in FreePages : /\ ref' = [ref EXCEPT ![n] = 1] /\ mem' = [mem EXCEPT ![n] = mem[op[t].old]]
                                 /\ op' = [op EXCEPT ![t] = [op[t] EXCEPT !.k = "copied", !.new = n]]
      BY <1>10, <2>3 DEF FaultCopy
    <3> DEFINE o == [op[t] EXCEPT !.k = "copied", !.new = n]
    <3> HIDE DEF o
    <3> QED  BY <1>8, <2>1, <1>1, SpaceAssumption, <3>1 DEF Faulting, TypeOK, Op, FreePages, OpHolds
  <2> QED  BY <2>2, <2>3
<1> QED  BY <1>4, <1>6, <1>7, <1>9, <1>10

\* A step of a task on tables that are its own or nobody's: those it gives up
\* are empty.
LEMMA MoveStep ==
  ASSUME OwnInv, TypeOK', NEW t \in Tasks, NEW Z \in SUBSET Spaces,
         cr3[t] # None \/ op[t].k # "idle",
         \A z \in Z : z \in FreeSpaces \/ z = cr3[t] \/ (op[t].k \in Moving /\ z = op[t].s),
         cr3[t] \in Z \cup {None}, op[t].k \in Moving => op[t].s \in Z,
         \A u \in Tasks \ {t} : op'[u] = op[u] /\ cr3'[u] = cr3[u] /\ vma'[u] = vma[u],
         cr3'[t] \in Z \cup {None}, op'[t].s \in Z \cup {None},
         op'[t].k \in Moving => op'[t].s # cr3'[t],
         OpHolds(t)',
         \A u \in Tasks \ {t} : op'[t].k = "clone" /\ op[u].k = "clone" => op[u].child # op'[t].child,
         \A s \in Spaces \ Z : pte'[s] = pte[s],
         \A z \in Z, v \in VPages : z # cr3'[t] /\ z # op'[t].s => pte'[z][v].k = "none",
         \A v \in VPages :
            /\ cr3'[t] # None /\ vma'[t][v] = "none" => pte'[cr3'[t]][v].k = "none"
            /\ op'[t].k = "clone" /\ (v >= op'[t].v \/ vma'[t][v] = "none") => pte'[op'[t].s][v].k = "none"
            /\ op'[t].k = "destroy" /\ v < op'[t].v => pte'[op'[t].s][v].k = "none"
  PROVE  OwnInv'
<1>0. TypeOK /\ TablesKept  BY DEF OwnInv
<1>1. \A u \in Tasks : OpHolds(u) /\ \A w \in Tasks : Apart(u, w)  BY DEF OwnInv
<1>2. op[t].s \in Z \cup {None}
  <2>2. CASE op[t].k \in Faulting  BY <1>1, <2>2 DEF OpHolds
  <2>3. CASE op[t].k = "idle"  BY <1>1, <2>3, Operations DEF OpHolds
  <2> QED  BY <1>0, <2>2, <2>3, OpFields
<1>3. ASSUME NEW z \in Z, NEW w \in Tasks, w # t
      PROVE  z # cr3[w] /\ (op[w].k \in Moving => op[w].s # z)
  <2>1. z # None /\ z \in Spaces  BY SpaceAssumption
  <2>2. CASE z \in FreeSpaces  BY <2>1, <2>2 DEF FreeSpaces, InUse, Busy
  <2>3. CASE z = cr3[t]  BY <1>1, <1>3, <2>1, <2>3 DEF Apart
  <2>4. CASE op[t].k \in Moving /\ z = op[t].s  BY <1>1, <1>3, <2>4 DEF Apart
  <2> QED  BY <2>2, <2>3, <2>4
<1>4. ASSUME NEW u \in Tasks, u # t, op[u].k = "clone" PROVE op[u].child \in Tasks /\ op[u].child # t
  <2>1. op[u].child \in Tasks /\ op[op[u].child].k = "idle" /\ cr3[op[u].child] = None
    BY <1>0, <1>1, <1>4, OpFields DEF OpHolds
  <2> QED  BY SMT, Z3, <1>1, <1>4, <2>1
<1>5. ASSUME NEW u \in Tasks, u # t PROVE OpHolds(u)'
  <2>1. OpHolds(u) /\ op'[u] = op[u] /\ cr3'[u] = cr3[u]  BY <1>1, <1>5
  <2>2. op[u].k \in Faulting => pte'[op[u].s] = pte[op[u].s]
    <3> SUFFICES ASSUME op[u].k \in Faulting PROVE pte'[op[u].s] = pte[op[u].s]
      OBVIOUS
    <3>1. cr3[u] # None /\ op[u].s = cr3[u]  BY <2>1 DEF OpHolds
    <3> QED  BY SMT, Z3, <3>1, <1>3, <1>5 DEF TypeOK
  <2>3. op[u].k = "clone" =>
          op[u].child \in Tasks /\ op'[op[u].child] = op[op[u].child] /\ cr3'[op[u].child] = cr3[op[u].child]
    BY <1>4, <1>5
  <2> QED  BY SMT, Z3, <2>1, <2>2, <2>3 DEF OpHolds
<1>6. ASSUME NEW u \in Tasks, NEW w \in Tasks PROVE Apart(u, w)'
  <2>1. CASE u # t /\ w # t
    <3>1. Apart(u, w) /\ op'[u] = op[u] /\ op'[w] = op[w] /\ cr3'[u] = cr3[u] /\ cr3'[w] = cr3[w]
      BY <1>1, <2>1
    <3> QED  BY <3>1 DEF Apart
  <2>2. CASE u = t /\ w = t  BY <2>2 DEF Apart
  <2>3. CASE u = t /\ w # t
    <3>2. op'[t].k \in Moving => op'[t].s # None  BY DEF OpHolds
    <3>3. op'[t].k = "clone" /\ op[w].k = "clone" => op[w].child # op'[t].child  BY <2>3
    <3> QED  BY <1>3, <2>3, <3>2, <3>3 DEF Apart
  <2>4. CASE u # t /\ w = t
    <3>2. op[u].k \in Moving => op[u].s # None  BY <1>1 DEF OpHolds
    <3> QED  BY SMT, Z3, <1>3, <2>4, <3>2 DEF Apart, OpHolds
  <2> QED  BY <2>1, <2>2, <2>3, <2>4
<1>7. ASSUME NEW s \in FreeSpaces', NEW v \in VPages PROVE pte'[s][v].k = "none"
  BY SMT, Z3, SpaceAssumption, <1>2, <1>0 DEF FreeSpaces, InUse, Busy, TablesKept
<1>8. ASSUME NEW u \in Tasks, NEW v \in VPages
      PROVE  /\ cr3'[u] # None /\ vma'[u][v] = "none" => pte'[cr3'[u]][v].k = "none"
             /\ op'[u].k = "clone" /\ (v >= op'[u].v \/ vma'[u][v] = "none") => pte'[op'[u].s][v].k = "none"
             /\ op'[u].k = "destroy" /\ v < op'[u].v => pte'[op'[u].s][v].k = "none"
  <2>1. CASE u = t  BY <2>1
  <2>2. CASE u # t
    <3>2. cr3[u] # None => pte'[cr3[u]] = pte[cr3[u]]  BY SMT, Z3, <1>3, <2>2 DEF TypeOK
    <3>3. op[u].k \in Moving => pte'[op[u].s] = pte[op[u].s]
      <4> SUFFICES ASSUME op[u].k \in Moving PROVE pte'[op[u].s] = pte[op[u].s]
        OBVIOUS
      <4>1. op[u].s \in Spaces  BY SMT, Z3, <1>0, <1>1 DEF TypeOK, Op, OpHolds
      <4> QED  BY <4>1, <1>3, <2>2
    <3> QED  BY SMT, Z3, <1>0, <3>2, <3>3 DEF TablesKept, Moving
  <2> QED  BY <2>1, <2>2
<1> QED  BY <1>5, <1>6, <1>7, <1>8 DEF OwnInv, TablesKept

\* clone_address_space: the table of the child is filled, page by page.
LEMMA OwnCloning ==
  ASSUME OwnInv, NEW t \in Tasks, (\E u \in Tasks : CloneStart(t, u)) \/ ClonePage(t) \/ CloneFails(t)
  PROVE  OwnInv'
<1>0. TypeOK /\ TablesKept /\ OpHolds(t) /\ op[t] \in Op  BY DEF OwnInv, TypeOK
<1>1. CASE \E u \in Tasks : CloneStart(t, u)
  <2>1. PICK u \in Tasks : CloneStart(t, u)  BY <1>1
  <2>2. PICK s \in FreeSpaces : op' = [op EXCEPT ![t] = [Operation("clone", s, 1) EXCEPT !.child = u]]
    BY <2>1 DEF CloneStart
  <2> DEFINE o == [Operation("clone", s, 1) EXCEPT !.child = u]
             Z == {s, cr3[t]}
  <2>3. /\ cr3[t] # None /\ cr3[t] \in Spaces /\ op[t] = Idle /\ cr3[u] = None /\ op[u] = Idle
        /\ \A x \in Tasks : op[x].child # u
        /\ UNCHANGED <<cr3, vma, pte, ref, mem, lost>>
    BY <1>0, <2>1 DEF CloneStart, CanRun, TypeOK
  <2>4. s \in Spaces /\ s # None /\ s # cr3[t]  BY SpaceAssumption DEF FreeSpaces, InUse
  <2>5. o \in Op /\ o.k = "clone" /\ o.s = s /\ o.v = 1 /\ o.child = u
    BY SMT, Z3, <2>4, Operations DEF Moving, Op
  <2>6. op' = [op EXCEPT ![t] = o]  BY <2>2
  <2> HIDE DEF o
  <2>7. op' \in [Tasks -> Op] /\ op'[t] = o /\ \A x \in Tasks \ {t} : op'[x] = op[x]
    BY <1>0, <2>5, <2>6, PutOp
  <2>8. TypeOK'  BY <1>0, <2>3, <2>7 DEF TypeOK
  <2>9. OpHolds(t)'  BY SMT, Z3, <2>3, <2>7, Operations, <2>4, <2>5 DEF OpHolds, Faulting, Moving
  <2>10. \A v \in VPages : /\ vma[t][v] = "none" => pte[cr3[t]][v].k = "none"
                           /\ pte[s][v].k = "none"
    BY <1>0, <2>3 DEF TablesKept
  <2>11. \A x \in Tasks \ {t} : op'[x] = op[x] /\ cr3'[x] = cr3[x] /\ vma'[x] = vma[x]  BY <2>3, <2>7
  <2>12. op[t].k \notin Moving  BY <2>3, Operations DEF Moving
  <2>13. op'[t].s = s /\ op'[t].child = u /\ op'[t].k = "clone"  BY <2>5, <2>7
  <2>14. \A z \in Z : z \in FreeSpaces \/ z = cr3[t]  OBVIOUS
  <2>15. Z \in SUBSET Spaces /\ cr3'[t] \in Z /\ op'[t].s \in Z /\ cr3[t] \in Z
         /\ \A z \in Z : z = cr3'[t] \/ z = op'[t].s
    BY <2>3, <2>4, <2>13
  <2> HIDE DEF Z
  <2> QED  BY <2>3, <2>4, <2>8, <2>9, <2>10, <2>11, <2>12, <2>13, <2>14, <2>15, MoveStep
<1>2. CASE ClonePage(t) \/ CloneFails(t)
  <2> DEFINE Z == {op[t].s, cr3[t]}
  <2>1. /\ op[t].k = "clone" /\ op[t].k \in Moving
        /\ cr3' = cr3 /\ vma' = vma /\ lost' = lost /\ mem' = mem
    BY <1>2 DEF ClonePage, CloneFails, Moving
  <2>2. cr3[t] # None /\ op[t].s # None /\ cr3[t] \in Spaces /\ op[t].s \in Spaces /\ op[t].s # cr3[t]
    BY SMT, Z3, <2>1 DEF OpHolds, TypeOK, Op, OwnInv, Apart
  <2>3. /\ Z \in SUBSET Spaces /\ cr3'[t] \in Z /\ op[t].s \in Z /\ cr3[t] \in Z
        /\ \A z \in Z : z = cr3'[t] \/ z = op[t].s
    BY <2>1, <2>2
  <2> HIDE DEF Z
  <2>4. CASE CloneFails(t)
    <3>1. op' = [op EXCEPT ![t] = Destroying(op[t].s)] /\ pte' = pte /\ ref' = ref  BY <2>4 DEF CloneFails
    <3>2. /\ Destroying(op[t].s) \in Op /\ Destroying(op[t].s).k = "destroy"
          /\ Destroying(op[t].s).s = op[t].s /\ Destroying(op[t].s).v = 1
      BY <2>2, Destroyings
    <3>3. /\ op' \in [Tasks -> Op] /\ op'[t] = Destroying(op[t].s)
          /\ \A x \in Tasks \ {t} : op'[x] = op[x]
      BY SMT, Z3, <1>0, <3>1, <3>2, PutOp
    <3>4. TypeOK'  BY <1>0, <2>1, <3>1, <3>3 DEF TypeOK
    <3>5. op'[t].k = "destroy" /\ op'[t].s = op[t].s /\ op'[t].v = 1  BY <3>2, <3>3
    <3>6. OpHolds(t)'  BY SMT, Z3, <2>2, <3>5 DEF OpHolds, Faulting
    <3>7. \A v \in VPages : ~(v < op'[t].v) /\ (vma[t][v] = "none" => pte[cr3[t]][v].k = "none")
      BY SMT, Z3, <1>0, <2>2, <3>5, SpaceAssumption, FS_CardinalityType DEF TablesKept
    <3>8. \A x \in Tasks \ {t} : op'[x] = op[x] /\ cr3'[x] = cr3[x] /\ vma'[x] = vma[x]  BY <2>1, <3>3
    <3> QED  BY SMT, Z3, <2>1, <2>2, <2>3, <3>1, <3>4, <3>5, <3>6, <3>7, <3>8, MoveStep
  <2>5. CASE ClonePage(t)
    <3> DEFINE v == op[t].v
               e == pte[cr3[t]][v]
               a == IF e.k = "page" THEN Shared(e) ELSE e
               b == IF e.k = "page" THEN Shared(e) ELSE Carried(e)
               o == [op[t] EXCEPT !.v = @ + 1]
    <3>0. v \in VPages /\ v \in Nat /\ e \in Entry
      BY <1>0, <2>2, <2>5, PageFrame DEF ClonePage, Op
    <3>1. /\ a \in Entry /\ a.k = e.k /\ a.p = e.p
          /\ b \in Entry /\ (e.k = "page" => b.k = "page" /\ b.p = e.p)
          /\ (e.k # "page" => b.k # "page" /\ b.p = None)
          /\ (e.k = "none" => b.k = "none")
      <4>1. (e.k # "page" => e.p = None) /\ (e.k = "page" => e.p \in Phys)  BY <1>0, <2>2, <3>0, PageFrame
      <4>3. /\ Carried(e) \in Entry
            /\ e.k # "page" => Carried(e).k # "page" /\ Carried(e).p = None
            /\ e.k = "none" => Carried(e).k = "none"
        BY <3>0, <4>1, Entries DEF Carried
      <4> QED  BY <3>0, <4>1, <4>3 DEF Shared, Entry
    <3> HIDE DEF a, b
    <3> DEFINE m == [pte EXCEPT ![cr3[t]][v] = a]
    <3>2. /\ m \in [Spaces -> [VPages -> Entry]]
          /\ \A r \in Spaces, x \in VPages : m[r][x] = IF r = cr3[t] /\ x = v THEN a ELSE pte[r][x]
          /\ \A r \in Spaces \ {cr3[t]} : m[r] = pte[r]
      BY SMT, Z3, <1>0, <2>2, <3>0, <3>1, PutEntry DEF TypeOK
    <3>3. pte' = [m EXCEPT ![op[t].s][v] = b]
      <4>1. CASE e.k = "page"  BY <2>5, <4>1 DEF ClonePage, a, b
      <4>2. CASE e.k # "page"
        <5>1. m = pte  BY <1>0, <4>2 DEF TypeOK, a
        <5> QED  BY <2>5, <4>2, <5>1 DEF ClonePage, b
      <4> QED  BY <4>1, <4>2
    <3> HIDE DEF m
    <3>4. /\ pte' \in [Spaces -> [VPages -> Entry]]
          /\ \A r \in Spaces, x \in VPages : pte'[r][x] = IF r = op[t].s /\ x = v THEN b ELSE m[r][x]
          /\ \A r \in Spaces \ {op[t].s} : pte'[r] = m[r]
      BY SMT, Z3, <2>2, <3>0, <3>1, <3>2, <3>3, PutEntry
    <3>5. o \in Op /\ o.k = "clone" /\ o.s = op[t].s /\ o.v = v + 1 /\ o.child = op[t].child
      BY SMT, Z3, <1>0, <2>1 DEF Op
    <3>6. op' = [op EXCEPT ![t] = o]  BY <2>5 DEF ClonePage, TypeOK, Op
    <3>7. ref' \in [Phys -> Nat]
      <4>1. CASE e.k = "page"
        <5>1. e.p \in Phys /\ ref' = [ref EXCEPT ![e.p] = @ + 1]
          BY <1>0, <2>2, <2>5, <4>1, PageFrame DEF ClonePage, Taken
        <5> HIDE DEF e
        <5> QED  BY SMT, Z3, <1>0, <5>1 DEF TypeOK
      <4>2. CASE e.k # "page"  BY <1>0, <2>5, <4>2 DEF ClonePage, TypeOK
      <4> QED  BY <4>1, <4>2
    <3> HIDE DEF o
    <3>8. op' \in [Tasks -> Op] /\ op'[t] = o /\ \A x \in Tasks \ {t} : op'[x] = op[x]
      BY <1>0, <3>5, <3>6, PutOp
    <3>9. TypeOK'
      <4>1. \A r \in Spaces, x \in VPages : (pte[r][x].k = "page") <=> (pte[r][x].p # None)
        BY <1>0 DEF TypeOK
      <4>2. PageIffFrame(a) /\ PageIffFrame(b)  BY <2>2, <3>0, <3>1, <4>1 DEF PageIffFrame
      <4>3. \A r \in Spaces, x \in VPages : (pte'[r][x].k = "page") <=> (pte'[r][x].p # None)
        BY SMT, Z3, <3>2, <3>4, <4>1, <4>2 DEF PageIffFrame
      <4> QED  BY <1>0, <2>1, <3>4, <3>7, <3>8, <4>3 DEF TypeOK
    <3>10. op'[t].k = "clone" /\ op'[t].s = op[t].s /\ op'[t].v = v + 1 /\ op'[t].child = op[t].child
      BY <3>5, <3>8
    <3>11. v + 1 # 0  BY SMT, Z3, <3>0
    <3>12. OpHolds(t)'
      <4>1. /\ op[t].child \in Tasks /\ op[t].child # None /\ cr3[op[t].child] = None
            /\ op[op[t].child].k = "idle"
        BY <1>0, <2>1, OpFields DEF OwnInv, OpHolds
      <4>2. op'[op'[t].child].k = "idle" /\ cr3'[op'[t].child] = None /\ op'[t].child # None
        BY <2>1, <3>8, <3>10, <4>1
      <4>3. op'[t].v # 0 /\ op'[t].s # None /\ cr3'[t] # None  BY <2>1, <2>2, <3>10, <3>11
      <4> QED  BY <3>10, <4>2, <4>3 DEF OpHolds, Faulting
    <3>13. \A x \in VPages : vma[t][x] = "none" => pte'[cr3[t]][x].k = "none"
      <4>1. \A x \in VPages : vma[t][x] = "none" => pte[cr3[t]][x].k = "none"
        BY <1>0, <2>2 DEF TablesKept
      <4> QED  BY SMT, Z3, <2>2, <3>0, <3>1, <3>2, <3>4, <4>1
    <3>14. \A x \in VPages : x >= v + 1 \/ vma[t][x] = "none" => pte'[op[t].s][x].k = "none"
      <4>2. \A x \in VPages : x >= v \/ vma[t][x] = "none" => pte[op[t].s][x].k = "none"
        BY <1>0, <2>1 DEF TablesKept
      <4>4. \A x \in VPages : pte'[op[t].s][x] = IF x = v THEN b ELSE pte[op[t].s][x]
        BY SMT, Z3, <2>2, <3>2, <3>4
      <4> HIDE DEF v, e
      <4>5. vma[t][v] = "none" => b.k = "none"  BY <3>0, <3>1, <1>0, <2>2 DEF e, TablesKept
      <4> QED  BY SMT, Z3, <4>2, <3>0, <4>4, <4>5
    <3>15. \A x \in Tasks \ {t} : op[x].k = "clone" => op[x].child # op[t].child
      BY <2>1 DEF OwnInv, Apart
    <3>16. \A r \in Spaces \ Z : pte'[r] = pte[r]  BY <2>3, <3>2, <3>4
    <3>17. \A x \in Tasks \ {t} : op'[x] = op[x] /\ cr3'[x] = cr3[x] /\ vma'[x] = vma[x]  BY <2>1, <3>8
    <3> HIDE DEF v, e
    <3> QED
      BY SMT, Z3, <2>1, <2>2, <2>3, <3>9, <3>10, <3>12, <3>13, <3>14, <3>15, <3>16, <3>17, MoveStep
  <2> QED  BY <1>2, <2>4, <2>5
<1> QED  BY <1>1, <1>2

\* The child starts to run on the table made for it.
LEMMA OwnCloned ==
  ASSUME OwnInv, NEW t \in Tasks, CloneDone(t)
  PROVE  OwnInv'
<1> DEFINE u == op[t].child
           s == op[t].s
<1>0. TypeOK /\ TablesKept  BY DEF OwnInv
<1>1. \A x \in Tasks : OpHolds(x) /\ \A w \in Tasks : Apart(x, w)  BY DEF OwnInv
<1>2. op[t].k = "clone" /\ op[t].k \in Moving /\ op[t] \in Op  BY <1>0 DEF CloneDone, Moving, TypeOK
<1>3. /\ u \in Tasks /\ u # t /\ cr3[u] = None /\ op[u].k = "idle" /\ s \in Spaces /\ cr3[t] # None
      /\ s # None
  BY <1>1, <1>2 DEF OpHolds, Op
<1>4. /\ cr3' \in [Tasks -> Spaces \cup {None}] /\ cr3'[u] = s /\ \A x \in Tasks \ {u} : cr3'[x] = cr3[x]
      /\ vma' \in [Tasks -> [VPages -> {"none", "ro", "rw"}]]
      /\ vma'[u] = vma[t] /\ \A x \in Tasks \ {u} : vma'[x] = vma[x]
      /\ UNCHANGED <<pte, ref, mem, lost>>
  BY <1>0, <1>3 DEF CloneDone, TypeOK
<1>5. op' \in [Tasks -> Op] /\ op'[t] = Idle /\ \A x \in Tasks \ {t} : op'[x] = op[x]
  BY SMT, Z3, <1>0, PutOp, Operations DEF CloneDone
<1> HIDE DEF u, s
<1>7. ASSUME NEW x \in Tasks PROVE OpHolds(x)'
  <2>1. CASE x = t  BY <1>5, <2>1, IdleHolds
  <2>2. CASE x = u  BY <1>1, <1>3, <1>5, <2>2 DEF OpHolds
  <2>3. CASE x # t /\ x # u
    <3>1. op'[x] = op[x] /\ cr3'[x] = cr3[x] /\ OpHolds(x) /\ pte' = pte  BY <1>1, <1>4, <1>5, <2>3
    <3>2. op[x].k = "clone" =>
            /\ op[x].child \in Tasks
            /\ op'[op[x].child] = op[op[x].child] /\ cr3'[op[x].child] = cr3[op[x].child]
      <4> SUFFICES ASSUME op[x].k = "clone"
                   PROVE  op[x].child \in Tasks /\ op[x].child # u /\ op[x].child # t
        BY <1>4, <1>5
      <4> QED  BY <1>0, <1>1, <1>2, <2>3 DEF OpHolds, TypeOK, Op, Apart, u
    <3> QED  BY <3>1, <3>2 DEF OpHolds
  <2> QED  BY <2>1, <2>2, <2>3
<1>8. ASSUME NEW x \in Tasks, NEW w \in Tasks PROVE Apart(x, w)'
  <2>0. op'[t].k = "idle" /\ op'[u].k = "idle"  BY <1>3, <1>5, Operations
  <2>1. Apart(x, w) /\ Apart(t, x) /\ Apart(t, w) /\ Apart(x, t) /\ Apart(w, t)  BY <1>1
  <2>3. op'[x].k \in Moving => op'[x].s # cr3'[w]
    <3> SUFFICES ASSUME op'[x].k \in Moving PROVE op'[x].s # cr3'[w]
      OBVIOUS
    <3> QED  BY <1>4, <2>1, <1>5, <2>0, <1>2 DEF Apart, s, Moving
  <2>4. op'[x].k \in Moving /\ op'[w].k \in Moving /\ op'[x].s = op'[w].s => x = w
    BY <1>5, <2>0, <2>1 DEF Apart, Moving
  <2>5. op'[x].k = "clone" /\ op'[w].k = "clone" /\ op'[x].child = op'[w].child => x = w
    BY <1>5, <2>0, <2>1 DEF Apart
  <2> QED  BY <1>2, <1>4, <2>1, <2>3, <2>4, <2>5 DEF Apart, s
<1>9. ASSUME NEW r \in FreeSpaces', NEW v \in VPages PROVE pte'[r][v].k = "none"
  <2>1. r \in Spaces /\ r # None /\ r \notin InUse' /\ ~Busy(r)'  BY SpaceAssumption DEF FreeSpaces
  <2>2. \A x \in Tasks : r # cr3'[x] /\ r # op'[x].s  BY <2>1 DEF InUse, Busy
  <2>3. \A x \in Tasks : r # cr3[x] /\ r # op[x].s  BY <1>3, <1>4, <1>5, <2>1, <2>2 DEF s
  <2>4. r \in FreeSpaces  BY <2>3 DEF FreeSpaces, InUse, Busy
  <2> QED  BY <1>0, <1>4, <2>4 DEF TablesKept
<1>10. ASSUME NEW x \in Tasks, NEW v \in VPages
      PROVE  /\ cr3'[x] # None /\ vma'[x][v] = "none" => pte'[cr3'[x]][v].k = "none"
             /\ op'[x].k = "clone" /\ (v >= op'[x].v \/ vma'[x][v] = "none") => pte'[op'[x].s][v].k = "none"
             /\ op'[x].k = "destroy" /\ v < op'[x].v => pte'[op'[x].s][v].k = "none"
  <2>0. op'[t].k = "idle" /\ op'[u].k = "idle"  BY <1>3, <1>5, Operations
  <2>1. CASE x = u
    <3>1. vma[t][v] = "none" => pte[s][v].k = "none"  BY <1>0, <1>2 DEF TablesKept, s
    <3> QED  BY <1>4, <2>0, <2>1, <3>1
  <2>2. CASE x = t
    <3>1. vma[t][v] = "none" => pte[cr3[t]][v].k = "none"  BY <1>0, <1>3 DEF TablesKept
    <3> QED  BY <1>3, <1>4, <2>0, <2>2, <3>1
  <2>3. CASE x # t /\ x # u  BY SMT, Z3, <1>4, <1>5, <2>3, <1>0 DEF TablesKept
  <2> QED  BY <2>1, <2>2, <2>3
<1>11. TablesKept'  BY <1>9, <1>10 DEF TablesKept
<1> QED  BY <1>4, <1>5, <1>7, <1>8, <1>11 DEF OwnInv, TypeOK

\* A table that its only task leaves is taken down by that task.
LEMMA NobodyElse ==
  ASSUME OwnInv, NEW t \in Tasks
  PROVE  /\ cr3[t] # None => ~address_space_used_by_other(cr3[t], t)
         /\ op[t].k \in Moving => ~address_space_used_by_other(op[t].s, t)
BY DEF OwnInv, Apart, address_space_used_by_other

\* exit, and the old table after exec: destroy_user_address_space begins.
LEMMA OwnLeaving ==
  ASSUME OwnInv, NEW t \in Tasks, Leave(t) \/ Exit(t)
  PROVE  OwnInv'
<1> DEFINE s == IF op[t].k = "leave" THEN op[t].s ELSE cr3[t]
           Z == {s} \cup ({cr3[t]} \ {None})
<1>0. TypeOK /\ TablesKept /\ OpHolds(t) /\ op[t] \in Op /\ Apart(t, t)  BY DEF OwnInv, TypeOK
<1>1. /\ s \in Spaces /\ s # None /\ (cr3[t] # None \/ op[t].k # "idle")
      /\ op[t].k \in Moving => op[t].s = s
      /\ s = cr3[t] \/ (op[t].k \in Moving /\ s = op[t].s)
  <2>1. CASE Leave(t)  BY <1>0, <2>1 DEF Leave, OpHolds, Moving, Op
  <2>2. CASE Exit(t)  BY SMT, Z3, <2>2, <1>0, Operations DEF Exit, CanRun, TypeOK, Moving
  <2> QED  BY <2>1, <2>2
<1>2. /\ op' = [op EXCEPT ![t] = Destroying(s)] /\ UNCHANGED <<pte, ref, mem, lost>>
      /\ cr3' \in [Tasks -> Spaces \cup {None}] /\ cr3'[t] \in {cr3[t], None} /\ cr3'[t] # s
      /\ vma' \in [Tasks -> [VPages -> {"none", "ro", "rw"}]]
      /\ \A u \in Tasks \ {t} : cr3'[u] = cr3[u] /\ vma'[u] = vma[u]
      /\ cr3'[t] # None => vma'[t] = vma[t]
  <2>1. CASE Leave(t)  BY <2>1, <1>0, NobodyElse DEF Leave, Moving, Apart, TypeOK
  <2>2. CASE Exit(t)
    <3>1. cr3[t] # None /\ op[t].k # "leave"  BY <2>2, Operations DEF Exit, CanRun
    <3> QED  BY <1>0, <2>2, <3>1, NobodyElse DEF Exit, TypeOK
  <2> QED  BY <2>1, <2>2
<1>3. Z \in SUBSET Spaces /\ s \in Z /\ cr3[t] \in Z \cup {None} /\ \A z \in Z : z = s \/ z = cr3[t]
  BY <1>0, <1>1 DEF TypeOK
<1> HIDE DEF s, Z
<1>4. /\ Destroying(s) \in Op /\ Destroying(s).k = "destroy" /\ Destroying(s).s = s /\ Destroying(s).v = 1
  BY <1>1, Destroyings
<1>5. op' \in [Tasks -> Op] /\ op'[t] = Destroying(s) /\ \A x \in Tasks \ {t} : op'[x] = op[x]
  BY <1>0, <1>2, <1>4, PutOp
<1>6. TypeOK'  BY SMT, Z3, <1>0, <1>2, <1>5 DEF TypeOK
<1>7. op'[t].k = "destroy" /\ op'[t].s = s /\ op'[t].v = 1  BY <1>4, <1>5
<1>8. OpHolds(t)'  BY SMT, Z3, <1>1, <1>7 DEF OpHolds, Faulting
<1>9. \A v \in VPages : ~(v < op'[t].v) /\ (cr3[t] # None /\ vma[t][v] = "none" => pte[cr3[t]][v].k = "none")
  BY SMT, Z3, <1>0, <1>7, SpaceAssumption, FS_CardinalityType DEF TablesKept
<1>11. cr3'[t] \in Z \cup {None} /\ op'[t].s \in Z \cup {None} /\ op'[t].s # cr3'[t]
  BY <1>2, <1>3, <1>7
<1>12. ASSUME NEW z \in Z, NEW v \in VPages, z # cr3'[t], z # op'[t].s PROVE pte'[z][v].k = "none"
  BY <1>12, <1>3, <1>7, <1>1, Operations DEF Leave, Exit, CanRun, Moving
<1>13. \A z \in Z : z = cr3[t] \/ (op[t].k \in Moving /\ z = op[t].s)  BY <1>1, <1>3
<1> QED  BY SMT, Z3, <1>1, <1>2, <1>3, <1>6, <1>7, <1>8, <1>9, <1>11, <1>12, <1>13, MoveStep

\* destroy_user_address_space, one leaf at a time, to the end.
LEMMA OwnDropping ==
  ASSUME OwnInv, NEW t \in Tasks, DropPage(t) \/ DropDone(t)
  PROVE  OwnInv'
<1> DEFINE s == op[t].s
           Z == {s} \cup ({cr3[t]} \ {None})
<1>0. TypeOK /\ TablesKept /\ OpHolds(t) /\ op[t] \in Op /\ Apart(t, t)  BY DEF OwnInv, TypeOK
<1>1. /\ op[t].k = "destroy" /\ op[t].k \in Moving /\ op[t].k # "idle"
      /\ s \in Spaces /\ s # None /\ s # cr3[t] /\ op[t].v \in Nat /\ op[t].v # 0
      /\ UNCHANGED <<cr3, vma, mem, lost>>
  BY <1>0 DEF DropPage, DropDone, Moving, OpHolds, Op, Apart
<1>2. Z \in SUBSET Spaces /\ s \in Z /\ cr3[t] \in Z \cup {None} /\ \A z \in Z : z = s \/ z = cr3[t]
  BY <1>0, <1>1 DEF TypeOK
<1>3. \A v \in VPages : (cr3[t] # None /\ vma[t][v] = "none" => pte[cr3[t]][v].k = "none")
                        /\ (v < op[t].v => pte[s][v].k = "none")
  BY <1>0, <1>1 DEF TablesKept
<1>6a. \A z \in Z : z = cr3[t] \/ (op[t].k \in Moving /\ z = op[t].s)  BY <1>1
<1> HIDE DEF s, Z
<1>4. CASE DropPage(t)
  <2> DEFINE v == op[t].v
             o == [op[t] EXCEPT !.v = @ + 1]
  <2>1. v \in VPages  BY <1>4 DEF DropPage
  <2>2. /\ pte' \in [Spaces -> [VPages -> Entry]]
        /\ \A r \in Spaces, x \in VPages : pte'[r][x] = IF r = s /\ x = v THEN Absent ELSE pte[r][x]
        /\ \A r \in Spaces \ {s} : pte'[r] = pte[r]
    BY SMT, Z3, <1>0, <1>1, <1>4, <2>1, Entries DEF DropPage, TypeOK, s
  <2>3. ref' \in [Phys -> Nat]  BY <1>0, <1>1, <1>4, PageFrame, UnrefOne DEF DropPage, TypeOK, s
  <2>4. o \in Op /\ o.k = "destroy" /\ o.s = s /\ o.v = v + 1
    BY SMT, Z3, <1>0, <1>1 DEF Op, s
  <2>5. op' = [op EXCEPT ![t] = o]  BY <1>4 DEF DropPage, TypeOK, Op
  <2> HIDE DEF o
  <2>6. op' \in [Tasks -> Op] /\ op'[t] = o /\ \A x \in Tasks \ {t} : op'[x] = op[x]
    BY <1>0, <2>4, <2>5, PutOp
  <2>7. TypeOK'
    <3>1. \A r \in Spaces, x \in VPages : (pte'[r][x].k = "page") <=> (pte'[r][x].p # None)
      <4>1. \A r \in Spaces, x \in VPages : (pte[r][x].k = "page") <=> (pte[r][x].p # None)
        BY <1>0 DEF TypeOK
      <4> QED  BY SMT, Z3, <2>2, <4>1, Entries
    <3> QED  BY <1>0, <1>1, <2>2, <2>3, <2>6, <3>1 DEF TypeOK
  <2>8. op'[t].k = "destroy" /\ op'[t].s = s /\ op'[t].v = v + 1  BY <2>4, <2>6
  <2>9. OpHolds(t)'  BY SMT, Z3, <1>1, <2>8 DEF OpHolds, Faulting
  <2>10. \A x \in VPages : x < v + 1 => pte'[s][x].k = "none"
    BY SMT, Z3, <1>1, SpaceAssumption, FS_CardinalityType, <1>3, <2>2, Entries
  <2>11. \A x \in VPages : cr3[t] # None /\ vma[t][x] = "none" => pte'[cr3[t]][x].k = "none"
    BY SMT, Z3, <1>0, <1>1, <1>3, <2>2 DEF TypeOK
  <2>12. \A x \in Tasks \ {t} : op'[x] = op[x] /\ cr3'[x] = cr3[x] /\ vma'[x] = vma[x]  BY <1>1, <2>6
  <2>13. \A r \in Spaces \ Z : pte'[r] = pte[r]  BY <1>2, <2>2
  <2>14. \A z \in Z : z = cr3'[t] \/ z = op'[t].s  BY <1>1, <1>2, <2>8
  <2>15. cr3'[t] \in Z \cup {None} /\ op'[t].s \in Z \cup {None} /\ op'[t].s # cr3'[t]
    BY <1>1, <1>2, <2>8
  <2>16. op[t].k \in Moving => op[t].s \in Z  BY <1>2 DEF s
  <2> QED
    BY <1>1, <1>2, <1>6a, <2>7, <2>8, <2>9, <2>10, <2>11, <2>12, <2>13, <2>14, <2>15, <2>16, MoveStep
<1>5. CASE DropDone(t)
  <2>1. op' = [op EXCEPT ![t] = Idle] /\ UNCHANGED <<pte, ref>> /\ op[t].v \notin VPages
    BY <1>5 DEF DropDone
  <2>2. op' \in [Tasks -> Op] /\ op'[t] = Idle /\ \A x \in Tasks \ {t} : op'[x] = op[x]
    BY SMT, Z3, <1>0, <2>1, PutOp, Operations
  <2>3. TypeOK'  BY SMT, Z3, <1>0, <1>1, <2>1, <2>2 DEF TypeOK
  <2>4. OpHolds(t)' /\ op'[t].k = "idle" /\ op'[t].s = None  BY <2>2, IdleHolds, Operations
  <2>5. \A v \in VPages : pte[s][v].k = "none"  BY SMT, Z3, <1>1, <2>1, SpaceAssumption, FS_CardinalityType, <1>3
  <2>7. \A z \in Z : z = cr3'[t] \/ z = s  BY <1>1, <1>2
  <2>8. cr3'[t] \in Z \cup {None} /\ op'[t].k \notin Moving  BY <1>1, <1>2, <2>4 DEF Moving
  <2> QED  BY SMT, Z3, <1>1, <1>2, <1>3, <1>6a, <2>1, <2>3, <2>4, <2>5, <2>7, <2>8, MoveStep
<1> QED  BY <1>4, <1>5

\* The entries of a program that starts.
LEMMA StartEntries ==
  ASSUME NEW f \in [Image -> Phys]
  PROVE  /\ Start(f) \in [VPages -> Entry]
         /\ \A v \in VPages : /\ PageIffFrame(Start(f)[v])
                              /\ Start(f)[v].p = IF v \in Image THEN f[v] ELSE None
                              /\ StartVma[v] = "none" => Start(f)[v].k = "none"
         /\ StartVma \in [VPages -> {"none", "ro", "rw"}]
<1>1. ASSUME NEW v \in VPages
      PROVE  /\ Start(f)[v] \in Entry /\ PageIffFrame(Start(f)[v])
             /\ Start(f)[v].p = IF v \in Image THEN f[v] ELSE None
             /\ StartVma[v] = "none" => Start(f)[v].k = "none"
  <2>1. CASE v \in Image
    <3>1. f[v] \in Phys /\ f[v] # None  BY <2>1, SpaceAssumption
    <3> QED  BY <2>1, <3>1, Entries DEF PageIffFrame, Start, StartVma
  <2>2. CASE v \notin Image /\ v \in Guard
    <3>3. Soft("guard", FALSE) \in Entry /\ Soft("guard", FALSE).k = "guard" /\ Soft("guard", FALSE).p = None
      BY Entries DEF Kinds
    <3> QED  BY <2>2, <3>3 DEF PageIffFrame, Start, StartVma
  <2>3. CASE v \notin Image /\ v \notin Guard  BY <2>3, Entries DEF Start, PageIffFrame
  <2> QED  BY <2>1, <2>2, <2>3
<1> QED  BY <1>1 DEF Start, StartVma

\* exec moves the task to a new table.
LEMMA OwnExec ==
  ASSUME OwnInv, NEW t \in Tasks, Exec(t)
  PROVE  OwnInv'
<1>0. TypeOK /\ TablesKept  BY DEF OwnInv
<1>1. PICK s \in FreeSpaces, f \in Loads(FreePages) :
       /\ cr3' = [cr3 EXCEPT ![t] = s]
       /\ vma' = [vma EXCEPT ![t] = StartVma]
       /\ pte' = [pte EXCEPT ![s] = Start(f)]
       /\ ref' = [p \in Phys |-> IF \E v \in Image : f[v] = p THEN 1 ELSE ref[p]]
       /\ mem' = [p \in Phys |-> IF \E v \in Image : f[v] = p THEN Zero ELSE mem[p]]
       /\ op' = [op EXCEPT ![t] = Operation("leave", cr3[t], 0)]
  BY DEF Exec
<1> DEFINE Z == {s, cr3[t]}
           o == Operation("leave", cr3[t], 0)
<1>2. f \in [Image -> Phys]  BY DEF Loads, FreePages
<1>3. cr3[t] # None /\ cr3[t] \in Spaces /\ op[t] = Idle /\ op[t].k = "idle" /\ lost' = lost
  BY SMT, Z3, <1>0, Operations DEF Exec, CanRun, TypeOK
<1>4. s \in Spaces /\ s # None /\ s # cr3[t]  BY SpaceAssumption DEF FreeSpaces, InUse
<1>5. o \in Op /\ o.k = "leave" /\ o.s = cr3[t]
  BY SMT, Z3, <1>3, Operations DEF Moving
<1> HIDE DEF o
<1>6. op' \in [Tasks -> Op] /\ op'[t] = o /\ \A x \in Tasks \ {t} : op'[x] = op[x]
  BY SMT, Z3, <1>0, <1>1, <1>5, PutOp DEF o
<1>7. /\ cr3' \in [Tasks -> Spaces \cup {None}] /\ cr3'[t] = s /\ \A x \in Tasks \ {t} : cr3'[x] = cr3[x]
      /\ vma' \in [Tasks -> [VPages -> {"none", "ro", "rw"}]]
      /\ vma'[t] = StartVma /\ \A x \in Tasks \ {t} : vma'[x] = vma[x]
  BY <1>0, <1>1, <1>2, <1>4, StartEntries DEF TypeOK
<1>8. /\ pte' \in [Spaces -> [VPages -> Entry]] /\ pte'[s] = Start(f)
      /\ \A r \in Spaces \ {s} : pte'[r] = pte[r]
  BY <1>0, <1>1, <1>2, <1>4, StartEntries DEF TypeOK
<1>9. ref' \in [Phys -> Nat] /\ mem' \in [Phys -> Values]
  BY <1>0, <1>1, SpaceAssumption DEF TypeOK
<1>10. TypeOK'
  <2>1. \A r \in Spaces, x \in VPages : (pte[r][x].k = "page") <=> (pte[r][x].p # None)
    BY <1>0 DEF TypeOK
  <2>3. \A r \in Spaces, x \in VPages : (pte'[r][x].k = "page") <=> (pte'[r][x].p # None)
    BY SMT, Z3, <1>8, <2>1, <1>2, StartEntries DEF PageIffFrame
  <2> QED  BY <1>0, <1>3, <1>6, <1>7, <1>8, <1>9, <2>3 DEF TypeOK
<1>11. op'[t].k = "leave" /\ op'[t].s = cr3[t]  BY <1>5, <1>6
<1>12. OpHolds(t)'  BY <1>3, <1>11 DEF OpHolds, Faulting
<1>13. \A v \in VPages : vma'[t][v] = "none" => pte'[cr3'[t]][v].k = "none"
  BY SMT, Z3, <1>2, <1>7, <1>8, StartEntries
<1>14. \A x \in Tasks \ {t} : op'[x] = op[x] /\ cr3'[x] = cr3[x] /\ vma'[x] = vma[x]  BY <1>6, <1>7
<1>15. /\ Z \in SUBSET Spaces /\ cr3'[t] \in Z /\ op'[t].s \in Z /\ cr3[t] \in Z
       /\ \A z \in Z : (z = cr3'[t] \/ z = op'[t].s) /\ (z \in FreeSpaces \/ z = cr3[t])
       /\ \A r \in Spaces \ Z : pte'[r] = pte[r]
  BY <1>3, <1>4, <1>7, <1>8, <1>11
<1>16. op[t].k \notin Moving /\ op'[t].s # cr3'[t]  BY <1>3, <1>4, <1>7, <1>11 DEF Moving
<1> HIDE DEF Z
<1> QED  BY <1>3, <1>10, <1>11, <1>12, <1>13, <1>14, <1>15, <1>16, MoveStep

\* The first program.
LEMMA OwnInit == Init => OwnInv
<1> SUFFICES ASSUME Init PROVE OwnInv
  OBVIOUS
<1>1. PICK t \in Tasks, s \in Spaces :
        /\ cr3 = [u \in Tasks |-> IF u = t THEN s ELSE None]
        /\ vma = [u \in Tasks |-> IF u = t THEN StartVma ELSE [v \in VPages |-> "none"]]
        /\ \E f \in Loads(Phys) :
             /\ pte = [x \in Spaces |-> IF x = s THEN Start(f) ELSE Empty]
             /\ ref = [p \in Phys |-> IF \E v \in Image : f[v] = p THEN 1 ELSE 0]
  BY DEF Init
<1>2. PICK f \in Loads(Phys) :
        /\ pte = [x \in Spaces |-> IF x = s THEN Start(f) ELSE Empty]
        /\ ref = [p \in Phys |-> IF \E v \in Image : f[v] = p THEN 1 ELSE 0]
  BY <1>1
<1>3. f \in [Image -> Phys]  BY DEF Loads
<1>4. \A u \in Tasks : op[u] = Idle  BY DEF Init
<1>5. \A v \in VPages : Empty[v] = Absent  BY DEF Empty
<1>6. TypeOK
  <2>2. vma \in [Tasks -> [VPages -> {"none", "ro", "rw"}]]  BY <1>3, StartEntries, <1>1
  <2>3. pte \in [Spaces -> [VPages -> Entry]]  BY <1>3, StartEntries, Entries, <1>2 DEF Empty
  <2>4. \A r \in Spaces, v \in VPages : (pte[r][v].k = "page") <=> (pte[r][v].p # None)
    <3>1. \A v \in VPages : PageIffFrame(Start(f)[v]) /\ PageIffFrame(Empty[v])
      <4>1. PageIffFrame(Absent)  BY Entries DEF PageIffFrame
      <4> QED  BY <1>3, <1>5, <4>1, StartEntries
    <3> QED  BY <1>2, <3>1 DEF PageIffFrame
  <2> QED  BY SMT, Z3, <2>2, <2>3, <2>4, SpaceAssumption, Operations DEF TypeOK, Init
<1>9. \A r \in FreeSpaces, v \in VPages : pte[r][v].k = "none"
  BY SMT, Z3, <1>1, SpaceAssumption, <1>5, Entries DEF FreeSpaces, InUse
<1>11. \A u \in Tasks : op[u].k = "idle"  BY <1>4, Operations
<1>12. TablesKept  BY <1>9, <1>1, <1>2, <1>3, StartEntries, <1>11 DEF TablesKept
<1> QED  BY <1>6, <1>4, Operations, <1>1, <1>12 DEF OwnInv, OpHolds, Faulting, Moving, Apart

\* Every operation keeps the tables apart.
LEMMA OwnNext == Private /\ OwnInv /\ [Next]_vars => OwnInv'
<1> SUFFICES ASSUME Private, OwnInv, [Next]_vars PROVE OwnInv'
  OBVIOUS
<1>1. ASSUME NEW t \in Tasks, NEW v \in VPages, NEW x \in Values, Store(t, v, x) PROVE OwnInv'
  <2>1. UNCHANGED <<cr3, vma, pte, ref, op, lost>> /\ mem' \in [Phys -> Values]
    BY <1>1 DEF OwnInv, Store, TypeOK
  <2>4. (\A y \in Tasks : OpHolds(y))' /\ (\A y, z \in Tasks : Apart(y, z))'
    BY SMT, Z3, <2>1 DEF OwnInv, OpHolds, Apart
  <2> QED  BY SMT, Z3, <2>1, <2>4 DEF OwnInv, TypeOK, TablesKept, FreeSpaces, InUse, Busy
<1>2. ASSUME NEW t \in Tasks, NEW v \in VPages, NEW prot \in {"ro", "rw"}, PkeyMprotect(t, v, prot) PROVE OwnInv'
  BY <1>2 DEF PkeyMprotect, Private
<1>3. ASSUME NEW t \in Tasks, NEW u \in Tasks, CloneShared(t, u) PROVE OwnInv'
  BY <1>3 DEF CloneShared, Private
<1>4. CASE UNCHANGED vars
  <2>1. TypeOK /\ TablesKept  BY DEF OwnInv
  <2>2. TypeOK' /\ TablesKept'
    BY SMT, Z3, <1>4, <2>1 DEF vars, TypeOK, TablesKept, FreeSpaces, InUse, Busy
  <2> QED  BY <2>2, <1>4 DEF OwnInv, vars, OpHolds, Apart
<1> QED
  BY <1>1, <1>2, <1>3, <1>4, OwnAreas, OwnFaults, OwnCloning, OwnCloned, OwnExec, OwnLeaving, OwnDropping DEF Next

----------------------------------------------------------------------------
(* The counts follow.                                                      *)

\* Page 0 stands for no page, and an entry is none of the copies.
LEMMA ClaimParts ==
  /\ 0 \notin VPages
  /\ \A s \in Spaces, v \in VPages : <<s, v>> \in Claims
  /\ \A t \in Tasks : <<t, 0>> \in Claims
  /\ \A t \in Tasks, s \in Spaces, v \in VPages : <<t, 0>> # <<s, v>>
  /\ \A h \in Claims : \/ \E s \in Spaces, v \in VPages : h = <<s, v>>
                       \/ \E t \in Tasks : h = <<t, 0>>
BY SMT, Z3, SpaceAssumption, FS_CardinalityType DEF Claims

\* What an entry and a copy hold.
LEMMA HoldParts ==
  /\ \A s \in Spaces, v \in VPages : Hold(<<s, v>>) = IF Stale(s, v) THEN None ELSE pte[s][v].p
  /\ \A t \in Tasks : Hold(<<t, 0>>) = IF op[t].k \in {"copied", "install"} THEN op[t].new ELSE None
BY ClaimParts DEF Hold, Holds

\* The same after a step.
LEMMA HoldPartsNext ==
  /\ \A s \in Spaces, v \in VPages : Hold(<<s, v>>)' = IF Stale(s, v)' THEN None ELSE pte'[s][v].p
  /\ \A t \in Tasks : Hold(<<t, 0>>)' = IF op'[t].k \in {"copied", "install"} THEN op'[t].new ELSE None
BY ClaimParts DEF Hold, Holds

\* Only the task that runs on a table lets an entry of it be out of date, and
\* only one that could not be written.
LEMMA StaleIsOwn ==
  ASSUME OwnInv, NEW s \in Spaces, NEW v \in VPages
  PROVE  /\ Stale(s, v) => ~pte[s][v].w
         /\ \A t \in Tasks : cr3[t] = s => (Stale(s, v) <=> op[t].k = "install" /\ op[t].v = v)
         /\ \A t \in Tasks : op[t].k \in Moving /\ op[t].s = s => ~Stale(s, v)
<1>1. \A u \in Tasks : op[u].k = "install" => cr3[u] # None /\ op[u].s = cr3[u] /\ ~pte[op[u].s][op[u].v].w
  BY DEF OwnInv, OpHolds, Faulting
<1>3. ASSUME NEW t \in Tasks, cr3[t] = s
      PROVE  Stale(s, v) <=> op[t].k = "install" /\ op[t].v = v
  BY <1>1, <1>3 DEF OwnInv, Apart, Stale
<1>4. ASSUME NEW t \in Tasks, op[t].k \in Moving, op[t].s = s PROVE ~Stale(s, v)
  BY <1>1, <1>4 DEF OwnInv, Apart, Stale
<1> QED  BY <1>1, <1>3, <1>4 DEF Stale

\* A step that leaves the copies of faults alone and changes the frame of one
\* entry at most.
LEMMA EntryCount ==
  ASSUME OwnInv, OwnInv', RefExact, lost' = lost, NEW s \in Spaces, NEW v \in VPages, ~Stale(s, v),
         \A u \in Tasks : \/ op'[u] = op[u]
                          \/ op[u].k \notin {"copied", "install"} /\ op'[u].k \notin {"copied", "install"},
         \A r \in Spaces, x \in VPages : r # s \/ x # v => pte'[r][x].p = pte[r][x].p,
         \A p \in Phys : ref'[p] + (IF pte[s][v].p = p THEN 1 ELSE 0)
                         = ref[p] + (IF pte'[s][v].p = p THEN 1 ELSE 0)
  PROVE  RefExact'
<1>1. \A r \in Spaces, x \in VPages : Stale(r, x)' <=> Stale(r, x)  BY DEF Stale
<1>2. ASSUME NEW u \in Tasks PROVE Hold(<<u, 0>>)' = Hold(<<u, 0>>)  BY SMT, Z3, HoldParts, HoldPartsNext
<1>3. \A r \in Spaces, x \in VPages : r # s \/ x # v => Hold(<<r, x>>)' = Hold(<<r, x>>)
  BY SMT, Z3, <1>1, HoldParts, HoldPartsNext
<1>5. \A i \in Claims \ {<<s, v>>} : Hold(i)' = Hold(i)
  <2> SUFFICES ASSUME NEW i \in Claims, i # <<s, v>> PROVE Hold(i)' = Hold(i)
    OBVIOUS
  <2>1. CASE \E r \in Spaces, x \in VPages : i = <<r, x>>  BY <2>1, <1>3
  <2>2. CASE \E u \in Tasks : i = <<u, 0>>
    BY <1>2, <2>2
  <2> QED  BY <2>1, <2>2, ClaimParts
<1>7. \A p \in Phys : ref'[p] + (IF Hold(<<s, v>>) = p THEN 1 ELSE 0)
                      = ref[p] + (IF Hold(<<s, v>>)' = p THEN 1 ELSE 0)
  BY <1>1, HoldParts, HoldPartsNext
<1> QED  BY <1>5, ClaimParts, <1>7, RefStep DEF OwnInv

\* A step of t that takes or drops references only where it has one itself, at
\* h, or of a free frame: a frame that somebody else holds alone stays so.
LEMMA SoleStep ==
  ASSUME OwnInv, RefExact, SoleInv, TypeOK', NEW t \in Tasks, NEW h \in Claims,
         \A p \in Phys : ref'[p] = ref[p] \/ ref[p] = 0 \/ Hold(h) = p,
         \A s \in Spaces, v \in VPages :
            \/ <<s, v>> # h /\ pte'[s][v] = pte[s][v]
            \/ ~(pte'[s][v].k = "page" /\ pte'[s][v].w)
            \/ ref'[pte'[s][v].p] = 1,
         \A u \in Tasks \ {t} : op'[u] = op[u],
         op'[t].k = "sole" => ref'[op'[t].old] = 1,
         op'[t].k \in {"copied", "install"} => ref'[op'[t].new] = 1,
         \/ h = <<t, 0>>
         \/ \E s \in Spaces, v \in VPages :
              h = <<s, v>> /\ (s = cr3[t] \/ (op[t].k \in Moving /\ s = op[t].s))
  PROVE  SoleInv'
<1>0. TypeOK  BY DEF OwnInv
<1>1. ASSUME NEW i \in Claims, i # h, NEW p \in Phys, Hold(i) = p, ref[p] = 1 PROVE ref'[p] = 1
  BY SMT, Z3, <1>0, <1>1, Held
<1>2. ASSUME NEW s \in Spaces, NEW v \in VPages, pte'[s][v].k = "page", pte'[s][v].w
      PROVE  ref'[pte'[s][v].p] = 1
  <2>1. CASE <<s, v>> # h /\ pte'[s][v] = pte[s][v]
    <3>1. pte[s][v].k = "page" /\ pte[s][v].w /\ pte[s][v].p \in Phys /\ ref[pte[s][v].p] = 1
      BY SMT, Z3, <1>0, <1>2, <2>1, PageFrame DEF SoleInv
    <3>2. Hold(<<s, v>>) = pte[s][v].p  BY SMT, Z3, <3>1, StaleIsOwn, HoldParts
    <3> QED  BY SMT, Z3, <1>1, <2>1, <3>1, <3>2, ClaimParts
  <2> QED  BY <1>2, <2>1
<1>3. ASSUME NEW u \in Tasks, op'[u].k = "sole" PROVE ref'[op'[u].old] = 1
  <2>1. CASE u = t  BY <1>3, <2>1
  <2>2. CASE u # t
    <3>1. op'[u] = op[u] /\ op[u].k = "sole" /\ ref[op[u].old] = 1  BY <1>3, <2>2 DEF SoleInv
    <3>2. /\ cr3[u] # None /\ op[u].s = cr3[u] /\ op[u].v \in VPages /\ cr3[u] \in Spaces
          /\ op[u].old # None /\ pte[cr3[u]][op[u].v].p = op[u].old /\ op[u].old \in Phys
      BY SMT, Z3, <3>1 DEF OwnInv, OpHolds, Faulting, TypeOK, Op
    <3>3. Hold(<<cr3[u], op[u].v>>) = op[u].old  BY <3>1, <3>2, StaleIsOwn, HoldParts
    <3> QED  BY SMT, Z3, <1>1, <3>1, <3>2, <3>3, ClaimParts DEF OwnInv, Apart
  <2> QED  BY <2>1, <2>2
<1>4. ASSUME NEW u \in Tasks, op'[u].k \in {"copied", "install"} PROVE ref'[op'[u].new] = 1
  <2>1. CASE u = t  BY <1>4, <2>1
  <2>2. CASE u # t
    <3>1. /\ op'[u] = op[u] /\ op[u].k \in {"copied", "install"} /\ ref[op[u].new] = 1
          /\ op[u].new # None /\ op[u].new \in Phys
      BY <1>0, <1>4, <2>2, OpFields DEF SoleInv, OwnInv, OpHolds
    <3>2. Hold(<<u, 0>>) = op[u].new  BY <3>1, HoldParts
    <3> QED  BY SMT, Z3, <1>1, <3>1, <3>2, ClaimParts
  <2> QED  BY <2>1, <2>2
<1> QED  BY <1>2, <1>3, <1>4 DEF SoleInv


\* A step that leaves entries and counts alone, and copies of faults too.
LEMMA QuietCount ==
  ASSUME CountInv, OwnInv', NEW t \in Tasks, UNCHANGED <<pte, ref, lost>>,
         \A u \in Tasks \ {t} : op'[u] = op[u],
         op[t].k \notin {"copied", "install"}, op'[t].k \notin {"copied", "install"},
         op'[t].k = "sole" => ref[op'[t].old] = 1
  PROVE  RefExact' /\ SoleInv'
<1>0. OwnInv /\ RefExact /\ SoleInv /\ TypeOK /\ TypeOK'  BY DEF CountInv, OwnInv
<1>1. \A r \in Spaces, x \in VPages : Stale(r, x)' <=> Stale(r, x)  BY DEF Stale
<1>2. \A r \in Spaces, x \in VPages : Hold(<<r, x>>)' = Hold(<<r, x>>)
  BY <1>1, HoldParts, HoldPartsNext
<1>3. ASSUME NEW u \in Tasks PROVE Hold(<<u, 0>>)' = Hold(<<u, 0>>)  BY HoldParts, HoldPartsNext
<1>4. \A i \in Claims : Hold(i)' = Hold(i)  BY <1>2, <1>3, ClaimParts
<1>6. SoleInv'
  <2>2. <<t, 0>> \in Claims  BY ClaimParts
  <2> QED  BY SMT, Z3, <1>0, ClaimParts, <2>2, SoleStep
<1> QED  BY ClaimParts, <1>0, <1>4, RefStep, <1>6

\* A step that writes one entry, of the task's own table or of the one it
\* takes down or builds, and leaves copies of faults alone.
LEMMA EntryChangeAt ==
  ASSUME CountInv, OwnInv', NEW t \in Tasks, NEW s \in Spaces, NEW v \in VPages,
         s = cr3[t] \/ (op[t].k \in Moving /\ s = op[t].s),
         lost' = lost, \A r \in Spaces, x \in VPages : r # s \/ x # v => pte'[r][x] = pte[r][x],
         \A u \in Tasks \ {t} : op'[u] = op[u],
         op[t].k \notin {"copied", "install"}, op'[t].k \notin Faulting,
         \A p \in Phys : ref'[p] = ref[p] \/ ref[p] = 0 \/ pte[s][v].p = p,
         \A p \in Phys : ref'[p] + (IF pte[s][v].p = p THEN 1 ELSE 0)
                         = ref[p] + (IF pte'[s][v].p = p THEN 1 ELSE 0),
         pte'[s][v].k = "page" /\ pte'[s][v].w => ref'[pte'[s][v].p] = 1
  PROVE  RefExact' /\ SoleInv'
<1>0. OwnInv /\ RefExact /\ SoleInv /\ TypeOK /\ TypeOK'  BY DEF CountInv, OwnInv
<1>1. ~Stale(s, v)  BY <1>0, StaleIsOwn
<1>3. op'[t].k \notin {"copied", "install", "sole"}  BY DEF Faulting
<1>4. RefExact'
  <2>1. \A u \in Tasks : \/ op'[u] = op[u]
                         \/ op[u].k \notin {"copied", "install"} /\ op'[u].k \notin {"copied", "install"}
    BY <1>3
  <2> QED  BY <1>0, <1>1, <2>1, EntryCount
<1>5. SoleInv'
  <2>1. <<s, v>> \in Claims /\ Hold(<<s, v>>) = pte[s][v].p  BY <1>1, HoldParts, ClaimParts
  <2> QED  BY SMT, Z3, <1>0, <1>3, <2>1, SoleStep
<1> QED  BY <1>4, <1>5

\* The same, for an entry that is known.
LEMMA EntryChange ==
  ASSUME CountInv, OwnInv', NEW t \in Tasks, NEW s \in Spaces, NEW v \in VPages, NEW e \in Entry,
         s = cr3[t] \/ (op[t].k \in Moving /\ s = op[t].s),
         lost' = lost, pte' = [pte EXCEPT ![s][v] = e],
         \A u \in Tasks \ {t} : op'[u] = op[u],
         op[t].k \notin {"copied", "install"}, op'[t].k \notin Faulting,
         \A p \in Phys : ref'[p] = ref[p] \/ ref[p] = 0 \/ pte[s][v].p = p,
         \A p \in Phys : ref'[p] + (IF pte[s][v].p = p THEN 1 ELSE 0)
                         = ref[p] + (IF e.p = p THEN 1 ELSE 0),
         e.k = "page" /\ e.w => ref'[e.p] = 1
  PROVE  RefExact' /\ SoleInv'
<1>1. /\ \A r \in Spaces, x \in VPages : r # s \/ x # v => pte'[r][x] = pte[r][x]
      /\ pte'[s][v] = e
  BY SMT, Z3, PutEntry DEF CountInv, OwnInv, TypeOK
<1>2. /\ \A p \in Phys : ref'[p] + (IF pte[s][v].p = p THEN 1 ELSE 0)
                         = ref[p] + (IF pte'[s][v].p = p THEN 1 ELSE 0)
      /\ pte'[s][v].k = "page" /\ pte'[s][v].w => ref'[pte'[s][v].p] = 1
  BY <1>1
<1> QED  BY <1>1, <1>2, EntryChangeAt

\* A frame that an entry in use maps has a reference.
LEMMA MappedHeld ==
  ASSUME CountInv, NEW s \in Spaces, NEW v \in VPages, ~Stale(s, v), pte[s][v].k = "page"
  PROVE  pte[s][v].p \in Phys /\ ref[pte[s][v].p] >= 1
BY PageFrame, HoldParts, ClaimParts, Held DEF CountInv, OwnInv

\* unref_page for the entry that is cleared balances it.
LEMMA ClearCount ==
  ASSUME CountInv, NEW s \in Spaces, NEW v \in VPages, ~Stale(s, v),
         ref' = IF pte[s][v].k = "page" THEN Unref(ref, pte[s][v].p) ELSE ref
  PROVE  /\ \A p \in Phys : ref'[p] = ref[p] \/ ref[p] = 0 \/ pte[s][v].p = p
         /\ \A p \in Phys : ref'[p] + (IF pte[s][v].p = p THEN 1 ELSE 0)
                            = ref[p] + (IF Absent.p = p THEN 1 ELSE 0)
<1>0. TypeOK /\ ref \in [Phys -> Nat] /\ Absent.p \notin Phys
  BY SpaceAssumption, Entries DEF CountInv, OwnInv, TypeOK
<1>1. CASE pte[s][v].k = "page"  BY SMT, Z3, <1>1, MappedHeld, <1>0, UnrefOne
<1>2. CASE pte[s][v].k # "page"  BY <1>0, <1>2, PageFrame, SpaceAssumption
<1> QED  BY <1>1, <1>2


\* mmap, munmap and the first access to a page keep the counts.
LEMMA CountAreas ==
  ASSUME CountInv, OwnInv', NEW t \in Tasks, NEW v \in VPages,
         (\E prot \in {"ro", "rw"} : Mmap(t, v, prot)) \/ Munmap(t, v) \/ Touch(t, v)
  PROVE  RefExact' /\ SoleInv'
<1>0. OwnInv /\ TypeOK /\ TablesKept /\ CanRun(t) /\ op' = op /\ lost' = lost
  BY DEF CountInv, OwnInv, Mmap, Munmap, Touch
<1>1. /\ cr3[t] # None /\ cr3[t] \in Spaces /\ op[t].k = "idle"
      /\ ref \in [Phys -> Nat]
  BY SMT, Z3, <1>0, Operations DEF CanRun, TypeOK
<1>2. op[t].k \notin {"copied", "install"} /\ op'[t].k \notin Faulting
  BY <1>0, <1>1 DEF Faulting
<1>3. ~Stale(cr3[t], v)  BY <1>0, <1>1, StaleIsOwn
<1>4. CASE \E prot \in {"ro", "rw"} : Mmap(t, v, prot)
  <2>1. PICK prot \in {"ro", "rw"} : Mmap(t, v, prot)  BY <1>4
  <2> DEFINE e == Soft("zero", prot = "rw")
  <2>2. e \in Entry /\ e.k = "zero" /\ e.p = None
    <3>2. "zero" \in Kinds \ {"page"}  BY DEF Kinds
    <3> QED  BY <3>2, Entries
  <2>3. vma[t][v] = "none" /\ pte' = [pte EXCEPT ![cr3[t]][v] = e] /\ ref' = ref  BY <2>1 DEF Mmap
  <2> HIDE DEF e
  <2>5. \A p \in Phys : ref'[p] + (IF pte[cr3[t]][v].p = p THEN 1 ELSE 0)
                        = ref[p] + (IF e.p = p THEN 1 ELSE 0)
    BY <2>2, <2>3, <1>0, <1>1, PageFrame DEF TablesKept
  <2> QED  BY <1>0, <1>1, <1>2, <2>2, <2>3, <2>5, EntryChange
<1>5. CASE Munmap(t, v)
  <2>1. /\ pte' = [pte EXCEPT ![cr3[t]][v] = Absent]
        /\ ref' = IF pte[cr3[t]][v].k = "page" THEN Unref(ref, pte[cr3[t]][v].p) ELSE ref
    BY <1>5 DEF Munmap, Cleared
  <2>2. Absent \in Entry /\ Absent.k # "page"  BY Entries
  <2>3. /\ \A p \in Phys : ref'[p] = ref[p] \/ ref[p] = 0 \/ pte[cr3[t]][v].p = p
        /\ \A p \in Phys : ref'[p] + (IF pte[cr3[t]][v].p = p THEN 1 ELSE 0)
                           = ref[p] + (IF Absent.p = p THEN 1 ELSE 0)
    BY <1>1, <1>3, <2>1, ClearCount
  <2> QED  BY <1>0, <1>1, <1>2, <2>1, <2>2, <2>3, EntryChange
<1>6. CASE Touch(t, v)
  <2> DEFINE e0 == pte[cr3[t]][v]
  <2>1. PICK p \in FreePages :
          /\ pte' = [pte EXCEPT ![cr3[t]][v] = Leaf(p, e0.k = "none" \/ e0.w, FALSE)]
          /\ ref' = [ref EXCEPT ![p] = 1]
    BY <1>6 DEF Touch
  <2>2. p \in Phys /\ ref[p] = 0 /\ p # None  BY SpaceAssumption DEF FreePages
  <2> DEFINE e == Leaf(p, e0.k = "none" \/ e0.w, FALSE)
  <2>3. e \in Entry /\ e.p = p  BY <2>2, Entries
  <2>4. e0.p = None  BY <1>6, <1>0, <1>1, PageFrame DEF Touch
  <2>5. pte' = [pte EXCEPT ![cr3[t]][v] = e]  BY <2>1
  <2> HIDE DEF e
  <2>6. ref'[p] = 1 /\ \A q \in Phys \ {p} : ref'[q] = ref[q]  BY <1>1, <2>1, <2>2
  <2>9. e.k = "page" /\ e.w => ref'[e.p] = 1  BY <2>3, <2>6
  <2>10. /\ \A q \in Phys : ref'[q] = ref[q] \/ ref[q] = 0 \/ pte[cr3[t]][v].p = q
         /\ \A q \in Phys : ref'[q] + (IF pte[cr3[t]][v].p = q THEN 1 ELSE 0)
                            = ref[q] + (IF e.p = q THEN 1 ELSE 0)
    BY SMT, Z3, <2>2, <2>6, <2>4, SpaceAssumption, <2>3
  <2> QED  BY <1>0, <1>1, <1>2, <2>3, <2>5, <2>9, <2>10, EntryChange
<1> QED  BY <1>4, <1>5, <1>6

\* A write to an entry without a frame takes one that nothing holds.
LEMMA CountStray ==
  ASSUME CountInv, OwnInv', NEW t \in Tasks, NEW v \in VPages, StrayFault(t, v)
  PROVE  RefExact' /\ SoleInv'
<1>0. OwnInv /\ TypeOK /\ TypeOK' /\ RefExact /\ SoleInv /\ CanRun(t) /\ op' = op
  BY DEF CountInv, OwnInv, StrayFault
<1>1. /\ cr3[t] # None /\ cr3[t] \in Spaces /\ op[t].k = "idle"
      /\ ref \in [Phys -> Nat]
  BY SMT, Z3, <1>0, Operations DEF CanRun, TypeOK
<1> DEFINE e0 == pte[cr3[t]][v]
           e == Soft(IF e0.k = "zero" THEN "zero" ELSE "stray", TRUE)
<1>2. PICK p \in FreePages : /\ ref' = [ref EXCEPT ![p] = 1]
                             /\ pte' = [pte EXCEPT ![cr3[t]][v] = e]
                             /\ lost' = lost \cup {p}
  BY DEF StrayFault
<1>3. e \in Entry /\ e.k # "page" /\ e.p = None
  <2>1. (IF e0.k = "zero" THEN "zero" ELSE "stray") \in {"zero", "stray"}
        /\ {"zero", "stray"} \subseteq Kinds \ {"page"}
    BY DEF Kinds
  <2> QED  BY <2>1, Entries
<1>4. e0.p = None  BY <1>0, <1>1, PageFrame DEF StrayFault
<1>5. p \in Phys /\ ref[p] = 0  BY DEF FreePages
<1>6. ref'[p] = 1 /\ \A q \in Phys \ {p} : ref'[q] = ref[q]  BY <1>1, <1>2, <1>5
<1> HIDE DEF e, e0
<1>7. \A r \in Spaces, x \in VPages : pte'[r][x] = IF r = cr3[t] /\ x = v THEN e ELSE pte[r][x]
  BY SMT, Z3, <1>0, <1>2 DEF TypeOK
<1>8. \A i \in Claims : Hold(i)' = Hold(i)
  <2>1. \A r \in Spaces, x \in VPages : pte'[r][x].p = pte[r][x].p  BY <1>3, <1>4, <1>7 DEF e0
  <2>2. \A r \in Spaces, x \in VPages : Stale(r, x)' <=> Stale(r, x)  BY <1>0 DEF Stale
  <2>3. ASSUME NEW r \in Spaces, NEW x \in VPages PROVE Hold(<<r, x>>)' = Hold(<<r, x>>)
    <3>2. Hold(<<r, x>>) = IF Stale(r, x) THEN None ELSE pte[r][x].p  BY HoldParts
    <3> QED  BY <2>1, <2>2, HoldPartsNext, <3>2
  <2> QED  BY SMT, Z3, <2>3, <1>0, HoldParts, HoldPartsNext, ClaimParts
<1>9. RefExact'
  <2> SUFFICES ASSUME NEW q \in Phys
               PROVE  ref'[q] = Cardinality(Holders(q)') + (IF q \in lost' THEN 1 ELSE 0)
    BY DEF RefExact
  <2>1. Holders(q)' = Holders(q)  BY <1>8 DEF Holders, Hold
  <2>2. Cardinality(Holders(q)) \in Nat /\ ref[q] = Cardinality(Holders(q)) + (IF q \in lost THEN 1 ELSE 0)
    BY <1>0, HoldersCount DEF RefExact
  <2>3. CASE q = p  BY SMT, Z3, <1>2, <1>5, <1>6, <2>1, <2>2
  <2>4. CASE q # p  BY <1>2, <2>4, <1>6, <2>1, <2>2
  <2> QED  BY <2>3, <2>4
<1>10. SoleInv'
  <2>1. <<t, 0>> \in Claims /\ \A r \in Spaces, x \in VPages : <<r, x>> # <<t, 0>>  BY ClaimParts
  <2>3. \A q \in Phys : ref'[q] = ref[q] \/ ref[q] = 0  BY <1>5, <1>6
  <2> QED  BY SMT, Z3, <1>0, <1>1, <2>1, <1>3, <1>7, <2>3, SoleStep
<1> QED  BY <1>9, <1>10


\* A write fault reads the count, and gives the write bit back to a sole owner.
LEMMA CountFault ==
  ASSUME CountInv, OwnInv', NEW t \in Tasks, (\E v \in VPages : WriteFault(t, v)) \/ FaultSole(t)
  PROVE  RefExact' /\ SoleInv'
<1>0. OwnInv /\ TypeOK /\ RefExact /\ SoleInv /\ TypeOK' /\ op \in [Tasks -> Op] /\ op[t] \in Op
  BY DEF CountInv, OwnInv, TypeOK
<1>1. CASE \E v \in VPages : WriteFault(t, v)
  <2>1. PICK v \in VPages : WriteFault(t, v)  BY <1>1
  <2> DEFINE p == pte[cr3[t]][v].p
             k == IF Sole(p) THEN "sole" ELSE "shared"
             o == [Operation(k, cr3[t], v) EXCEPT !.old = p]
  <2>2. op' = [op EXCEPT ![t] = o] /\ UNCHANGED <<pte, ref, lost>> /\ op[t].k = "idle" /\ CanRun(t)
    BY <2>1, Operations DEF WriteFault, CanRun
  <2>3. o.k = k /\ o.old = p  BY DEF Operation, Idle
  <2> HIDE DEF o
  <2>5. op'[t] = o /\ \A u \in Tasks \ {t} : op'[u] = op[u]  BY <1>0, <2>2
  <2>6. /\ op[t].k \notin {"copied", "install"} /\ op'[t].k \notin {"copied", "install"}
        /\ op'[t].k = "sole" => ref[op'[t].old] = 1
    BY <2>2, <2>3, <2>5 DEF Sole
  <2> QED  BY <2>2, <2>5, <2>6, QuietCount
<1>2. CASE FaultSole(t)
  <2>1. op[t].k = "sole" /\ op' = [op EXCEPT ![t] = Idle] /\ ref' = ref /\ lost' = lost
    BY <1>2 DEF FaultSole
  <2>2. PICK s \in Spaces, v \in VPages : s = op[t].s /\ v = op[t].v /\ s = cr3[t] /\ op[t].old = pte[s][v].p
    <3>1. OpHolds(t) /\ cr3[t] \in Spaces \cup {None} /\ op[t].k \in Faulting
      BY <1>0, <2>1 DEF OwnInv, Faulting, TypeOK
    <3> QED  BY <2>1, <3>1 DEF OpHolds
  <2>3. /\ \A r \in Spaces, x \in VPages : r # s \/ x # v => pte'[r][x] = pte[r][x]
        /\ pte'[s][v].p = pte[s][v].p
    <3>2. pte' = [pte EXCEPT ![s][v].w = TRUE, ![s][v].c = FALSE]  BY <1>2, <2>2 DEF FaultSole
    <3> QED  BY SMT, Z3, <1>0, <3>2 DEF Entry, TypeOK
  <2>4. op'[t] = Idle /\ \A u \in Tasks \ {t} : op'[u] = op[u]  BY <1>0, <2>1
  <2>5. op[t].k \notin {"copied", "install"} /\ op'[t].k \notin Faulting
    BY <2>1, <2>4, Operations DEF Faulting
  <2>6. /\ \A p \in Phys : ref'[p] = ref[p] \/ ref[p] = 0 \/ pte[s][v].p = p
        /\ \A p \in Phys : ref'[p] + (IF pte[s][v].p = p THEN 1 ELSE 0)
                           = ref[p] + (IF pte'[s][v].p = p THEN 1 ELSE 0)
    BY <2>1, <2>3
  <2>7. ref'[pte'[s][v].p] = 1  BY SMT, Z3, <1>0, <2>1, <2>2, <2>3 DEF SoleInv
  <2>8. s = cr3[t] \/ (op[t].k \in Moving /\ s = op[t].s)  BY <2>2
  <2>9. pte'[s][v].k = "page" /\ pte'[s][v].w => ref'[pte'[s][v].p] = 1  BY <2>7
  <2>10. lost' = lost /\ \A r \in Spaces, x \in VPages : r # s \/ x # v => pte'[r][x] = pte[r][x]  BY <2>1, <2>3
  <2> QED  BY <2>4, <2>5, <2>6, <2>8, <2>9, <2>10, EntryChangeAt
<1> QED  BY <1>1, <1>2

\* The fault takes a free frame for the copy, or gives up.
LEMMA CountCopy ==
  ASSUME CountInv, OwnInv', NEW t \in Tasks, FaultCopy(t)
  PROVE  RefExact' /\ SoleInv'
<1>0. /\ OwnInv /\ TypeOK /\ RefExact /\ SoleInv /\ TypeOK' /\ op \in [Tasks -> Op] /\ op[t] \in Op
      /\ op[t].k = "shared" /\ pte' = pte /\ lost' = lost /\ ref \in [Phys -> Nat]
  BY DEF CountInv, OwnInv, TypeOK, FaultCopy
<1>1. CASE FreePages = {}  BY <1>1, <1>0, Operations, QuietCount DEF FaultCopy
<1>2. CASE FreePages # {}
  <2>1. PICK n \in FreePages :
          /\ ref' = [ref EXCEPT ![n] = 1]
          /\ op' = [op EXCEPT ![t] = [op[t] EXCEPT !.k = "copied", !.new = n]]
    BY <1>2 DEF FaultCopy
  <2>2. n \in Phys /\ ref[n] = 0 /\ n # None  BY SpaceAssumption DEF FreePages
  <2>3. op'[t].k = "copied" /\ op'[t].new = n /\ \A u \in Tasks \ {t} : op'[u] = op[u]
    BY <1>0, <2>1 DEF Op
  <2>4. ref'[n] = 1 /\ \A q \in Phys \ {n} : ref'[q] = ref[q]  BY <1>0, <2>1, <2>2
  <2>7. ASSUME NEW i \in Claims \ {<<t, 0>>} PROVE Hold(i)' = Hold(i)
    <3>1. CASE \E s \in Spaces, v \in VPages : i = <<s, v>>
      <4>1. PICK s \in Spaces, v \in VPages : i = <<s, v>>  BY <3>1
      <4>2. Stale(s, v)' <=> Stale(s, v)  BY <1>0, <2>3 DEF Stale
      <4> QED  BY <1>0, <4>1, <4>2, HoldParts, HoldPartsNext
    <3>2. CASE \E u \in Tasks : i = <<u, 0>>
      <4>1. PICK u \in Tasks : i = <<u, 0>>  BY <3>2
      <4>2. u # t  BY <4>1
      <4> QED  BY <2>3, <4>1, <4>2, HoldParts, HoldPartsNext
    <3> QED  BY <3>1, <3>2, ClaimParts
  <2>8. \A q \in Phys : ref'[q] + (IF Hold(<<t, 0>>) = q THEN 1 ELSE 0)
                        = ref[q] + (IF Hold(<<t, 0>>)' = q THEN 1 ELSE 0)
    BY SMT, Z3, <1>0, <2>2, <2>4, <2>3, HoldParts, HoldPartsNext, SpaceAssumption
  <2>9. <<t, 0>> \in Claims  BY ClaimParts
  <2>14. SoleInv'  BY SMT, Z3, <1>0, <2>3, <2>9, ClaimParts, <2>2, <2>4, SoleStep
  <2> QED  BY <1>0, <2>7, <2>8, <2>9, RefStep, <2>14
<1> QED  BY <1>1, <1>2

\* The reference of the entry is dropped before the entry is replaced.
LEMMA CountUnref ==
  ASSUME CountInv, OwnInv', NEW t \in Tasks, FaultUnref(t)
  PROVE  RefExact' /\ SoleInv'
<1>0. /\ OwnInv /\ TypeOK /\ RefExact /\ SoleInv /\ TypeOK' /\ op \in [Tasks -> Op] /\ op[t] \in Op
      /\ op[t].k = "copied" /\ pte' = pte /\ lost' = lost /\ ref \in [Phys -> Nat]
      /\ ref' = Unref(ref, op[t].old)
      /\ op' = [op EXCEPT ![t] = [op[t] EXCEPT !.k = "install"]]
  BY DEF CountInv, OwnInv, TypeOK, FaultUnref
<1>1. PICK s \in Spaces, v \in VPages, p \in Phys, n \in Phys :
        /\ s = op[t].s /\ v = op[t].v /\ p = op[t].old /\ n = op[t].new
        /\ s = cr3[t] /\ p = pte[s][v].p /\ ~pte[s][v].w /\ ref[n] = 1
  <2>1. OpHolds(t) /\ ref[op[t].new] = 1  BY <1>0 DEF OwnInv, SoleInv
  <2>2. /\ op[t].s = cr3[t] /\ cr3[t] # None /\ op[t].v \in VPages /\ op[t].old # None /\ op[t].new # None
        /\ pte[op[t].s][op[t].v].p = op[t].old /\ ~pte[op[t].s][op[t].v].w
    BY <1>0, <2>1 DEF OpHolds, Faulting
  <2> QED  BY <2>1, <2>2, <1>0 DEF Op
<1>2. /\ op'[t].k = "install" /\ op'[t].s = s /\ op'[t].v = v /\ op'[t].new = n
      /\ \A u \in Tasks \ {t} : op'[u] = op[u]
  BY <1>0, <1>1 DEF Op
<1>3. <<s, v>> \in Claims /\ <<t, 0>> \in Claims /\ <<s, v>> # <<t, 0>>  BY ClaimParts
<1>4. Hold(<<s, v>>) = p /\ Hold(<<s, v>>)' = None
  <2>2. Stale(s, v)'  BY <1>2 DEF Stale
  <2> QED  BY <1>1, <1>0, StaleIsOwn, <2>2, HoldParts, HoldPartsNext
<1>5. Hold(<<t, 0>>) = n /\ Hold(<<t, 0>>)' = n
  BY <1>0, <1>1, <1>2, HoldParts, HoldPartsNext
<1>6. ASSUME NEW i \in Claims \ {<<s, v>>} PROVE Hold(i)' = Hold(i)
  BY SMT, Z3, <1>0, <1>2, HoldParts, HoldPartsNext, ClaimParts DEF Stale
<1>7. ref[p] >= 1 /\ ref'[p] = ref[p] - 1 /\ \A q \in Phys \ {p} : ref'[q] = ref[q]
  <2>1. ref[p] >= 1  BY <1>0, <1>3, <1>4, Held
  <2>2. ref' = Unref(ref, p)  BY <1>0, <1>1
  <2> QED  BY SMT, Z3, <1>0, <2>1, <2>2, UnrefOne
<1>8. RefExact'
  BY SMT, Z3, <1>0, <1>3, <1>6, SpaceAssumption, <1>4, <1>7, RefStep
<1>9. SoleInv'
  <2>1. \A r \in Spaces, x \in VPages :
            \/ <<r, x>> # <<s, v>> /\ pte'[r][x] = pte[r][x]
            \/ ~(pte'[r][x].k = "page" /\ pte'[r][x].w)
    BY <1>0, <1>1
  <2>2. \A q \in Phys : ref'[q] = ref[q] \/ Hold(<<s, v>>) = q  BY <1>4, <1>7
  <2>3. p # n  BY <1>0, <1>1, <1>3, <1>4, <1>5, Held
  <2>4. ref'[op'[t].new] = 1 /\ op'[t].k # "sole"  BY <1>1, <1>2, <1>7, <2>3
  <2>5. s = cr3[t] /\ \A u \in Tasks \ {t} : op'[u] = op[u]  BY <1>1, <1>2
  <2> QED  BY SMT, Z3, <1>0, <1>3, <2>1, <2>2, <2>4, <2>5, SoleStep
<1> QED  BY <1>8, <1>9


\* The reference moves from the copy to the entry that gets it.
LEMMA CountInstall ==
  ASSUME CountInv, OwnInv', NEW t \in Tasks, FaultInstall(t)
  PROVE  RefExact' /\ SoleInv'
<1>0. /\ OwnInv /\ TypeOK /\ RefExact /\ SoleInv /\ TypeOK' /\ op \in [Tasks -> Op] /\ op[t] \in Op
      /\ op[t].k = "install" /\ ref' = ref /\ lost' = lost /\ ref \in [Phys -> Nat]
      /\ op' = [op EXCEPT ![t] = Idle]
  BY DEF CountInv, OwnInv, TypeOK, FaultInstall
<1>1. PICK s \in Spaces, v \in VPages, n \in Phys :
        s = op[t].s /\ v = op[t].v /\ n = op[t].new /\ s = cr3[t] /\ ref[n] = 1
  <2>1. OpHolds(t) /\ ref[op[t].new] = 1  BY <1>0 DEF OwnInv, SoleInv
  <2> QED  BY <2>1, <1>0 DEF Op, OpHolds, Faulting
<1>2. op'[t] = Idle /\ op'[t].k = "idle" /\ \A u \in Tasks \ {t} : op'[u] = op[u]
  BY <1>0, Operations
<1>3. /\ \A r \in Spaces, x \in VPages : r # s \/ x # v => pte'[r][x] = pte[r][x]
      /\ pte'[s][v].p = n
  <2>2. Leaf(n, TRUE, FALSE) \in Entry /\ Leaf(n, TRUE, FALSE).p = n  BY Entries
  <2> QED  BY <1>0, <2>2, <1>1 DEF TypeOK, FaultInstall
<1>4. <<s, v>> \in Claims /\ <<t, 0>> \in Claims /\ <<s, v>> # <<t, 0>>  BY ClaimParts
<1>5. Hold(<<s, v>>) = None /\ Hold(<<s, v>>)' = n
  <2>1. Stale(s, v)  BY <1>0, <1>1 DEF Stale
  <2>2. ~Stale(s, v)'
    <3>2. \A u \in Tasks : op[u].k = "install" => op[u].s = cr3[u] /\ cr3[u] # None
      BY <1>0 DEF OwnInv, OpHolds, Faulting
    <3>3. \A u \in Tasks : cr3[u] # None /\ cr3[u] = cr3[t] => u = t  BY <1>0 DEF OwnInv, Apart
    <3> QED  BY <1>1, <1>2, <3>2, <3>3 DEF Stale
  <2> QED  BY <1>3, <2>1, <2>2, HoldParts, HoldPartsNext
<1>6. Hold(<<t, 0>>) = n /\ Hold(<<t, 0>>)' = None
  BY <1>0, <1>1, <1>2, HoldParts, HoldPartsNext
<1>7. ASSUME NEW i \in Claims \ {<<s, v>>, <<t, 0>>} PROVE Hold(i)' = Hold(i)
  <2>1. CASE \E r \in Spaces, x \in VPages : i = <<r, x>>
    <3>1. PICK r \in Spaces, x \in VPages : i = <<r, x>>  BY <2>1
    <3>2. r # s \/ x # v  BY <3>1
    <3>3. Stale(r, x)' <=> Stale(r, x)  BY <1>1, <3>2, <1>2 DEF Stale
    <3>4. Hold(<<r, x>>)' = IF Stale(r, x)' THEN None ELSE pte'[r][x].p  BY HoldPartsNext
    <3>5. Hold(<<r, x>>) = IF Stale(r, x) THEN None ELSE pte[r][x].p  BY HoldParts
    <3> QED  BY <1>3, <3>1, <3>3, <3>4, <3>5
  <2>2. CASE \E u \in Tasks : i = <<u, 0>>  BY SMT, Z3, <1>2, <2>2, HoldParts, HoldPartsNext
  <2> QED  BY <2>1, <2>2, ClaimParts
<1>8. RefExact'
  <2> SUFFICES ASSUME NEW p \in Phys
               PROVE  ref'[p] = Cardinality(Holders(p)') + (IF p \in lost' THEN 1 ELSE 0)
    BY DEF RefExact
  <2>0. \A i \in Claims : (i \in Holders(p) <=> Hold(i) = p) /\ (i \in Holders(p)' <=> Hold(i)' = p)
    BY DEF Holders, Hold
  <2>1. Holders(p) \subseteq Claims /\ Holders(p)' \subseteq Claims  BY DEF Holders
  <2>2. CASE p # n
    <3>1. Holders(p)' = Holders(p)  BY <1>5, <1>6, <1>7, <2>0, <2>1, <2>2, SpaceAssumption
    <3> QED  BY <1>0, <3>1 DEF RefExact
  <2>3. CASE p = n
    <3> DEFINE M == Holders(p) \ {<<t, 0>>}
    <3>1. <<t, 0>> \in Holders(p) /\ <<t, 0>> \notin Holders(p)'  BY <1>4, <1>6, <2>0, <2>3, SpaceAssumption
    <3>2. <<s, v>> \in Holders(p)' /\ <<s, v>> \notin Holders(p)  BY <1>4, <1>5, <2>0, <2>3, SpaceAssumption
    <3>3. Holders(p)' \ {<<s, v>>} = M
      BY <1>7, <2>0, <2>1, <3>1, <3>2
    <3>4. IsFiniteSet(Holders(p)) /\ IsFiniteSet(Holders(p)') /\ IsFiniteSet(M)
      BY <2>1, ClaimsFinite, FS_Subset
    <3>5. Cardinality(M) = Cardinality(Holders(p)) - 1  BY <3>1, <3>4, FS_RemoveElement
    <3>6. Cardinality(M) = Cardinality(Holders(p)') - 1  BY SMT, Z3, <3>2, <3>3, <3>4, FS_RemoveElement
    <3>7. Cardinality(Holders(p)) \in Nat /\ Cardinality(Holders(p)') \in Nat  BY <3>4, FS_CardinalityType
    <3>8. Cardinality(Holders(p)') = Cardinality(Holders(p))  BY SMT, Z3, <3>5, <3>6, <3>7
    <3> QED  BY <1>0, <3>8 DEF RefExact
  <2> QED  BY <2>2, <2>3
<1>9. SoleInv'  BY SMT, Z3, <1>0, <1>1, <1>3, <1>2, <1>4, SoleStep
<1> QED  BY <1>8, <1>9

\* Starting and ending a fork, leaving a table, exiting and a plain store
\* touch no reference.
LEMMA CountQuiet ==
  ASSUME CountInv, OwnInv', NEW t \in Tasks,
         \/ \E v \in VPages, x \in Values : Store(t, v, x)
         \/ \E u \in Tasks : CloneStart(t, u)
         \/ CloneDone(t) \/ CloneFails(t) \/ Leave(t) \/ Exit(t) \/ DropDone(t)
  PROVE  RefExact' /\ SoleInv'
<1>0. OwnInv /\ TypeOK /\ op \in [Tasks -> Op] /\ op[t] \in Op  BY DEF CountInv, OwnInv, TypeOK
<1>1. UNCHANGED <<pte, ref, lost>>
  BY DEF Store, CloneStart, CloneDone, CloneFails, Leave, Exit, DropDone
<1>2. op[t].k \in {"idle"} \cup Moving
  BY Operations DEF Store, CloneStart, CloneDone, CloneFails, Leave, Exit, DropDone, CanRun, Moving
<1>3. op' = op \/ \E o \in Op : op' = [op EXCEPT ![t] = o] /\ o.k \in {"idle"} \cup Moving
  <2>1. Idle \in Op /\ Idle.k \in {"idle"} \cup Moving  BY Operations
  <2>2. \A s \in Spaces : Destroying(s) \in Op /\ Destroying(s).k \in {"idle"} \cup Moving
    BY Destroyings DEF Moving
  <2>3. CASE \E v \in VPages, x \in Values : Store(t, v, x)
    BY <2>3 DEF Store
  <2>4. CASE \E u \in Tasks : CloneStart(t, u)
    <3>1. PICK u \in Tasks, s \in Spaces : op' = [op EXCEPT ![t] = [Operation("clone", s, 1) EXCEPT !.child = u]]
      BY <2>4 DEF CloneStart, FreeSpaces
    <3>2. Operation("clone", s, 1) \in Op /\ Operation("clone", s, 1).k = "clone"
      <4>1. "clone" \in Faulting \cup Moving /\ s \in Spaces \cup {None} /\ 1 \in Nat  BY DEF Moving
      <4> QED  BY <4>1, Operations
    <3>3. [Operation("clone", s, 1) EXCEPT !.child = u] \in Op
          /\ [Operation("clone", s, 1) EXCEPT !.child = u].k = "clone"
      BY <3>2 DEF Op
    <3> QED  BY <3>1, <3>3 DEF Moving
  <2>5. CASE CloneDone(t) \/ DropDone(t)
    BY <2>1, <2>5 DEF CloneDone, DropDone
  <2>6. CASE CloneFails(t) \/ Leave(t)
    BY <2>1, <2>2, <2>6, <1>0 DEF CloneFails, Leave, OwnInv, OpHolds, Op, Moving
  <2>7. CASE Exit(t)  BY <1>0, <2>7, <2>2 DEF Exit, CanRun, TypeOK
  <2> QED  BY <2>3, <2>4, <2>5, <2>6, <2>7
<1> QED  BY <1>1, <1>0, <1>2, <1>3, QuietCount DEF Moving


\* Taking a table down drops the references of its entries, one by one.
LEMMA CountDrop ==
  ASSUME CountInv, OwnInv', NEW t \in Tasks, DropPage(t)
  PROVE  RefExact' /\ SoleInv'
<1>0. /\ OwnInv /\ TypeOK /\ op \in [Tasks -> Op] /\ op[t] \in Op /\ lost' = lost
      /\ op[t].k = "destroy" /\ op' = [op EXCEPT ![t].v = @ + 1]
  BY DEF CountInv, OwnInv, TypeOK, DropPage
<1>1. PICK s \in Spaces, v \in VPages : s = op[t].s /\ v = op[t].v
  BY <1>0 DEF OwnInv, OpHolds, Op, Moving, DropPage
<1>2. op'[t].k = "destroy" /\ \A u \in Tasks \ {t} : op'[u] = op[u]  BY <1>0 DEF Op
<1>3. op[t].k \notin {"copied", "install"} /\ op'[t].k \notin Faulting /\ op[t].k \in Moving
  BY <1>0, <1>2 DEF Faulting, Moving
<1>4. /\ pte' = [pte EXCEPT ![s][v] = Absent]
      /\ ref' = IF pte[s][v].k = "page" THEN Unref(ref, pte[s][v].p) ELSE ref
  BY <1>1 DEF DropPage
<1>6. /\ \A p \in Phys : ref'[p] = ref[p] \/ ref[p] = 0 \/ pte[s][v].p = p
      /\ \A p \in Phys : ref'[p] + (IF pte[s][v].p = p THEN 1 ELSE 0)
                         = ref[p] + (IF Absent.p = p THEN 1 ELSE 0)
  BY <1>4, <1>0, <1>1, <1>3, StaleIsOwn, ClearCount
<1>7. Absent \in Entry /\ Absent.k # "page"  BY Entries
<1>8. s = op[t].s /\ lost' = lost /\ \A u \in Tasks \ {t} : op'[u] = op[u]  BY <1>0, <1>1
<1>9. /\ \A r \in Spaces, x \in VPages : r # s \/ x # v => pte'[r][x] = pte[r][x]
      /\ pte'[s][v] = Absent
  BY SMT, Z3, <1>0, <1>4 DEF TypeOK
<1> QED  BY SMT, Z3, <1>3, <1>6, <1>8, <1>9, <1>7, EntryChangeAt

\* A fork shares the frame of a present entry and counts the new one; any
\* other entry holds no frame in either table.
LEMMA CountClonePage ==
  ASSUME CountInv, OwnInv', NEW t \in Tasks, ClonePage(t)
  PROVE  RefExact' /\ SoleInv'
<1>0. /\ OwnInv /\ TypeOK /\ TypeOK' /\ RefExact /\ SoleInv /\ TablesKept
      /\ op \in [Tasks -> Op] /\ op[t] \in Op /\ lost' = lost
      /\ op[t].k = "clone" /\ op[t].v \in VPages /\ op' = [op EXCEPT ![t].v = @ + 1]
      /\ pte \in [Spaces -> [VPages -> Entry]] /\ ref \in [Phys -> Nat]
  BY DEF CountInv, OwnInv, TypeOK, ClonePage
<1>1. PICK q \in Spaces, s \in Spaces, v \in VPages : q = cr3[t] /\ s = op[t].s /\ v = op[t].v /\ q # s
  <2>2. cr3[t] # None /\ op[t].s # None /\ op[t].s # cr3[t]  BY <1>0 DEF OpHolds, Apart, Moving, OwnInv
  <2> QED  BY SMT, Z3, <1>0, <2>2 DEF TypeOK, Op
<1>2. op'[t].k = "clone" /\ \A u \in Tasks \ {t} : op'[u] = op[u]  BY <1>0 DEF Op
<1>3. op[t].k \notin {"copied", "install"} /\ op'[t].k \notin Faulting /\ op[t].k \in Moving
  BY <1>0, <1>2 DEF Faulting, Moving
<1>4. pte[s][v].p = None
  <2>1. v >= op[t].v  BY SMT, Z3, <1>1, SpaceAssumption, FS_CardinalityType
  <2>2. pte[s][v].k = "none"  BY <1>0, <1>1, <2>1 DEF TablesKept
  <2> QED  BY <1>0, <2>2, PageFrame
<1>5. CASE pte[q][v].k # "page"
  <2>1. PICK e \in Entry : e = Carried(pte[q][v]) /\ e.k # "page" /\ e.p = None
    BY SMT, Z3, <1>0, PageFrame, Entries DEF Carried
  <2>2. pte' = [pte EXCEPT ![s][v] = e] /\ ref' = ref  BY <1>1, <1>5, <2>1 DEF ClonePage
  <2>3. /\ \A r \in Spaces, x \in VPages : r # s \/ x # v => pte'[r][x] = pte[r][x]
        /\ pte'[s][v] = e
    BY SMT, Z3, <1>0, <2>2
  <2>4. \A p \in Phys : ref'[p] + (IF pte[s][v].p = p THEN 1 ELSE 0)
                        = ref[p] + (IF pte'[s][v].p = p THEN 1 ELSE 0)
    BY <1>4, <2>1, <2>2, <2>3
  <2>5. s = cr3[t] \/ (op[t].k \in Moving /\ s = op[t].s)  BY <1>1, <1>3
  <2>6. \A p \in Phys : ref'[p] = ref[p] \/ ref[p] = 0 \/ pte[s][v].p = p  BY <2>2
  <2>7. pte'[s][v].k = "page" /\ pte'[s][v].w => ref'[pte'[s][v].p] = 1  BY <2>1, <2>3
  <2>8. lost' = lost /\ (\A u \in Tasks \ {t} : op'[u] = op[u])  BY <1>0, <1>2
  <2>9. op[t].k \notin {"copied", "install"} /\ op'[t].k \notin Faulting  BY <1>3
  <2> QED  BY <2>3, <2>4, <2>5, <2>6, <2>7, <2>8, <2>9, EntryChangeAt
<1>6. CASE pte[q][v].k = "page"
  <2> DEFINE e == Shared(pte[q][v])
             p == pte[q][v].p
  <2>1. e \in Entry /\ e.p = p /\ ~e.w
    <3>1. pte[q][v] \in Entry  BY <1>0
    <3> QED  BY <3>1 DEF Shared, Entry
  <2>2. pte' = [pte EXCEPT ![q][v] = e, ![s][v] = e] /\ ref' = Taken(ref, p)
    BY <1>1, <1>6 DEF ClonePage
  <2>3. p \in Phys /\ ref[p] >= 1 /\ Hold(<<q, v>>) = p
    BY <1>0, <1>1, StaleIsOwn, <1>6, MappedHeld, HoldParts
  <2> HIDE DEF e, p
  <2>4. /\ pte'[q][v] = e /\ pte'[s][v] = e
        /\ \A r \in Spaces, x \in VPages : x # v \/ (r # s /\ r # q) => pte'[r][x] = pte[r][x]
    BY <1>0, <2>2
  <2>5. ref'[p] = ref[p] + 1 /\ \A o \in Phys \ {p} : ref'[o] = ref[o]
    BY <1>0, <2>2, <2>3 DEF Taken
  <2>6. RefExact'
    <3>1. ~Stale(s, v)  BY <1>0, <1>1, <1>3, StaleIsOwn
    <3>3. \A r \in Spaces, x \in VPages : r # s \/ x # v => pte'[r][x].p = pte[r][x].p
      BY <2>1, <2>4 DEF p
    <3>4. \A o \in Phys : ref'[o] + (IF pte[s][v].p = o THEN 1 ELSE 0)
                          = ref[o] + (IF pte'[s][v].p = o THEN 1 ELSE 0)
      BY SMT, Z3, <2>1, <2>4, <1>0, <1>4, SpaceAssumption, <2>5
    <3> QED  BY <1>0, <3>1, <1>2, <3>3, <3>4, EntryCount
  <2>7. SoleInv'
    <3>3. \A o \in Phys : ref'[o] = ref[o] \/ Hold(<<q, v>>) = o  BY <2>3, <2>5
    <3>4. op'[t].k \notin {"sole", "copied", "install"} /\ q = cr3[t] /\ \A u \in Tasks \ {t} : op'[u] = op[u]
      BY <1>1, <1>2
    <3> QED  BY SMT, Z3, ClaimParts, <2>1, <2>4, <3>3, <3>4, <1>0, SoleStep
  <2> QED  BY <2>6, <2>7
<1> QED  BY <1>5, <1>6


\* Loading an image gives each of its pages a frame of its own.
LEMMA LoadedOnce ==
  ASSUME NEW f \in [Image -> Phys], \A a, b \in Image : f[a] = f[b] => a = b,
         NEW s \in Spaces, NEW p \in Phys, NEW H,
         NEW v \in Image, f[v] = p,
         H = {h \in Claims : h[1] = s /\ h[2] \in Image /\ f[h[2]] = p}
  PROVE  Cardinality(H) = 1
<1>3. H = {<<s, v>>}  BY SMT, Z3, SpaceAssumption, ClaimParts
<1> QED  BY <1>3, FS_Singleton

\* exec loads the image into free frames, in a table that held none.
LEMMA CountExec ==
  ASSUME CountInv, OwnInv', NEW t \in Tasks, Exec(t)
  PROVE  RefExact' /\ SoleInv'
<1>0. /\ OwnInv /\ TypeOK /\ TypeOK' /\ RefExact /\ SoleInv /\ TablesKept
      /\ op \in [Tasks -> Op] /\ pte \in [Spaces -> [VPages -> Entry]] /\ ref \in [Phys -> Nat]
      /\ lost' = lost /\ op[t] = Idle /\ cr3[t] \in Spaces
  BY DEF CountInv, OwnInv, TypeOK, Exec, CanRun
<1>1. PICK s \in FreeSpaces, f \in Loads(FreePages) :
       /\ pte' = [pte EXCEPT ![s] = Start(f)]
       /\ ref' = [p \in Phys |-> IF \E v \in Image : f[v] = p THEN 1 ELSE ref[p]]
       /\ op' = [op EXCEPT ![t] = Operation("leave", cr3[t], 0)]
  BY DEF Exec
<1>2. /\ f \in [Image -> Phys] /\ \A v \in Image : ref[f[v]] = 0
      /\ \A a, b \in Image : f[a] = f[b] => a = b
  BY DEF Loads, FreePages
<1>3. s \in Spaces /\ \A u \in Tasks : op[u].s # s  BY DEF FreeSpaces, Busy
<1>4. op[t].k = "idle" /\ op'[t].k = "leave" /\ \A u \in Tasks \ {t} : op'[u] = op[u]
  <2>1. "leave" \in Faulting \cup Moving /\ cr3[t] \in Spaces \cup {None} /\ 0 \in Nat  BY <1>0 DEF Moving
  <2> QED  BY <1>0, <1>1, <2>1, Operations
<1>5. pte'[s] = Start(f) /\ \A r \in Spaces \ {s} : pte'[r] = pte[r]  BY <1>0, <1>1, <1>3
<1>6. \A r \in Spaces, x \in VPages : Stale(r, x)' <=> Stale(r, x)  BY <1>4 DEF Stale
<1>8. \A x \in VPages : Hold(<<s, x>>) = None  BY <1>0, <1>3, PageFrame, HoldParts DEF TablesKept
<1>9. \A x \in VPages : Hold(<<s, x>>)' = IF x \in Image THEN f[x] ELSE None
  BY SMT, Z3, <1>2, <1>5, StartEntries, <1>3, <1>6, HoldPartsNext DEF Stale
<1>10. ASSUME NEW i \in Claims, i[1] # s \/ i[2] \notin VPages PROVE Hold(i)' = Hold(i)
  <2>1. CASE \E r \in Spaces, x \in VPages : i = <<r, x>>
    <3>1. PICK r \in Spaces, x \in VPages : i = <<r, x>>  BY <2>1
    <3>5. Hold(<<r, x>>) = IF Stale(r, x) THEN None ELSE pte[r][x].p  BY HoldParts
    <3> QED  BY <3>1, <1>5, <1>6, <1>10, HoldPartsNext, <3>5
  <2>2. CASE \E u \in Tasks : i = <<u, 0>>  BY <2>2, <1>4, HoldParts, HoldPartsNext
  <2> QED  BY <2>1, <2>2, ClaimParts
<1>11. RefExact'
  <2> SUFFICES ASSUME NEW p \in Phys
               PROVE  ref'[p] = Cardinality(Holders(p)') + (IF p \in lost' THEN 1 ELSE 0)
    BY DEF RefExact
  <2>0. /\ \A i \in Claims : (i \in Holders(p) <=> Hold(i) = p) /\ (i \in Holders(p)' <=> Hold(i)' = p)
        /\ Holders(p) \subseteq Claims /\ Holders(p)' \subseteq Claims
    BY DEF Holders, Hold
  <2>2. ASSUME NEW i \in Claims, i[1] = s, i[2] \in VPages
        PROVE  Hold(i) # p /\ (Hold(i)' = p <=> i[2] \in Image /\ f[i[2]] = p)
    BY SMT, Z3, <2>2, ClaimParts, <1>8, <1>9, SpaceAssumption
  <2>3. CASE \E v \in Image : f[v] = p
    <3>1. PICK v \in Image : f[v] = p  BY <2>3
    <3>2. ref[p] = 0 /\ ref'[p] = 1  BY <1>1, <1>2, <3>1
    <3>3. p \notin lost /\ Holders(p) = {}  BY <1>0, <3>2, Held
    <3>4. Holders(p)' = {h \in Claims : h[1] = s /\ h[2] \in Image /\ f[h[2]] = p}
      BY <2>0, <2>2, <1>10, <3>3, SpaceAssumption
    <3>5. Cardinality(Holders(p)') = 1  BY SMT, Z3, <1>2, <1>3, <3>1, <3>4, LoadedOnce
    <3> QED  BY SMT, Z3, <1>0, <3>2, <3>3, <3>5
  <2>4. CASE ~ \E v \in Image : f[v] = p
    <3>1. Holders(p)' = Holders(p)  BY <2>0, <2>2, <2>4, <1>10
    <3> QED  BY <1>0, <3>1, <1>1, <2>4 DEF RefExact
  <2> QED  BY <2>3, <2>4
<1>12. SoleInv'
  <2>1. <<t, 0>> \in Claims /\ \A r \in Spaces, x \in VPages : <<r, x>> # <<t, 0>>  BY ClaimParts
  <2>2. ASSUME NEW r \in Spaces, NEW x \in VPages
        PROVE  \/ <<r, x>> # <<t, 0>> /\ pte'[r][x] = pte[r][x]
               \/ ~(pte'[r][x].k = "page" /\ pte'[r][x].w)
               \/ ref'[pte'[r][x].p] = 1
    <3>1. CASE r # s  BY <1>5, <2>1, <3>1
    <3>2. CASE r = s /\ x \in Image
      <4>1. pte'[r][x].p = f[x]  BY <1>2, <1>5, <3>2, StartEntries
      <4> QED  BY <1>1, <1>2, <3>2, <4>1
    <3>3. CASE r = s /\ x \notin Image  BY SMT, Z3, <1>2, <1>5, <3>3, StartEntries DEF PageIffFrame
    <3> QED  BY <3>1, <3>2, <3>3
  <2>3. \A p \in Phys : ref'[p] = ref[p] \/ ref[p] = 0  BY <1>1, <1>2
  <2> QED  BY SMT, Z3, <2>1, <2>2, <2>3, <1>4, <1>0, SoleStep
<1> QED  BY <1>11, <1>12


\* The image of the first program is counted.
LEMMA CountInit == Init => CountInv
<1> SUFFICES ASSUME Init PROVE CountInv
  OBVIOUS
<1>0. OwnInv /\ TypeOK  BY OwnInit DEF OwnInv
<1>1. PICK s \in Spaces, f \in Loads(Phys) :
        /\ pte = [x \in Spaces |-> IF x = s THEN Start(f) ELSE Empty]
        /\ ref = [p \in Phys |-> IF \E v \in Image : f[v] = p THEN 1 ELSE 0]
  BY DEF Init
<1>2. f \in [Image -> Phys] /\ \A a, b \in Image : f[a] = f[b] => a = b  BY DEF Loads
<1>3. \A u \in Tasks : op[u].k = "idle"  BY SMT, Z3, Operations DEF Init
<1>4. \A r \in Spaces, x \in VPages : pte[r][x].p = IF r = s /\ x \in Image THEN f[x] ELSE None
  BY SMT, Z3, <1>1, <1>2, StartEntries, Entries DEF Empty
<1>5. /\ \A r \in Spaces, x \in VPages : Hold(<<r, x>>) = IF r = s /\ x \in Image THEN f[x] ELSE None
      /\ \A u \in Tasks : Hold(<<u, 0>>) = None
  BY SMT, Z3, <1>3, <1>4, HoldParts DEF Stale
<1>6. RefExact
  <2> SUFFICES ASSUME NEW p \in Phys
               PROVE  ref[p] = Cardinality(Holders(p)) + (IF p \in lost THEN 1 ELSE 0)
    BY DEF RefExact
  <2>1. None # p /\ p \notin lost  BY SMT, Z3, SpaceAssumption DEF Init
  <2>2. Holders(p) = {h \in Claims : h[1] = s /\ h[2] \in Image /\ f[h[2]] = p}
    BY SMT, Z3, <1>5, ClaimParts, SpaceAssumption DEF Holders, Hold
  <2>3. CASE \E v \in Image : f[v] = p  BY SMT, Z3, <2>3, <1>2, <2>2, LoadedOnce, <1>1, <2>1
  <2>4. CASE ~ \E v \in Image : f[v] = p
    <3>1. Holders(p) = {}  BY <2>2, <2>4
    <3> QED  BY SMT, Z3, <1>1, <2>1, <2>4, <3>1, FS_EmptySet
  <2> QED  BY <2>3, <2>4
<1>7. SoleInv
  <2>1. ASSUME NEW r \in Spaces, NEW x \in VPages, pte[r][x].k = "page" PROVE ref[pte[r][x].p] = 1
    BY <1>1, <1>0, <2>1, PageFrame, <1>4, SpaceAssumption
  <2> QED  BY <1>3, <2>1 DEF SoleInv
<1> QED  BY <1>0, <1>6, <1>7 DEF CountInv

\* Every operation keeps the counts exact.
LEMMA CountNext == Private /\ CountInv /\ [Next]_vars => CountInv'
<1> SUFFICES ASSUME Private, CountInv, [Next]_vars PROVE CountInv'
  OBVIOUS
<1>0. OwnInv /\ OwnInv' /\ RefExact /\ SoleInv  BY OwnNext DEF CountInv
<1>1. CASE UNCHANGED vars
  <2>1. (\A i \in Claims : Hold(i)' = Hold(i)) /\ ref' = ref /\ lost' = lost
    BY <1>1 DEF vars, Hold, Holds, Stale
  <2> QED  BY <1>0, <2>1, <1>1 DEF CountInv, RefExact, Holders, Hold, vars, SoleInv
<1>2. ASSUME NEW t \in Tasks, NEW v \in VPages, NEW prot \in {"ro", "rw"}, PkeyMprotect(t, v, prot) PROVE FALSE
  BY <1>2 DEF PkeyMprotect, Private
<1>3. ASSUME NEW t \in Tasks, NEW u \in Tasks, CloneShared(t, u) PROVE FALSE
  BY <1>3 DEF CloneShared, Private
<1>4. CASE Next
  <2>1. RefExact' /\ SoleInv'
    BY <1>0, <1>2, <1>3, <1>4, CountAreas, CountStray, CountFault, CountCopy, CountUnref, CountInstall,
       CountQuiet, CountDrop, CountClonePage, CountExec DEF Next
  <2> QED  BY <1>0, <2>1 DEF CountInv
<1> QED  BY <1>1, <1>4

\* What the counts give.
LEMMA CountGives == CountInv => FramesExact
<1> SUFFICES ASSUME CountInv PROVE FramesExact
  OBVIOUS
<1>0. OwnInv /\ TypeOK /\ RefExact /\ SoleInv  BY DEF CountInv, OwnInv
<1>2. NoMappedFree  BY SMT, Z3, <1>0, MappedHeld DEF NoMappedFree, InUse, TypeOK
<1>3. WritableIsSole
  <2> SUFFICES ASSUME NEW s \in Spaces, NEW r \in Spaces, NEW v \in VPages, NEW x \in VPages,
                      pte[s][v].k = "page", pte[s][v].w, pte[r][x].p = pte[s][v].p, ~Stale(r, x)
               PROVE  s = r /\ v = x
    BY DEF WritableIsSole
  <2>1. pte[s][v].p \in Phys /\ ref[pte[s][v].p] = 1 /\ ~Stale(s, v)
    BY <1>0, PageFrame, StaleIsOwn DEF SoleInv
  <2>2. Hold(<<s, v>>) = pte[s][v].p /\ Hold(<<r, x>>) = pte[s][v].p  BY <2>1, HoldParts
  <2> QED  BY <1>0, <2>1, <2>2, ClaimParts, Held
<1> QED  BY <1>0, <1>2, <1>3 DEF FramesExact, UsedTableKept, OwnInv, Apart, Moving, InUse

(* However many tasks, page tables, pages and frames there are: while      *)
(* programs fork, map, unmap, write, exec and exit on all CPUs at once,    *)
(* every frame is counted exactly, no entry in use maps a free frame, no   *)
(* table in use is taken down, and what can be written is not shared       *)
(* (clone_user_table, handle_fault, unref_page, free_task_resources).      *)
THEOREM FramesAreExact == ASSUME Private PROVE Spec => []FramesExact
<1>1. Init => CountInv  BY CountInit
<1>2. CountInv /\ [Next]_vars => CountInv'  BY CountNext
<1>3. CountInv => FramesExact  BY CountGives
<1> QED  BY <1>1, <1>2, <1>3, PTL DEF Spec

----------------------------------------------------------------------------
(* What a task sees.                                                       *)

\* A step of t writes to free frames, and to a frame that only t maps.
FramesLeft(t) ==
  \A q \in Phys : \/ mem'[q] = mem[q]
                  \/ ref[q] = 0
                  \/ /\ ref[q] = 1 /\ cr3[t] \in Spaces
                     /\ \E v \in VPages : pte[cr3[t]][v].k = "page" /\ pte[cr3[t]][v].w /\ pte[cr3[t]][v].p = q

\* A frame that is held elsewhere, or where it cannot be written, keeps its
\* contents.
LEMMA HeldKept ==
  ASSUME CountInv, NEW t \in Tasks, FramesLeft(t), NEW p \in Phys
  PROVE  /\ \A u \in Tasks : Hold(<<u, 0>>) = p => mem'[p] = mem[p]
         /\ \A r \in Spaces, x \in VPages :
              Hold(<<r, x>>) = p /\ (r # cr3[t] \/ ~pte[r][x].w) => mem'[p] = mem[p]
<1>0. OwnInv /\ TypeOK /\ RefExact  BY DEF CountInv, OwnInv
<1>1. ASSUME NEW i \in Claims, Hold(i) = p,
             \A v \in VPages : cr3[t] \in Spaces /\ pte[cr3[t]][v].w => i # <<cr3[t], v>>
      PROVE  mem'[p] = mem[p]
  <2>3. CASE /\ ref[p] = 1 /\ cr3[t] \in Spaces
             /\ \E v \in VPages : pte[cr3[t]][v].k = "page" /\ pte[cr3[t]][v].w /\ pte[cr3[t]][v].p = p
    <3>1. PICK v \in VPages : pte[cr3[t]][v].k = "page" /\ pte[cr3[t]][v].w /\ pte[cr3[t]][v].p = p
      BY <2>3
    <3>3. Hold(<<cr3[t], v>>) = p /\ <<cr3[t], v>> \in Claims
      BY <2>3, <3>1, <1>0, StaleIsOwn, HoldParts, ClaimParts
    <3> QED  BY <1>1, <2>3, <3>1, <1>0, <3>3, Held
  <2> QED  BY SMT, Z3, <1>0, <1>1, Held, <2>3 DEF FramesLeft, TypeOK
<1>2. ASSUME NEW u \in Tasks, Hold(<<u, 0>>) = p PROVE mem'[p] = mem[p]
  BY <1>1, <1>2, ClaimParts
<1>3. ASSUME NEW r \in Spaces, NEW x \in VPages, Hold(<<r, x>>) = p, r # cr3[t] \/ ~pte[r][x].w
      PROVE  mem'[p] = mem[p]
  BY ClaimParts, <1>3, <1>1
<1> QED  BY <1>2, <1>3

\* What a task sees at a page, by cases.
LEMMA SeenParts ==
  ASSUME CountInv, NEW u \in Tasks, NEW x \in VPages
  PROVE  /\ cr3[u] = None => Seen(u, x) = Unmapped
         /\ cr3[u] # None /\ op[u].k = "install" /\ op[u].v = x =>
              Seen(u, x) = mem[op[u].new] /\ op[u].new \in Phys /\ Hold(<<u, 0>>) = op[u].new
         /\ cr3[u] # None /\ ~(op[u].k = "install" /\ op[u].v = x) =>
              /\ pte[cr3[u]][x].k = "page" =>
                   /\ Seen(u, x) = mem[pte[cr3[u]][x].p]
                   /\ pte[cr3[u]][x].p \in Phys /\ Hold(<<cr3[u], x>>) = pte[cr3[u]][x].p
              /\ pte[cr3[u]][x].k # "page" =>
                   Seen(u, x) = IF ReadsZero(pte[cr3[u]][x], x) THEN Zero ELSE Unmapped
<1>0. OwnInv /\ TypeOK /\ op[u] \in Op  BY DEF CountInv, OwnInv, TypeOK
<1>2. ASSUME cr3[u] # None, op[u].k = "install", op[u].v = x
      PROVE  Seen(u, x) = mem[op[u].new] /\ op[u].new \in Phys /\ Hold(<<u, 0>>) = op[u].new
  BY <1>0, <1>2, HoldParts DEF OwnInv, OpHolds, Op, Seen
<1>3. ASSUME cr3[u] # None, ~(op[u].k = "install" /\ op[u].v = x), pte[cr3[u]][x].k = "page"
      PROVE  /\ Seen(u, x) = mem[pte[cr3[u]][x].p]
             /\ pte[cr3[u]][x].p \in Phys /\ Hold(<<cr3[u], x>>) = pte[cr3[u]][x].p
  BY <1>0, <1>3, StaleIsOwn, HoldParts, PageFrame DEF Seen, TypeOK
<1>4. ASSUME cr3[u] # None, ~(op[u].k = "install" /\ op[u].v = x), pte[cr3[u]][x].k # "page"
      PROVE  Seen(u, x) = IF ReadsZero(pte[cr3[u]][x], x) THEN Zero ELSE Unmapped
  BY <1>4 DEF Seen, ReadsZero
<1> QED  BY <1>2, <1>3, <1>4 DEF Seen

\* A step of t changes nothing for another task whose table and operation it
\* leaves alone.
LEMMA SeenElsewhere ==
  ASSUME CountInv, NEW t \in Tasks, FramesLeft(t), NEW u \in Tasks \ {t}, NEW x \in VPages,
         op'[u] = op[u], cr3'[u] = cr3[u], cr3[u] # None => pte'[cr3[u]] = pte[cr3[u]]
  PROVE  Seen(u, x)' = Seen(u, x)
<1>1. CASE cr3[u] = None  BY <1>1 DEF Seen, Unmapped
<1>2. CASE cr3[u] # None /\ op[u].k = "install" /\ op[u].v = x
  <2>1. Seen(u, x) = mem[op[u].new] /\ op[u].new \in Phys /\ Hold(<<u, 0>>) = op[u].new
    BY <1>2, SeenParts
  <2> QED  BY <2>1, HeldKept, <1>2 DEF Seen
<1>3. CASE cr3[u] # None /\ ~(op[u].k = "install" /\ op[u].v = x) /\ pte[cr3[u]][x].k = "page"
  <2>0. cr3[u] \in Spaces /\ cr3[u] # cr3[t]
    BY <1>3 DEF CountInv, OwnInv, Apart, TypeOK
  <2>1. /\ Seen(u, x) = mem[pte[cr3[u]][x].p] /\ pte[cr3[u]][x].p \in Phys
        /\ Hold(<<cr3[u], x>>) = pte[cr3[u]][x].p
    BY <1>3, SeenParts
  <2> QED  BY <2>1, <2>0, HeldKept, <1>3 DEF Seen
<1>4. CASE cr3[u] # None /\ ~(op[u].k = "install" /\ op[u].v = x) /\ pte[cr3[u]][x].k # "page"
  <2>2. Seen(u, x)' = IF ReadsZero(pte[cr3[u]][x], x) THEN Zero ELSE Unmapped
    BY <1>4 DEF Seen, ReadsZero, Unmapped
  <2> QED  BY <1>4, SeenParts, <2>2 DEF Unmapped
<1> QED  BY <1>1, <1>2, <1>3, <1>4


\* A page that the task itself sees as before: its entry maps the same frame,
\* or reads the same without one.
LEMMA SeenHere ==
  ASSUME CountInv, NEW u \in Tasks, NEW x \in VPages, cr3'[u] = cr3[u],
         \A q \in Phys : mem'[q] = mem[q] \/ ref[q] = 0,
         op[u].k # "install", op'[u].k # "install",
         cr3[u] # None => Alike(pte'[cr3[u]][x], pte[cr3[u]][x], x)
  PROVE  Seen(u, x)' = Seen(u, x)
<1>1. CASE cr3[u] = None  BY <1>1 DEF Seen, Unmapped
<1>2. CASE cr3[u] # None /\ pte[cr3[u]][x].k = "page"
  <2>1. /\ Seen(u, x) = mem[pte[cr3[u]][x].p] /\ pte[cr3[u]][x].p \in Phys
        /\ Hold(<<cr3[u], x>>) = pte[cr3[u]][x].p
    BY <1>2, SeenParts
  <2>2. ref[pte[cr3[u]][x].p] # 0
    <3>1. OwnInv /\ TypeOK /\ RefExact /\ cr3[u] \in Spaces  BY <1>2 DEF CountInv, OwnInv, TypeOK
    <3>2. ref[pte[cr3[u]][x].p] >= 1  BY <2>1, <3>1, Held, ClaimParts
    <3> QED  BY SMT, Z3, <3>2
  <2> QED  BY <1>2, <2>1, <2>2 DEF Seen, Alike
<1>3. CASE cr3[u] # None /\ pte[cr3[u]][x].k # "page"  BY <1>3 DEF Alike, Seen, ReadsZero, Unmapped
<1> QED  BY <1>1, <1>2, <1>3

\* An entry is like itself.
LEMMA AlikeSelf == \A e, v : Alike(e, e, v)
BY DEF Alike

\* A step of t in tables that are its own, or nobody's: the other tasks' copies
\* and forks are as good as before, and they see what they saw.
LEMMA OthersKept ==
  ASSUME CountInv, MemInv, NEW t \in Tasks, FramesLeft(t), NEW Z \in SUBSET Spaces,
         \A u \in Tasks \ {t} : op'[u] = op[u] /\ cr3'[u] = cr3[u] /\ cr3[u] \notin Z,
         \A u \in Tasks \ {t} : op[u].k \in Moving => op[u].s \notin Z,
         \A r \in Spaces \ Z : pte'[r] = pte[r],
         CopyKept(t)', CloneKept(t)', ImageKept(t)',
         \A r \in Z, x \in VPages : pte'[r][x].k \in {"guard", "stray"} => x \in Guard
  PROVE  /\ MemInv'
         /\ \A u \in Tasks \ {t}, x \in VPages : Seen(u, x)' = Seen(u, x)
<1>0. OwnInv /\ TypeOK /\ GuardKept  BY DEF CountInv, OwnInv, MemInv
<1>1. ASSUME NEW u \in Tasks \ {t}
      PROVE  /\ cr3[u] # None => cr3[u] \in Spaces /\ pte'[cr3[u]] = pte[cr3[u]]
             /\ op[u].k \in Moving => op[u].s \in Spaces /\ pte'[op[u].s] = pte[op[u].s]
  <2>1. u \in Tasks /\ op[u].s \in Spaces \cup {None} /\ cr3[u] \in Spaces \cup {None}  BY <1>0, OpFields DEF TypeOK
  <2>2. op[u].k \in Moving => op[u].s # None  BY <1>0, <2>1 DEF OwnInv, OpHolds
  <2> QED  BY <2>1, <2>2
<1>2. ASSUME NEW u \in Tasks \ {t} PROVE CopyKept(u)'
  <2> SUFFICES ASSUME op[u].k = "copied" PROVE mem'[op[u].new] = mem'[op[u].old]
    BY DEF CopyKept
  <2>1. op[u] \in Op /\ OpHolds(u) /\ mem[op[u].new] = mem[op[u].old]
    BY <1>0 DEF TypeOK, OwnInv, MemInv, CopyKept
  <2>2. /\ op[u].new \in Phys /\ op[u].old \in Phys /\ op[u].v \in VPages /\ cr3[u] # None
        /\ pte[cr3[u]][op[u].v].p = op[u].old /\ cr3[u] # cr3[t]
    BY <1>0, <2>1, OpFields DEF OpHolds, Faulting, OwnInv, Apart
  <2>4. Hold(<<cr3[u], op[u].v>>) = op[u].old
    BY <1>1, <2>2, <1>0, StaleIsOwn, HoldParts
  <2>6. mem'[op[u].old] = mem[op[u].old]  BY <1>1, <2>2, <2>4, HeldKept
  <2> QED  BY <2>1, <2>2, HoldParts, HeldKept, <2>6
<1>3. ASSUME NEW u \in Tasks \ {t} PROVE CloneKept(u)'
  <2>1. op'[u] = op[u] /\ cr3'[u] = cr3[u] /\ u \in Tasks  OBVIOUS
  <2>2. ASSUME op[u].k = "clone" PROVE pte'[op[u].s] = pte[op[u].s] /\ pte'[cr3[u]] = pte[cr3[u]]
    BY <1>0, <1>1, <2>1, <2>2 DEF OwnInv, OpHolds, Moving
  <2>3. CloneKept(u)  BY <2>1 DEF MemInv
  <2>4. ASSUME op'[u].k = "clone", NEW v \in VPages, v < op'[u].v
        PROVE  Alike(pte'[op'[u].s][v], pte'[cr3'[u]][v], v)
    <3>1. Alike(pte[op[u].s][v], pte[cr3[u]][v], v)  BY <2>1, <2>3, <2>4 DEF CloneKept
    <3> QED  BY <2>1, <2>2, <2>4, <3>1
  <2> QED  BY <2>4 DEF CloneKept, Alike
<1>4. ASSUME NEW u \in Tasks \ {t} PROVE ImageKept(u)'
  <2>1. u \in Tasks /\ cr3'[u] = cr3[u] /\ ImageKept(u)  BY DEF MemInv
  <2> SUFFICES ASSUME cr3[u] # None, NEW v \in Image PROVE pte'[cr3[u]][v].k = "page"
    BY <2>1 DEF ImageKept
  <2>2. pte'[cr3[u]] = pte[cr3[u]]  BY <1>1
  <2> QED  BY <2>1, <2>2 DEF ImageKept
<1> QED  BY <1>1, SeenElsewhere, <1>2, <1>3, <1>4 DEF MemInv, GuardKept


\* The views of all tasks, page by page.
LEMMA Views ==
  /\ (\A u \in Tasks, x \in VPages : Seen(u, x)' = Seen(u, x)) => View' = View
  /\ \A t \in Tasks, v \in VPages : View[t][v] = Seen(t, v)
  /\ \A t \in Tasks : View[t] = [x \in VPages |-> Seen(t, x)]
BY DEF View

\* One page of one task has changed.
LEMMA ViewPage ==
  ASSUME NEW t \in Tasks, NEW v \in VPages, NEW y, Seen(t, v)' = y,
         \A u \in Tasks \ {t}, x \in VPages : Seen(u, x)' = Seen(u, x),
         \A x \in VPages \ {v} : Seen(t, x)' = Seen(t, x)
  PROVE  View' = [View EXCEPT ![t][v] = y]
BY DEF View

\* The memory of one task has changed.
LEMMA ViewTask ==
  ASSUME NEW t \in Tasks, NEW img, img = [x \in VPages |-> Seen(t, x)'],
         \A u \in Tasks \ {t}, x \in VPages : Seen(u, x)' = Seen(u, x)
  PROVE  View' = [View EXCEPT ![t] = img]
BY DEF View

\* A step of a task in the table that it runs on.
LEMMA HereKept ==
  ASSUME CountInv, MemInv, NEW t \in Tasks, FramesLeft(t), cr3[t] # None, cr3' = cr3,
         \A u \in Tasks \ {t} : op'[u] = op[u],
         \A r \in Spaces \ {cr3[t]} : pte'[r] = pte[r],
         CopyKept(t)', op'[t].k # "clone",
         \A x \in VPages :
           /\ pte'[cr3[t]][x].k \in {"guard", "stray"} => pte[cr3[t]][x].k \in {"guard", "stray"}
           /\ pte[cr3[t]][x].k = "page" /\ x \in Image => pte'[cr3[t]][x].k = "page"
  PROVE  /\ MemInv'
         /\ \A u \in Tasks \ {t}, x \in VPages : Seen(u, x)' = Seen(u, x)
<1>0. OwnInv /\ TypeOK /\ GuardKept /\ ImageKept(t) /\ cr3[t] \in Spaces
  <2>1. OwnInv /\ GuardKept /\ ImageKept(t)  BY DEF CountInv, MemInv
  <2>2. TypeOK /\ cr3[t] \in Spaces \cup {None}  BY <2>1 DEF OwnInv, TypeOK
  <2> QED  BY <2>1, <2>2
<1> DEFINE Z == {cr3[t]}
<1>1. Z \in SUBSET Spaces  BY <1>0
<1>2. \A u \in Tasks \ {t} : op'[u] = op[u] /\ cr3'[u] = cr3[u] /\ cr3[u] \notin Z
  BY <1>0 DEF OwnInv, Apart
<1>3. \A u \in Tasks \ {t} : op[u].k \in Moving => op[u].s \notin Z
  BY <1>0 DEF OwnInv, Apart
<1>5. ImageKept(t)'  BY <1>0, SpaceAssumption DEF ImageKept
<1>6. \A r \in Z, x \in VPages : pte'[r][x].k \in {"guard", "stray"} => x \in Guard
  BY <1>0 DEF GuardKept
<1>7. \A r \in Spaces \ Z : pte'[r] = pte[r]  OBVIOUS
<1> HIDE DEF Z
<1> QED  BY <1>1, <1>2, <1>3, <1>5, <1>6, <1>7, OthersKept DEF CloneKept

\* A store is seen by the task that makes it.
LEMMA SeesStore ==
  ASSUME CountInv, MemInv, NEW t \in Tasks, NEW v \in VPages, NEW y \in Values, Store(t, v, y)
  PROVE  MemInv' /\ P!Store(t, v, y)
<1>0. /\ OwnInv /\ TypeOK /\ RefExact /\ SoleInv /\ cr3[t] # None /\ cr3[t] \in Spaces /\ op[t].k = "idle"
      /\ UNCHANGED <<cr3, pte, op>>
  BY SMT, Z3, Operations DEF CountInv, OwnInv, TypeOK, Store, CanRun
<1>1. PICK p \in Phys : /\ pte[cr3[t]][v].k = "page" /\ pte[cr3[t]][v].w /\ pte[cr3[t]][v].p = p
                        /\ mem' = [mem EXCEPT ![p] = y]
  BY <1>0, PageFrame DEF Store
<1>2. mem'[p] = y /\ \A q \in Phys \ {p} : mem'[q] = mem[q]  BY <1>0, <1>1 DEF TypeOK
<1>3. ref[p] = 1  BY <1>0, <1>1 DEF SoleInv
<1>5. MemInv' /\ \A u \in Tasks \ {t}, x \in VPages : Seen(u, x)' = Seen(u, x)
  BY <1>0, <1>1, <1>2, <1>3, HereKept DEF CopyKept, FramesLeft
<1>6. ASSUME NEW x \in VPages \ {v} PROVE Seen(t, x)' = Seen(t, x)
  <2>1. CASE pte[cr3[t]][x].k = "page"
    <3>1. /\ Seen(t, x) = mem[pte[cr3[t]][x].p] /\ pte[cr3[t]][x].p \in Phys
          /\ Hold(<<cr3[t], x>>) = pte[cr3[t]][x].p
      BY <1>0, <2>1, SeenParts
    <3>2. Hold(<<cr3[t], v>>) = p  BY <1>0, <1>1, SeenParts
    <3>3. pte[cr3[t]][x].p # p  BY <1>0, ClaimParts, <1>3, <3>1, <3>2, Held
    <3> QED  BY <1>2, <3>1, <3>3, <1>0 DEF Seen
  <2>2. CASE pte[cr3[t]][x].k # "page"
    BY <1>0, <2>2 DEF Seen, Unmapped
  <2> QED  BY <2>1, <2>2
<1>7. Seen(t, v)' = y  BY <1>0, <1>1, <1>2 DEF Seen
<1>8. View[t][v] # Unmapped
  <2>1. Seen(t, v) = mem[p]  BY <1>0, <1>1, SeenParts
  <2>2. mem[p] \in Values  BY <1>0 DEF TypeOK
  <2> QED  BY <2>1, <2>2, Views, SpaceAssumption DEF Unmapped
<1>9. View' = [View EXCEPT ![t][v] = y]  BY SMT, Z3, <1>5, <1>6, <1>7, ViewPage
<1> QED  BY <1>5, <1>8, <1>9 DEF P!Store


\* Between two operations the task's entry of one page changes: only that page
\* may look different, and only to the task.
LEMMA PageStep ==
  ASSUME CountInv, MemInv, NEW t \in Tasks, NEW v \in VPages, CanRun(t), UNCHANGED <<cr3, op>>,
         \A q \in Phys : mem'[q] = mem[q] \/ ref[q] = 0,
         \A r \in Spaces, x \in VPages : r # cr3[t] \/ x # v => pte'[r][x] = pte[r][x],
         pte' \in [Spaces -> [VPages -> Entry]],
         pte'[cr3[t]][v].k \in {"guard", "stray"} => pte[cr3[t]][v].k \in {"guard", "stray"},
         pte[cr3[t]][v].k = "page" /\ v \in Image => pte'[cr3[t]][v].k = "page"
  PROVE  /\ MemInv'
         /\ \A u \in Tasks \ {t}, x \in VPages : Seen(u, x)' = Seen(u, x)
         /\ \A x \in VPages \ {v} : Seen(t, x)' = Seen(t, x)
         /\ Alike(pte'[cr3[t]][v], pte[cr3[t]][v], v) => Seen(t, v)' = Seen(t, v)
<1>0. /\ OwnInv /\ TypeOK /\ cr3[t] # None /\ cr3[t] \in Spaces /\ op[t].k = "idle" /\ op'[t].k = "idle"
      /\ pte \in [Spaces -> [VPages -> Entry]]
  <2>1. OwnInv /\ TypeOK  BY DEF CountInv, OwnInv
  <2>2. cr3[t] # None /\ op[t].k = "idle"  BY Operations DEF CanRun
  <2>3. cr3[t] \in Spaces \cup {None} /\ pte \in [Spaces -> [VPages -> Entry]]  BY <2>1 DEF TypeOK
  <2> QED  BY <2>1, <2>2, <2>3
<1>3. \A x \in VPages :
           /\ pte'[cr3[t]][x].k \in {"guard", "stray"} => pte[cr3[t]][x].k \in {"guard", "stray"}
           /\ pte[cr3[t]][x].k = "page" /\ x \in Image => pte'[cr3[t]][x].k = "page"
  BY <1>0
<1>5. ASSUME NEW x \in VPages, Alike(pte'[cr3[t]][x], pte[cr3[t]][x], x) PROVE Seen(t, x)' = Seen(t, x)
  BY <1>0, <1>5, SeenHere
<1>6. FramesLeft(t) /\ CopyKept(t)' /\ op'[t].k # "clone"  BY <1>0 DEF FramesLeft, CopyKept
<1>7. ASSUME NEW r \in Spaces \ {cr3[t]} PROVE pte'[r] = pte[r]
  <2>1. pte[r] \in [VPages -> Entry] /\ pte'[r] \in [VPages -> Entry]  BY <1>0
  <2>2. \A x \in VPages : pte'[r][x] = pte[r][x]  OBVIOUS
  <2> QED  BY SMT, Z3, <2>1, <2>2
<1>8. MemInv' /\ \A u \in Tasks \ {t}, x \in VPages : Seen(u, x)' = Seen(u, x)
  BY <1>0, <1>3, <1>6, <1>7, HereKept
<1> QED  BY <1>0, <1>5, <1>8, AlikeSelf

\* mmap and munmap change what is mapped; the first access to a page and a
\* write that loses a frame show the task nothing new.
LEMMA SeesAreas ==
  ASSUME CountInv, CountInv', MemInv, NEW t \in Tasks, NEW v \in VPages,
         (\E prot \in {"ro", "rw"} : Mmap(t, v, prot)) \/ Munmap(t, v) \/ Touch(t, v) \/ StrayFault(t, v)
  PROVE  MemInv' /\ (P!Map(t, v) \/ P!Unmap(t, v) \/ View' = View)
<1>0. /\ OwnInv /\ TypeOK /\ TablesKept /\ cr3[t] # None /\ cr3[t] \in Spaces /\ op[t] = Idle
      /\ op[t].k = "idle" /\ op'[t].k = "idle" /\ CanRun(t) /\ UNCHANGED <<cr3, op>>
      /\ pte \in [Spaces -> [VPages -> Entry]] /\ pte' \in [Spaces -> [VPages -> Entry]]
  <2>1. CanRun(t) /\ UNCHANGED <<cr3, op>>  BY DEF Mmap, Munmap, Touch, StrayFault
  <2>3. cr3[t] # None /\ op[t] = Idle /\ op[t].k = "idle"  BY <2>1, Operations DEF CanRun
  <2> QED  BY <2>1, <2>3 DEF TypeOK, CountInv, OwnInv
<1>1. ASSUME NEW e, pte' = [pte EXCEPT ![cr3[t]][v] = e]
      PROVE  /\ pte'[cr3[t]][v] = e
             /\ \A r \in Spaces, x \in VPages : r # cr3[t] \/ x # v => pte'[r][x] = pte[r][x]
  BY <1>0, <1>1
<1>2. CASE \E prot \in {"ro", "rw"} : Mmap(t, v, prot)
  <2>1. PICK prot \in {"ro", "rw"} : Mmap(t, v, prot)  BY <1>2
  <2> DEFINE e == Soft("zero", prot = "rw")
  <2>2. vma[t][v] = "none" /\ pte' = [pte EXCEPT ![cr3[t]][v] = e] /\ mem' = mem  BY <2>1 DEF Mmap
  <2>3. e.k = "zero" /\ e.p = None
    BY DEF Soft
  <2> HIDE DEF e
  <2>4. pte[cr3[t]][v].k = "none" /\ pte[cr3[t]][v].p = None  BY <1>0, <2>2, PageFrame DEF TablesKept
  <2>5. pte'[cr3[t]][v] = e /\ \A r \in Spaces, x \in VPages : r # cr3[t] \/ x # v => pte'[r][x] = pte[r][x]
    BY <1>1, <2>2
  <2>7. /\ MemInv'
        /\ \A u \in Tasks \ {t}, x \in VPages : Seen(u, x)' = Seen(u, x)
        /\ \A x \in VPages \ {v} : Seen(t, x)' = Seen(t, x)
    BY <1>0, <2>3, <2>4, <2>2, PageStep
  <2>8. Seen(t, v)' = Zero  BY <1>0, <2>3, <2>5 DEF Seen
  <2>9. View' = [View EXCEPT ![t][v] = Zero]  BY SMT, Z3, <2>7, <2>8, ViewPage
  <2>10. CASE v \in Stack
    <3>1. Seen(t, v) = Zero  BY <1>0, <2>4, <2>10 DEF Seen
    <3> QED  BY <2>7, <2>8, <3>1, Views
  <2>11. CASE v \notin Stack
    <3>1. Seen(t, v) = Unmapped  BY <1>0, <2>4, <2>11 DEF Seen
    <3> QED  BY <2>7, <2>9, <3>1, Views DEF P!Map
  <2> QED  BY <2>10, <2>11
<1>3. CASE Munmap(t, v)
  <2>1. pte' = [pte EXCEPT ![cr3[t]][v] = Absent] /\ mem' = mem /\ v \notin Image \cup Stack
    BY <1>3 DEF Munmap, Cleared
  <2>2. pte'[cr3[t]][v] = Absent /\ \A r \in Spaces, x \in VPages : r # cr3[t] \/ x # v => pte'[r][x] = pte[r][x]
    BY <1>1, <2>1
  <2>3. pte'[cr3[t]][v].k = "none"  BY <2>2, Entries
  <2>5. /\ MemInv'
        /\ \A u \in Tasks \ {t}, x \in VPages : Seen(u, x)' = Seen(u, x)
        /\ \A x \in VPages \ {v} : Seen(t, x)' = Seen(t, x)
    BY <1>0, <2>1, <2>2, <2>3, PageStep
  <2>7. View' = [View EXCEPT ![t][v] = Unmapped]  BY <2>5, <1>0, <2>1, <2>3, ViewPage DEF Seen, Unmapped
  <2> QED  BY <2>5, <2>7 DEF P!Unmap
<1>4. CASE Touch(t, v)
  <2> DEFINE e0 == pte[cr3[t]][v]
  <2>1. PICK p \in FreePages :
          /\ pte' = [pte EXCEPT ![cr3[t]][v] = Leaf(p, e0.k = "none" \/ e0.w, FALSE)]
          /\ mem' = ZeroFilled(mem, p)
    BY <1>4 DEF Touch
  <2> DEFINE e == Leaf(p, e0.k = "none" \/ e0.w, FALSE)
  <2>3. e.k = "page" /\ e.p = p  BY DEF Leaf
  <2> HIDE DEF e
  <2>5. pte'[cr3[t]][v] = e /\ \A r \in Spaces, x \in VPages : r # cr3[t] \/ x # v => pte'[r][x] = pte[r][x]
    BY <1>1, <2>1 DEF e
  <2>6. mem'[p] = Zero /\ \A q \in Phys : mem'[q] = mem[q] \/ ref[q] = 0
    BY <1>0, <2>1 DEF ZeroFilled, TypeOK, FreePages
  <2>7. /\ MemInv'
        /\ \A u \in Tasks \ {t}, x \in VPages : Seen(u, x)' = Seen(u, x)
        /\ \A x \in VPages \ {v} : Seen(t, x)' = Seen(t, x)
    BY <1>0, <2>3, <2>5, <2>6, PageStep
  <2>8. Seen(t, v)' = Zero  BY <1>0, <2>3, <2>5, <2>6 DEF Seen
  <2>9. Seen(t, v) = Zero  BY <1>0, <1>4 DEF Seen, Touch
  <2> QED  BY <2>7, <2>8, <2>9, Views
<1>5. CASE StrayFault(t, v)
  <2> DEFINE e0 == pte[cr3[t]][v]
             e == Soft(IF e0.k = "zero" THEN "zero" ELSE "stray", TRUE)
  <2>0. e0.k \in {"zero", "guard"} /\ mem' = mem  BY <1>5 DEF StrayFault
  <2>1. pte' = [pte EXCEPT ![cr3[t]][v] = e]  BY <1>5 DEF StrayFault
  <2>2. e.k = (IF e0.k = "zero" THEN "zero" ELSE "stray") /\ e.p = None  BY DEF Soft
  <2> HIDE DEF e
  <2>4. pte'[cr3[t]][v] = e /\ \A r \in Spaces, x \in VPages : r # cr3[t] \/ x # v => pte'[r][x] = pte[r][x]
    BY <1>1, <2>1
  <2>8. /\ MemInv'
        /\ \A u \in Tasks \ {t}, x \in VPages : Seen(u, x)' = Seen(u, x)
        /\ \A x \in VPages \ {v} : Seen(t, x)' = Seen(t, x)
        /\ Seen(t, v)' = Seen(t, v)
    BY <1>0, <2>4, <2>0, <2>2, PageFrame, PageStep DEF Alike, ReadsZero
  <2> QED  BY <2>8, Views
<1> QED  BY <1>2, <1>3, <1>4, <1>5


\* No step of a write fault shows the task, or another, anything new.
LEMMA SeesFaults ==
  ASSUME CountInv, MemInv, NEW t \in Tasks,
         (\E v \in VPages : WriteFault(t, v)) \/ FaultSole(t) \/ FaultCopy(t) \/ FaultUnref(t) \/ FaultInstall(t)
  PROVE  MemInv' /\ View' = View
<1>0. OwnInv /\ TypeOK /\ RefExact /\ op \in [Tasks -> Op] /\ op[t] \in Op /\ OpHolds(t) /\ CopyKept(t)
  BY DEF CountInv, OwnInv, TypeOK, MemInv
<1>1. cr3' = cr3  BY DEF WriteFault, FaultSole, FaultCopy, FaultUnref, FaultInstall
<1>2. cr3[t] # None /\ cr3[t] \in Spaces
  <2>1. CASE \E v \in VPages : WriteFault(t, v)  BY <1>0, <2>1 DEF WriteFault, CanRun, TypeOK
  <2>2. CASE FaultSole(t) \/ FaultCopy(t) \/ FaultUnref(t) \/ FaultInstall(t)
    BY <2>2, <1>0 DEF FaultSole, FaultCopy, FaultUnref, FaultInstall, Faulting, OpHolds, TypeOK
  <2> QED  BY <2>1, <2>2
<1>3. ASSUME \A q \in Phys : mem'[q] = mem[q] \/ ref[q] = 0,
             \A u \in Tasks \ {t} : op'[u] = op[u],
             \A r \in Spaces \ {cr3[t]} : pte'[r] = pte[r],
             CopyKept(t)', op'[t].k # "clone",
             \A x \in VPages : (pte'[cr3[t]][x].k = pte[cr3[t]][x].k) \/ pte'[cr3[t]][x].k = "page",
             \A x \in VPages : Seen(t, x)' = Seen(t, x)
      PROVE  MemInv' /\ View' = View
  <2>3. MemInv' /\ \A u \in Tasks \ {t}, x \in VPages : Seen(u, x)' = Seen(u, x)
    BY <1>1, <1>2, <1>3, HereKept DEF FramesLeft
  <2> QED  BY <1>3, <2>3, Views
<1>4. CASE \E v \in VPages : WriteFault(t, v)
  <2>1. PICK v \in VPages : WriteFault(t, v)  BY <1>4
  <2> DEFINE p == pte[cr3[t]][v].p
             k == IF Sole(p) THEN "sole" ELSE "shared"
             o == [Operation(k, cr3[t], v) EXCEPT !.old = p]
  <2>2. op' = [op EXCEPT ![t] = o] /\ pte' = pte /\ mem' = mem /\ op[t].k = "idle"
    BY <2>1, Operations DEF WriteFault, CanRun
  <2>3. o.k \in {"sole", "shared"}  BY DEF Operation, Idle
  <2> HIDE DEF o
  <2> QED  BY <1>3, <2>2, <1>0, <2>3, AlikeSelf, <1>1, SeenHere DEF CopyKept
<1>5. CASE FaultSole(t)
  <2>1. op[t].k = "sole" /\ op' = [op EXCEPT ![t] = Idle] /\ mem' = mem  BY <1>5 DEF FaultSole
  <2>2. PICK v \in VPages : v = op[t].v /\ op[t].s = cr3[t]  BY <1>0, <2>1 DEF OpHolds, Faulting
  <2>3. /\ \A r \in Spaces \ {cr3[t]} : pte'[r] = pte[r]
        /\ \A x \in VPages : pte'[cr3[t]][x].k = pte[cr3[t]][x].k /\ pte'[cr3[t]][x].p = pte[cr3[t]][x].p
    <3>2. pte' = [pte EXCEPT ![cr3[t]][v].w = TRUE, ![cr3[t]][v].c = FALSE]  BY <1>5, <2>2 DEF FaultSole
    <3> QED  BY SMT, Z3, <1>2, <1>0, <3>2 DEF Entry, TypeOK
  <2>4. op'[t] = Idle /\ op'[t].k = "idle" /\ \A u \in Tasks \ {t} : op'[u] = op[u]  BY <1>0, <2>1, Operations
  <2>6. \A q \in Phys : mem'[q] = mem[q]  BY <2>1
  <2>7. \A x \in VPages : Seen(t, x)' = Seen(t, x)
    <3>1. \A x \in VPages : Alike(pte'[cr3[t]][x], pte[cr3[t]][x], x)  BY <2>3 DEF Alike, ReadsZero
    <3> QED  BY <1>1, <3>1, <2>1, <2>4, SeenHere
  <2> QED  BY <1>3, <2>3, <2>4, <2>6, <2>7 DEF CopyKept
<1>6. CASE FaultCopy(t)
  <2>0. op[t].k = "shared" /\ pte' = pte  BY <1>6 DEF FaultCopy
  <2>1. PICK v \in VPages, p \in Phys :
          /\ v = op[t].v /\ op[t].s = cr3[t] /\ p = op[t].old /\ p = pte[cr3[t]][v].p
    BY <1>0, <2>0 DEF OpHolds, Faulting, Op
  <2>3. /\ op'[t].k \in {"idle", "copied"} /\ \A u \in Tasks \ {t} : op'[u] = op[u]
        /\ \A q \in Phys : mem'[q] = mem[q] \/ ref[q] = 0
        /\ CopyKept(t)'
    <3>1. CASE FreePages = {}  BY <1>6, <3>1, <1>0, Operations DEF FaultCopy, CopyKept
    <3>2. CASE FreePages # {}
      <4>1. PICK n \in FreePages :
              /\ mem' = [mem EXCEPT ![n] = mem[p]]
              /\ op' = [op EXCEPT ![t] = [op[t] EXCEPT !.k = "copied", !.new = n]]
        BY <1>6, <2>1, <3>2 DEF FaultCopy
      <4>3. op'[t].k = "copied" /\ op'[t].new = n /\ op'[t].old = p /\ \A u \in Tasks \ {t} : op'[u] = op[u]
        BY <1>0, <2>1, <4>1 DEF Op
      <4> QED  BY <4>3, <1>0, <4>1 DEF CopyKept, TypeOK, FreePages
    <3> QED  BY <3>1, <3>2
  <2> QED  BY <1>3, <2>3, <2>0, AlikeSelf, <1>1, SeenHere
<1>7. CASE FaultUnref(t)
  <2>0. /\ op[t].k = "copied" /\ pte' = pte /\ mem' = mem
        /\ op' = [op EXCEPT ![t] = [op[t] EXCEPT !.k = "install"]]
    BY <1>7 DEF FaultUnref
  <2>1. op'[t].k = "install" /\ op'[t].v = op[t].v /\ op'[t].new = op[t].new /\ \A u \in Tasks \ {t} : op'[u] = op[u]
    BY <1>0, <2>0 DEF Op
  <2>2. ASSUME NEW x \in VPages PROVE Seen(t, x)' = Seen(t, x)
    <3>1. CASE x = op[t].v
      <4>3. Seen(t, x)' = mem[op[t].new]  BY <1>1, <1>2, <2>0, <2>1, <3>1 DEF Seen
      <4> QED  BY <1>0, <2>0, <1>2, <3>1, PageFrame, <4>3 DEF CopyKept, Seen, OpHolds, Faulting
    <3>2. CASE x # op[t].v  BY <1>1, <2>0, <2>1, <3>2 DEF Seen, Unmapped
    <3> QED  BY <3>1, <3>2
  <2> QED  BY <1>3, <2>1, <2>2, <2>0 DEF CopyKept
<1>8. CASE FaultInstall(t)
  <2>0. op[t].k = "install" /\ mem' = mem /\ op' = [op EXCEPT ![t] = Idle]  BY <1>8 DEF FaultInstall
  <2>1. PICK v \in VPages, n \in Phys : v = op[t].v /\ op[t].s = cr3[t] /\ n = op[t].new
    BY <1>0, <2>0 DEF OpHolds, Faulting, Op
  <2>2. op'[t].k = "idle" /\ \A u \in Tasks \ {t} : op'[u] = op[u]  BY <1>0, <2>0, Operations
  <2>3. /\ pte'[cr3[t]][v].k = "page" /\ pte'[cr3[t]][v].p = n
        /\ \A x \in VPages \ {v} : pte'[cr3[t]][x] = pte[cr3[t]][x]
        /\ \A r \in Spaces \ {cr3[t]} : pte'[r] = pte[r]
    BY <1>0, <1>8, <2>1, <1>2 DEF TypeOK, FaultInstall, Leaf
  <2>4. ASSUME NEW x \in VPages PROVE Seen(t, x)' = Seen(t, x)
    <3>1. CASE x = v  BY <2>0, <2>1, <3>1, <1>1, <2>2, <2>3 DEF Seen
    <3>2. CASE x # v
      <4>1. pte'[cr3[t]][x] = pte[cr3[t]][x]  BY <2>3, <3>2
      <4> QED  BY <1>1, <2>0, <2>1, <2>2, <3>2, <4>1 DEF Seen, Unmapped
    <3> QED  BY <3>1, <3>2
  <2> QED  BY <1>3, <2>2, <2>3, <2>4, <2>0 DEF CopyKept
<1> QED  BY <1>4, <1>5, <1>6, <1>7, <1>8


\* Starting a fork, giving one up, leaving a table and having taken one down
\* show nobody anything new.
LEMMA SeesQuiet ==
  ASSUME CountInv, MemInv, NEW t \in Tasks,
         (\E u \in Tasks : CloneStart(t, u)) \/ CloneFails(t) \/ Leave(t) \/ DropDone(t)
  PROVE  MemInv' /\ View' = View
<1>0. OwnInv /\ TypeOK /\ op \in [Tasks -> Op] /\ op[t] \in Op /\ ImageKept(t)
  BY DEF CountInv, OwnInv, TypeOK, MemInv
<1>1. cr3' = cr3 /\ pte' = pte /\ mem' = mem  BY DEF CloneStart, CloneFails, Leave, DropDone
<1>2. op[t].k \in {"idle"} \cup Moving
  BY Operations DEF CloneStart, CloneFails, Leave, DropDone, CanRun, Moving
<1>3. /\ \A u \in Tasks \ {t} : op'[u] = op[u]
      /\ op'[t].k \in {"idle", "destroy"} \/ (op'[t].k = "clone" /\ op'[t].v = 1)
  <2>1. CASE \E u \in Tasks : CloneStart(t, u)
    <3>1. PICK u \in Tasks, s \in Spaces : op' = [op EXCEPT ![t] = [Operation("clone", s, 1) EXCEPT !.child = u]]
      BY <2>1 DEF CloneStart, FreeSpaces
    <3> DEFINE o == [Operation("clone", s, 1) EXCEPT !.child = u]
    <3>2. o.k = "clone" /\ o.v = 1  BY DEF Operation, Idle
    <3>3. op' = [op EXCEPT ![t] = o]  BY <3>1
    <3> HIDE DEF o
    <3> QED  BY <1>0, <3>2, <3>3
  <2>2. CASE DropDone(t)
    BY <1>0, <2>2, Operations DEF DropDone
  <2>3. CASE CloneFails(t) \/ Leave(t)
    <3>3. Destroying(op[t].s).k = "destroy" /\ Idle.k = "idle"
      BY <1>0, <2>3, Destroyings, Operations DEF OwnInv, OpHolds, Op, CloneFails, Leave, Moving
    <3> QED  BY <1>0, <3>3, <2>3 DEF CloneFails, Leave
  <2> QED  BY <2>1, <2>2, <2>3
<1>4. CopyKept(t)' /\ ImageKept(t)'  BY <1>0, <1>1, <1>3 DEF CopyKept, ImageKept
<1>5. CloneKept(t)'  BY SMT, Z3, SpaceAssumption, FS_CardinalityType, <1>3 DEF CloneKept
<1>6. FramesLeft(t)  BY <1>1 DEF FramesLeft
<1>7. MemInv' /\ \A u \in Tasks \ {t}, x \in VPages : Seen(u, x)' = Seen(u, x)
  <2> DEFINE Z == {}
  <2>1. Z \in SUBSET Spaces /\ \A r \in Spaces \ Z : pte'[r] = pte[r]  BY <1>1
  <2> QED  BY <1>4, <1>5, <1>6, <2>1, <1>1, <1>3, OthersKept
<1> QED  BY <1>7, <1>2, <1>3, <1>1, AlikeSelf, SeenHere, Views DEF Moving

\* Copying a page of the table to the child's: the copy is as good as the
\* original, and the parent sees what it saw.
LEMMA SeesClonePage ==
  ASSUME CountInv, MemInv, NEW t \in Tasks, ClonePage(t)
  PROVE  MemInv' /\ View' = View
<1>0. /\ OwnInv /\ TypeOK /\ op \in [Tasks -> Op] /\ op[t] \in Op /\ pte \in [Spaces -> [VPages -> Entry]]
      /\ ImageKept(t) /\ CloneKept(t) /\ GuardKept
      /\ op[t].k = "clone" /\ op[t].k \in Moving /\ op' = [op EXCEPT ![t].v = @ + 1] /\ UNCHANGED <<cr3, mem>>
  BY DEF CountInv, OwnInv, TypeOK, MemInv, ClonePage, Moving
<1>1. PICK q \in Spaces, s \in Spaces, v \in VPages :
        q = cr3[t] /\ s = op[t].s /\ v = op[t].v /\ q # s /\ q # None
  <2>1. OpHolds(t) /\ Apart(t, t) /\ op[t].v \in VPages  BY <1>0 DEF OwnInv, ClonePage
  <2> QED  BY <2>1, <1>0 DEF TypeOK, Op, OpHolds, Apart
<1>2. /\ op'[t].k = "clone" /\ op'[t].s = s /\ op'[t].v = v + 1 /\ \A u \in Tasks \ {t} : op'[u] = op[u]
  BY <1>0, <1>1 DEF Op
<1>3. /\ pte'[q][v].k = pte[q][v].k /\ pte'[q][v].p = pte[q][v].p
      /\ Alike(pte'[s][v], pte'[q][v], v)
      /\ pte'[s][v].k \in {"guard", "stray"} => pte[q][v].k \in {"guard", "stray"}
      /\ \A x \in VPages \ {v} : pte'[q][x] = pte[q][x] /\ pte'[s][x] = pte[s][x]
      /\ \A r \in Spaces \ {q, s} : pte'[r] = pte[r]
  <2>0. pte[q][v] \in Entry /\ (pte[q][v].k # "page" => pte[q][v].p = None)  BY <1>0, PageFrame
  <2>1. CASE pte[q][v].k = "page"
    <3> DEFINE e == Shared(pte[q][v])
    <3>1. e.k = pte[q][v].k /\ e.p = pte[q][v].p  BY <2>0 DEF Shared, Entry
    <3>2. pte' = [pte EXCEPT ![q][v] = e, ![s][v] = e]  BY <1>1, <2>1 DEF ClonePage
    <3> HIDE DEF e
    <3> QED  BY <3>1, <1>0, <3>2, AlikeSelf
  <2>2. CASE pte[q][v].k # "page"
    <3> DEFINE e == Carried(pte[q][v])
    <3>1. pte' = [pte EXCEPT ![s][v] = e]  BY <1>1, <2>2 DEF ClonePage
    <3>2. e = pte[q][v] \/ e = Absent  BY DEF Carried
    <3>3. Alike(e, pte[q][v], v)
      <4>1. CASE pte[q][v].k \in {"zero", "guard"}  BY <4>1, AlikeSelf DEF Carried
      <4>2. CASE pte[q][v].k = "none"
        BY <2>0, <4>2, Entries DEF Carried, Alike, ReadsZero
      <4>3. CASE pte[q][v].k = "stray"
        BY <1>0, <4>3, SpaceAssumption, <2>0, Entries DEF GuardKept, Carried, Alike, ReadsZero
      <4> QED  BY <2>0, <2>2, <4>1, <4>2, <4>3 DEF Entry, Kinds
    <3> HIDE DEF e
    <3>4. /\ pte'[s][v] = e /\ pte'[q] = pte[q]
          /\ \A x \in VPages \ {v} : pte'[s][x] = pte[s][x]
          /\ \A r \in Spaces \ {q, s} : pte'[r] = pte[r]
      BY <1>0, <1>1, <3>1
    <3> QED  BY <3>3, <3>4, <3>2, Entries
  <2> QED  BY <2>1, <2>2
<1>4. CopyKept(t)' /\ FramesLeft(t)  BY <1>0, <1>2 DEF CopyKept, FramesLeft
<1>5. ImageKept(t)'
  <2>2. \A x \in Image : x \in VPages /\ pte[q][x].k = "page"  BY <1>0, <1>1, SpaceAssumption DEF ImageKept
  <2>3. \A x \in Image : pte'[q][x].k = "page"  BY <1>3, <2>2
  <2> QED  BY <1>0, <1>1, <2>3 DEF ImageKept
<1>6. CloneKept(t)'
  <2> SUFFICES ASSUME NEW x \in VPages, x < v + 1 PROVE Alike(pte'[s][x], pte'[q][x], x)
    BY SMT, Z3, <1>0, <1>1, <1>2 DEF CloneKept, Alike, ReadsZero
  <2>1. CASE x = v  BY <1>3, <2>1
  <2>2. CASE x # v
    <3>2. Alike(pte[s][x], pte[q][x], x)
      BY SMT, Z3, <1>0, <1>1, <2>2, SpaceAssumption, FS_CardinalityType DEF CloneKept
    <3> QED  BY <1>3, <3>2
  <2> QED  BY <2>1, <2>2
<1>7. MemInv' /\ \A u \in Tasks \ {t}, x \in VPages : Seen(u, x)' = Seen(u, x)
  <2> DEFINE Z == {q, s}
  <2>1. Z \in SUBSET Spaces /\ \A r \in Spaces \ Z : pte'[r] = pte[r]  BY <1>3
  <2>2. \A u \in Tasks \ {t} : op'[u] = op[u] /\ cr3'[u] = cr3[u] /\ cr3[u] \notin Z
    <3>1. \A u \in Tasks \ {t} : cr3[u] # q /\ cr3[u] # s  BY <1>0, <1>1 DEF OwnInv, Apart
    <3> QED  BY <1>0, <3>1
  <2>3. \A u \in Tasks \ {t} : op[u].k \in Moving => op[u].s \notin Z
    BY <1>0, <1>1 DEF OwnInv, Apart
  <2>4. \A r \in Z, x \in VPages : pte'[r][x].k \in {"guard", "stray"} => x \in Guard
    BY <1>0, <1>3 DEF GuardKept
  <2> HIDE DEF Z
  <2> QED  BY <1>4, <1>5, <1>6, <2>1, <2>2, <2>3, <2>4, OthersKept
<1>8. \A x \in VPages : Seen(t, x)' = Seen(t, x)
  <2>2. \A x \in VPages : Alike(pte'[cr3[t]][x], pte[cr3[t]][x], x)
    BY <1>1, <1>3 DEF Alike, ReadsZero
  <2> QED  BY <1>0, <1>2, <2>2, SeenHere
<1> QED  BY <1>7, <1>8, Views

\* The child starts with what its parent sees.
LEMMA SeesCloneDone ==
  ASSUME CountInv, MemInv, NEW t \in Tasks, CloneDone(t)
  PROVE  MemInv' /\ \E u \in Tasks : P!Fork(t, u)
<1>0. /\ OwnInv /\ TypeOK /\ op \in [Tasks -> Op] /\ op[t] \in Op
      /\ op[t].k = "clone" /\ op[t].k \in Moving /\ UNCHANGED <<pte, mem>> /\ op' = [op EXCEPT ![t] = Idle]
  BY DEF CountInv, OwnInv, TypeOK, CloneDone, Moving
<1>1. PICK u \in Tasks, s \in Spaces :
        u = op[t].child /\ s = op[t].s /\ u # t /\ cr3[u] = None /\ op[u].k = "idle"
  BY <1>0 DEF OwnInv, OpHolds, Op
<1>2. cr3[t] # None /\ cr3[t] \in Spaces  BY SMT, Z3, <1>0 DEF OwnInv, OpHolds, TypeOK
<1>3. cr3'[u] = s /\ \A x \in Tasks \ {u} : cr3'[x] = cr3[x]  BY <1>0, <1>1 DEF CloneDone, TypeOK
<1>4. op'[t].k = "idle" /\ \A x \in Tasks \ {t} : op'[x] = op[x]  BY <1>0, Operations
<1>5. \A x \in VPages : Alike(pte[s][x], pte[cr3[t]][x], x)
  <2>1. op[t].v \in Nat \ VPages /\ op[t].v # 0  BY <1>0, OpFields DEF OwnInv, OpHolds, CloneDone
  <2>2. \A x \in VPages : x < op[t].v  BY SMT, Z3, <2>1, SpaceAssumption, FS_CardinalityType
  <2> QED  BY <1>0, <1>1, <2>2 DEF MemInv, CloneKept
<1>6. MemInv'
  <2>1. ASSUME NEW x \in Tasks PROVE CopyKept(x)'  BY <1>4, <1>0 DEF CopyKept, MemInv
  <2>2. ASSUME NEW x \in Tasks PROVE CloneKept(x)'
    <3>1. CASE x = t \/ x = u  BY <1>1, <1>4, <3>1 DEF CloneKept
    <3>2. CASE x # t /\ x # u  BY SMT, Z3, <1>3, <3>2, <1>0 DEF MemInv, CloneKept, Alike, ReadsZero
    <3> QED  BY <3>1, <3>2
  <2>3. ASSUME NEW x \in Tasks PROVE ImageKept(x)'
    <3>1. CASE x = u  BY <1>2, SpaceAssumption, <1>5, <1>0, <1>3, <3>1 DEF MemInv, ImageKept, Alike
    <3>2. CASE x # u
      BY <1>0, <1>3, <3>2 DEF ImageKept, MemInv
    <3> QED  BY <3>1, <3>2
  <2> QED  BY <2>1, <2>2, <2>3, <1>0 DEF MemInv, GuardKept
<1>7. ASSUME NEW w \in Tasks \ {u}, NEW x \in VPages PROVE Seen(w, x)' = Seen(w, x)
  BY <1>0, <1>3, <1>4 DEF Seen, Unmapped
<1>8. ASSUME NEW x \in VPages PROVE Seen(u, x)' = Seen(t, x) /\ Seen(u, x) = Unmapped
  <2>3. Seen(u, x)' = IF pte[s][x].k = "page" THEN mem[pte[s][x].p]
                      ELSE IF ReadsZero(pte[s][x], x) THEN Zero ELSE Unmapped
    BY <1>0, <1>3, <1>1, SpaceAssumption DEF Seen, ReadsZero, Unmapped
  <2> QED  BY <1>1, <2>3, <1>0, <1>2, <1>5 DEF Seen, Alike, ReadsZero, Unmapped
<1>10. View' = [View EXCEPT ![u] = View[t]]
  <2>2. View[t] = [x \in VPages |-> Seen(u, x)']  BY <1>8, Views
  <2> QED  BY <1>7, <2>2, ViewTask
<1> QED  BY <1>6, Views, <1>8, <1>10 DEF P!Fork, P!Nothing


\* Taking a page out of a table nobody uses.
LEMMA SeesDropPage ==
  ASSUME CountInv, MemInv, NEW t \in Tasks, DropPage(t)
  PROVE  MemInv' /\ View' = View
<1>0. /\ OwnInv /\ TypeOK /\ op \in [Tasks -> Op] /\ op[t] \in Op /\ pte \in [Spaces -> [VPages -> Entry]]
      /\ ImageKept(t) /\ GuardKept /\ op[t].k = "destroy" /\ op[t].k \in Moving
      /\ op' = [op EXCEPT ![t].v = @ + 1] /\ UNCHANGED <<cr3, mem>>
  BY DEF CountInv, OwnInv, TypeOK, MemInv, DropPage, Moving
<1>1. PICK s \in Spaces, v \in VPages : s = op[t].s /\ v = op[t].v /\ s # cr3[t]
  BY <1>0 DEF OwnInv, DropPage, OpHolds, Apart, Op
<1>2. op'[t].k = "destroy" /\ \A u \in Tasks \ {t} : op'[u] = op[u]  BY <1>0 DEF Op
<1>3. /\ pte'[s][v] = Absent /\ \A x \in VPages \ {v} : pte'[s][x] = pte[s][x]
      /\ \A r \in Spaces \ {s} : pte'[r] = pte[r]
  BY <1>1, <1>0 DEF DropPage
<1>4. cr3[t] # None => pte'[cr3[t]] = pte[cr3[t]]
  <2>1. cr3[t] \in Spaces \cup {None}  BY <1>0 DEF TypeOK
  <2> QED  BY <1>1, <1>3, <2>1
<1>5. CopyKept(t)' /\ CloneKept(t)' /\ FramesLeft(t)
  BY <1>0, <1>2 DEF CopyKept, CloneKept, FramesLeft
<1>6. ImageKept(t)'  BY <1>0, <1>4 DEF ImageKept
<1>7. MemInv' /\ \A u \in Tasks \ {t}, x \in VPages : Seen(u, x)' = Seen(u, x)
  <2> DEFINE Z == {s}
  <2>1. Z \in SUBSET Spaces /\ \A r \in Spaces \ Z : pte'[r] = pte[r]  BY <1>3
  <2>2. \A u \in Tasks \ {t} : op'[u] = op[u] /\ cr3'[u] = cr3[u] /\ cr3[u] \notin Z
    BY <1>0, <1>1 DEF OwnInv, Apart
  <2>3. \A u \in Tasks \ {t} : op[u].k \in Moving => op[u].s \notin Z
    BY <1>0, <1>1 DEF OwnInv, Apart
  <2>4. \A r \in Z, x \in VPages : pte'[r][x].k \in {"guard", "stray"} => x \in Guard
    BY SMT, Z3, <1>0, <1>3, Entries DEF GuardKept
  <2> HIDE DEF Z
  <2> QED  BY <1>5, <1>6, <2>1, <2>2, <2>3, <2>4, OthersKept
<1>8. \A x \in VPages : Seen(t, x)' = Seen(t, x)  BY <1>0, <1>2, <1>4, AlikeSelf, SeenHere
<1> QED  BY <1>7, <1>8, Views

\* A task that exits sees nothing any more.
LEMMA SeesExit ==
  ASSUME CountInv, MemInv, NEW t \in Tasks, Exit(t)
  PROVE  MemInv' /\ (View' = View \/ P!Replace(t, P!Nothing))
<1>0. /\ OwnInv /\ TypeOK /\ op \in [Tasks -> Op] /\ UNCHANGED <<pte, mem>>
      /\ cr3'[t] = None /\ \A u \in Tasks \ {t} : cr3'[u] = cr3[u]
  BY DEF CountInv, OwnInv, TypeOK, Exit
<1>1. cr3[t] \in Spaces  BY <1>0 DEF TypeOK, Exit, CanRun
<1>2. op'[t].k \in {"idle", "destroy"} /\ \A u \in Tasks \ {t} : op'[u] = op[u]
  BY <1>1, Destroyings, Operations, <1>0 DEF Exit
<1>3. CopyKept(t)' /\ CloneKept(t)' /\ ImageKept(t)' /\ FramesLeft(t)
  BY <1>0, <1>2 DEF CopyKept, CloneKept, ImageKept, FramesLeft
<1>4. MemInv' /\ \A u \in Tasks \ {t}, x \in VPages : Seen(u, x)' = Seen(u, x)
  <2> DEFINE Z == {}
  <2>1. Z \in SUBSET Spaces /\ \A r \in Spaces \ Z : pte'[r] = pte[r]  BY <1>0
  <2> QED  BY <1>3, <2>1, <1>0, <1>2, OthersKept
<1>5. P!Nothing = [x \in VPages |-> Seen(t, x)']  BY <1>0 DEF Seen, Unmapped, P!Nothing
<1>6. View' = [View EXCEPT ![t] = P!Nothing]  BY <1>4, <1>5, ViewTask
<1>7. CASE View[t] # P!Nothing  BY <1>4, <1>6, <1>7 DEF P!Replace
<1>8. CASE View[t] = P!Nothing  BY <1>6, <1>8, <1>4 DEF View
<1> QED  BY <1>7, <1>8

\* What a program reads where it starts: zeroes in its image and its stack.
LEMMA StartReads ==
  ASSUME NEW f \in [Image -> Phys], NEW v \in VPages
  PROVE  /\ Start(f)[v].k = "page" <=> v \in Image
         /\ Start(f)[v].k \in {"guard", "stray"} => v \in Guard
         /\ v \notin Image => (ReadsZero(Start(f)[v], v) <=> v \in Stack)
<1>1. CASE v \in Image  BY <1>1, Entries DEF Start
<1>2. CASE v \notin Image /\ v \in Guard
  <2>3. Soft("guard", FALSE).k = "guard"  BY Entries DEF Kinds
  <2> QED  BY <1>2, <2>3, SpaceAssumption DEF ReadsZero, Start
<1>3. CASE v \notin Image /\ v \notin Guard  BY <1>3, Entries DEF Start, ReadsZero
<1> QED  BY <1>1, <1>2, <1>3

\* execve gives the task a fresh image and touches nobody else's memory.
LEMMA SeesExec ==
  ASSUME CountInv, MemInv, NEW t \in Tasks, Exec(t)
  PROVE  MemInv' /\ (View' = View \/ \E img \in [VPages -> {Zero, Unmapped}] : P!Replace(t, img))
<1>0. /\ OwnInv /\ TypeOK /\ op \in [Tasks -> Op] /\ pte \in [Spaces -> [VPages -> Entry]]
      /\ cr3 \in [Tasks -> Spaces \cup {None}] /\ mem \in [Phys -> Values]
      /\ op[t].k = "idle" /\ cr3[t] \in Spaces /\ cr3[t] # None
  <2>1. OwnInv /\ TypeOK /\ cr3[t] # None /\ op[t] = Idle  BY DEF CountInv, OwnInv, Exec, CanRun
  <2>2. op[t].k = "idle"  BY <2>1, Operations
  <2> QED  BY <2>1, <2>2 DEF TypeOK
<1>1. PICK s \in FreeSpaces, f \in Loads(FreePages) :
       /\ cr3' = [cr3 EXCEPT ![t] = s]
       /\ pte' = [pte EXCEPT ![s] = Start(f)]
       /\ mem' = [p \in Phys |-> IF \E v \in Image : f[v] = p THEN Zero ELSE mem[p]]
       /\ op' = [op EXCEPT ![t] = Operation("leave", cr3[t], 0)]
  BY DEF Exec
<1>2. f \in [Image -> Phys] /\ \A v \in Image : ref[f[v]] = 0  BY DEF Loads, FreePages
<1>3. s \in Spaces /\ s # None /\ \A u \in Tasks : op[u].s # s /\ cr3[u] # s
  BY SpaceAssumption DEF FreeSpaces, Busy, InUse
<1>4. op'[t].k = "leave" /\ \A u \in Tasks \ {t} : op'[u] = op[u]
  <2>1. "leave" \in Faulting \cup Moving /\ cr3[t] \in Spaces \cup {None} /\ 0 \in Nat  BY <1>0 DEF Moving
  <2>2. Operation("leave", cr3[t], 0).k = "leave"  BY <2>1, Operations
  <2> QED  BY <1>0, <1>1, <2>2
<1>5. /\ pte'[s] = Start(f) /\ \A r \in Spaces \ {s} : pte'[r] = pte[r]
      /\ cr3'[t] = s /\ \A u \in Tasks \ {t} : cr3'[u] = cr3[u]
  BY <1>0, <1>1, <1>3
<1>6. CopyKept(t)' /\ CloneKept(t)'  BY <1>4 DEF CopyKept, CloneKept
<1>7. ImageKept(t)'
  <2>1. \A v \in Image : v \in VPages /\ Start(f)[v].k = "page"  BY <1>2, StartReads, SpaceAssumption
  <2> QED  BY <1>5, <2>1 DEF ImageKept
<1>8. FramesLeft(t)  BY <1>1, <1>2 DEF FramesLeft
<1>9. MemInv' /\ \A u \in Tasks \ {t}, x \in VPages : Seen(u, x)' = Seen(u, x)
  <2> DEFINE Z == {s}
  <2>1. Z \in SUBSET Spaces /\ \A r \in Spaces \ Z : pte'[r] = pte[r]  BY <1>3, <1>5
  <2>2. \A u \in Tasks \ {t} : op'[u] = op[u] /\ cr3'[u] = cr3[u] /\ cr3[u] \notin Z  BY <1>3, <1>4, <1>5
  <2>3. \A u \in Tasks \ {t} : op[u].k \in Moving => op[u].s \notin Z  BY <1>3
  <2>4. \A r \in Z, x \in VPages : pte'[r][x].k \in {"guard", "stray"} => x \in Guard
    BY SMT, Z3, <1>2, <1>5, StartReads
  <2> HIDE DEF Z
  <2> QED  BY <1>6, <1>7, <1>8, <2>1, <2>2, <2>3, <2>4, OthersKept
<1>10. PICK img : img = [x \in VPages |-> Seen(t, x)']  OBVIOUS
<1>11. \A x \in VPages : img[x] = IF x \in Image \cup Stack THEN Zero ELSE Unmapped
  <2> SUFFICES ASSUME NEW x \in VPages
               PROVE  Seen(t, x)' = IF x \in Image \cup Stack THEN Zero ELSE Unmapped
    BY <1>10
  <2>1. Seen(t, x)' = IF Start(f)[x].k = "page" THEN mem'[Start(f)[x].p]
                      ELSE IF ReadsZero(Start(f)[x], x) THEN Zero ELSE Unmapped
    BY <1>3, <1>4, <1>5 DEF Seen, ReadsZero, Unmapped
  <2>2. CASE x \in Image
    <3>2. f[x] \in Phys /\ mem'[f[x]] = Zero  BY <1>1, <1>2, <2>2
    <3> QED  BY <2>1, <1>2, StartReads, StartEntries, <3>2
  <2>3. CASE x \notin Image
    BY <1>2, <2>1, <2>3, StartReads
  <2> QED  BY <2>2, <2>3
<1>13. View' = [View EXCEPT ![t] = img]  BY <1>9, <1>10, ViewTask
<1>14. CASE View[t] # P!Nothing  BY <1>9, <1>10, <1>11, <1>13, <1>14 DEF P!Replace
<1>15. CASE View[t] = P!Nothing
  <2>1. \A x \in VPages : Seen(t, x) = Unmapped  BY Views, <1>15 DEF P!Nothing
  <2>2. ASSUME NEW x \in VPages, x \in Image \cup Stack PROVE FALSE
    <3>1. pte[cr3[t]][x].k \in Kinds  BY <1>0 DEF Entry
    <3>2. Unmapped \notin Values /\ Zero \in Values  BY SpaceAssumption DEF Unmapped
    <3>3. pte[cr3[t]][x].k # "page"
      <4>1. SUFFICES ASSUME pte[cr3[t]][x].k = "page" PROVE FALSE  OBVIOUS
      <4>2. Seen(t, x) = mem[pte[cr3[t]][x].p] /\ pte[cr3[t]][x].p \in Phys  BY <1>0, <4>1, SeenParts
      <4> QED  BY <1>0, <2>1, <3>2, <4>2
    <3>7. Seen(t, x) = Zero
      BY <1>0, <3>3, <3>1, <2>2, SpaceAssumption, SeenParts DEF Kinds, ReadsZero, MemInv, GuardKept, ImageKept
    <3> QED  BY <2>1, <3>2, <3>7
  <2> QED  BY SMT, Z3, <1>9, <1>15, <1>10, <1>11, <2>2 DEF P!Nothing, View
<1> QED  BY <1>14, <1>15

\* The first program's memory is its own, and nobody else has any.
LEMMA MemInit == Init => MemInv /\ P!Init
<1> SUFFICES ASSUME Init PROVE MemInv /\ P!Init
  OBVIOUS
<1>1. PICK t \in Tasks, s \in Spaces :
        /\ cr3 = [u \in Tasks |-> IF u = t THEN s ELSE None]
        /\ \E f \in Loads(Phys) : pte = [x \in Spaces |-> IF x = s THEN Start(f) ELSE Empty]
  BY SMT, Z3 DEF Init
<1>2. PICK f \in Loads(Phys) : pte = [x \in Spaces |-> IF x = s THEN Start(f) ELSE Empty]  BY <1>1
<1>3. f \in [Image -> Phys] /\ \A v \in VPages : Empty[v].k = "none"  BY Entries DEF Loads, Empty
<1>4. \A u \in Tasks : op[u].k = "idle"  BY SMT, Z3, Operations DEF Init
<1>5. mem = [p \in Phys |-> Zero]  BY DEF Init
<1>6. MemInv
  BY <1>4, <1>3, StartReads, SpaceAssumption, <1>1, <1>2 DEF CopyKept, CloneKept, ImageKept, GuardKept, MemInv
<1>7. \A u \in Tasks \ {t}, x \in VPages : Seen(u, x) = Unmapped  BY <1>1 DEF Seen
<1>8. \A x \in VPages : Seen(t, x) \in {Zero, Unmapped}
  <2> SUFFICES ASSUME NEW x \in VPages PROVE Seen(t, x) \in {Zero, Unmapped}
    OBVIOUS
  <2>1. cr3[t] = s /\ s # None /\ pte[s] = Start(f)  BY <1>1, <1>2, SpaceAssumption
  <2>2. CASE x \in Image
    <3>1. Start(f)[x].k = "page" /\ Start(f)[x].p = f[x]  BY <1>3, <2>2, StartReads, StartEntries
    <3> QED  BY <1>4, <2>1, <3>1, <1>3, <1>5, <2>2 DEF Seen
  <2>3. CASE x \notin Image
    BY <1>4, <2>1, <1>3, <2>3, StartReads DEF Seen
  <2> QED  BY <2>2, <2>3
<1>9. PICK img : img = [x \in VPages |-> Seen(t, x)]  OBVIOUS
<1>11. View = [u \in Tasks |-> IF u = t THEN img ELSE P!Nothing]  BY <1>7, <1>9 DEF P!Nothing, View
<1> QED  BY <1>6, <1>8, <1>9, <1>11 DEF P!Init

\* Every operation of the kernel is one on private memory, or none.
LEMMA MemNext == Private /\ CountInv /\ CountInv' /\ MemInv /\ [Next]_vars => MemInv' /\ [P!Next]_View
<1> SUFFICES ASSUME Private, CountInv, CountInv', MemInv, [Next]_vars PROVE MemInv' /\ (P!Next \/ View' = View)
  OBVIOUS
<1>1. CASE UNCHANGED vars
  <2>1. MemInv'  BY <1>1 DEF vars, MemInv, CopyKept, CloneKept, ImageKept, GuardKept, Alike
  <2> QED  BY <1>1, <2>1 DEF vars, View, Seen
<1>2. CASE Next
  <2>1. PICK t \in Tasks :
          \/ \E v \in VPages :
               \/ \E x \in Values : Store(t, v, x)
               \/ \E prot \in {"ro", "rw"} : Mmap(t, v, prot) \/ PkeyMprotect(t, v, prot)
               \/ Munmap(t, v) \/ Touch(t, v) \/ WriteFault(t, v) \/ StrayFault(t, v)
          \/ FaultSole(t) \/ FaultCopy(t) \/ FaultUnref(t) \/ FaultInstall(t)
          \/ \E u \in Tasks : CloneShared(t, u) \/ CloneStart(t, u)
          \/ ClonePage(t) \/ CloneDone(t) \/ CloneFails(t)
          \/ Exec(t) \/ Leave(t) \/ Exit(t) \/ DropPage(t) \/ DropDone(t)
    BY <1>2 DEF Next
  <2>2. /\ \A u \in Tasks : ~CloneShared(t, u)
        /\ \A v \in VPages, prot \in {"ro", "rw"} : ~PkeyMprotect(t, v, prot)
    BY DEF Private, CloneShared, PkeyMprotect
  <2>3. CASE \E v \in VPages, x \in Values : Store(t, v, x)  BY <2>3, SeesStore DEF P!Next
  <2>4. CASE \E v \in VPages : \/ \E prot \in {"ro", "rw"} : Mmap(t, v, prot)
                               \/ Munmap(t, v) \/ Touch(t, v) \/ StrayFault(t, v)
    BY <2>4, SeesAreas DEF P!Next
  <2>5. CASE \/ \E v \in VPages : WriteFault(t, v)
             \/ FaultSole(t) \/ FaultCopy(t) \/ FaultUnref(t) \/ FaultInstall(t)
    BY <2>5, SeesFaults
  <2>6. CASE (\E u \in Tasks : CloneStart(t, u)) \/ CloneFails(t) \/ Leave(t) \/ DropDone(t)
    BY <2>6, SeesQuiet
  <2>7. CASE ClonePage(t)  BY <2>7, SeesClonePage
  <2>8. CASE CloneDone(t)  BY <2>8, SeesCloneDone DEF P!Next
  <2>9. CASE Exec(t)  BY <2>9, SeesExec DEF P!Next
  <2>10. CASE Exit(t)  BY <2>10, SeesExit DEF P!Nothing, P!Next
  <2>11. CASE DropPage(t)  BY <2>11, SeesDropPage
  <2> QED  BY <2>1, <2>2, <2>3, <2>4, <2>5, <2>6, <2>7, <2>8, <2>9, <2>10, <2>11
<1> QED  BY <1>1, <1>2

\* Copy on write is never seen: whatever the frames, the counts and the page
\* tables do, every task has memory of its own, a fork copies it as it stands,
\* and a store is seen by the task that made it and by nobody else.
THEOREM MemoryIsPrivate == ASSUME Private PROVE Spec => PrivateSpec
<1>1. Init => CountInv /\ MemInv /\ P!Init  BY CountInit, MemInit
<1>2. CountInv /\ MemInv /\ [Next]_vars => CountInv' /\ MemInv' /\ [P!Next]_View
  BY CountNext, MemNext
<1> QED  BY <1>1, <1>2, PTL DEF Spec, PrivateSpec, P!Spec

=============================================================================
