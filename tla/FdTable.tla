------------------------------ MODULE FdTable ------------------------------
(***************************************************************************)
(* File descriptors.  Every task has a descriptor table of its own: an     *)
(* array of open_file pointers, a bitmap of the descriptors in use and a   *)
(* hint where alloc_fd() starts to look.  dup2() and clone() share the     *)
(* open_file between slots and tasks and count the slots in its            *)
(* ref_count; an open_file and the working directory of a task hold a      *)
(* reference to a vfs node.  Tasks run on several CPUs: the steps of one   *)
(* task's call are interleaved with those of the others wherever the       *)
(* call has released the lock of the file.                                 *)
(***************************************************************************)
EXTENDS Integers, FiniteSets, FiniteSetsExt

CONSTANTS
  Tasks, First,      \* First is the task that init starts as
  Files,             \* open_file objects
  Nodes, Root,
  W,                 \* FD_BITS_PER_WORD
  INITIAL,           \* INITIAL_FD_CAPACITY
  DUP_LIMIT,         \* dup2() takes a newfd below this (512)
  MAX_CAP,           \* bound: the table does not grow beyond this
  MAX_LOST,          \* bound: references lost by failed clones
  None

VARIABLES
  tab,               \* tab[t]: fd_table, fd_bitmap, fd_capacity, next_fd_hint
  op,                \* op[t]: the call task t is in
  dying,             \* dying[t]: the file whose last reference t has dropped
  ref,               \* ref[f]: ref_count of an open_file
  node,              \* node[f]: the node an open file holds
  nref,              \* nref[n]: ref_count of a node
  linked,            \* the nodes the directory tree holds
  cwd,               \* cwd[t]
  lost               \* history: references left behind by failed clones

vars == <<tab, op, dying, ref, node, nref, linked, cwd, lost>>

Fds == 0 .. MAX_CAP - 1
NoTable == [cap |-> 0, slot |-> [i \in Fds |-> None], bits |-> {}, hint |-> 0]
Off == [k |-> "off"]
Run == [k |-> "run"]
InUse(t) == {i \in Fds : tab[t].slot[i] # None}

(* install_init_stdio(): descriptors 1 and 2 are the console, 0 is free.   *)
Init ==
  \E f \in Files :
    /\ tab = [t \in Tasks |-> IF t # First THEN NoTable
                ELSE [cap |-> INITIAL, bits |-> {1, 2}, hint |-> 3,
                      slot |-> [i \in Fds |-> IF i \in {1, 2} THEN f ELSE None]]]
    /\ op = [t \in Tasks |-> IF t = First THEN Run ELSE Off]
    /\ dying = [t \in Tasks |-> None]
    /\ ref = [g \in Files |-> IF g = f THEN 2 ELSE 0]
    /\ node = [g \in Files |-> IF g = f THEN Root ELSE None]
    /\ nref = [n \in Nodes |-> IF n = Root THEN 3 ELSE 1]
    /\ linked = Nodes
    /\ cwd = [t \in Tasks |-> IF t = First THEN Root ELSE None]
    /\ lost = [n \in Nodes |-> 0]

----------------------------------------------------------------------------
(* expand_table(): the capacity doubles until it suffices.  The heap may   *)
(* refuse either array; the table is then as it was.                       *)
Expanded(b, needed) == 
  [b EXCEPT !.cap = Min({c \in {@ * 2^k : k \in 0 .. needed} : c >= needed})]

(* alloc_fd(): the words from the hint's word on, then the ones before it. *)
WordOf(i) == i \div W
Clear(b) == (0 .. b.cap - 1) \ b.bits
FindFd(b) ==
  LET ahead == {i \in Clear(b) : WordOf(i) >= WordOf(b.hint)}
  IN IF ahead # {} THEN Min(ahead) ELSE Min(Clear(b))

AllocFd(b) == IF Clear(b) # {} THEN FindFd(b) ELSE b.cap
AfterAlloc(b, fd) ==
  [Expanded(b, fd + 1) EXCEPT !.bits = @ \cup {fd}, !.hint = fd + 1]

(* close_fd() and release_reserved_fd() on the table.                      *)
AfterClose(b, fd) ==
  [b EXCEPT !.slot[fd] = None, !.bits = @ \ {fd},
            !.hint = IF fd < @ THEN fd ELSE @]

(* reserve_fd(): a hint that points at fd moves past what is in use.       *)
AfterReserve(b, fd) ==
  LET used == b.bits \cup {fd}
      past == {i \in b.hint .. b.cap : i = b.cap \/ i \notin used}
  IN [b EXCEPT !.bits = used, !.hint = IF fd = @ THEN Min(past) ELSE @]


----------------------------------------------------------------------------
Running(t) == dying[t] = None /\ op[t] = Run

(* The nodes a path of the task can lead to: "." leads to a directory that *)
(* has been unlinked too.                                                  *)
Reachable(t) == linked \cup {cwd[t]}

(* sys_open().                                                             *)
Open(t, f, n) ==
  /\ Running(t) /\ n \in Reachable(t)
  /\ ref[f] = 0 /\ \A u \in Tasks : dying[u] # f
  /\ LET fd == AllocFd(tab[t])
         b == AfterAlloc(tab[t], fd) IN
       /\ b.cap <= MAX_CAP
       /\ tab' = [tab EXCEPT ![t] = [b EXCEPT !.slot[fd] = f]]
  /\ ref' = [ref EXCEPT ![f] = 1]
  /\ node' = [node EXCEPT ![f] = n]
  /\ nref' = [nref EXCEPT ![n] = @ + 1]
  /\ UNCHANGED <<op, dying, linked, cwd, lost>>

(* sys_open() when the open_file cannot be had or the device refuses: the  *)
(* node is put back and the descriptor is released.                        *)
OpenFails(t) ==
  /\ Running(t)
  /\ LET fd == AllocFd(tab[t])
         b == AfterAlloc(tab[t], fd) IN
       /\ b.cap <= MAX_CAP
       /\ tab' = [tab EXCEPT ![t] = AfterClose(b, fd)]
  /\ UNCHANGED <<op, dying, ref, node, nref, linked, cwd, lost>>

(* A slot gives up its reference under the lock of the file.               *)
Drop(t, f) ==
  /\ ref' = [ref EXCEPT ![f] = @ - 1]
  /\ dying' = [dying EXCEPT ![t] = IF ref[f] = 1 THEN f ELSE None]

(* close_fd(), up to the release of the lock.                              *)
Close(t, fd) ==
  /\ Running(t) /\ fd \in InUse(t)
  /\ Drop(t, tab[t].slot[fd])
  /\ tab' = [tab EXCEPT ![t] = AfterClose(@, fd)]
  /\ UNCHANGED <<op, node, nref, linked, cwd, lost>>

(* ... and what it does for the last reference: the node is put, the       *)
(* open_file is freed.                                                     *)
CloseFree(t) ==
  /\ dying[t] # None
  /\ nref' = [nref EXCEPT ![node[dying[t]]] = @ - 1]
  /\ node' = [node EXCEPT ![dying[t]] = None]
  /\ dying' = [dying EXCEPT ![t] = None]
  /\ UNCHANGED <<tab, op, ref, linked, cwd, lost>>

(* sys_dup2(), up to the end of close_fd(newfd): the table is expanded and *)
(* what newfd was is closed.                                               *)
Dup2(t, old, new) ==
  /\ Running(t) /\ old \in InUse(t) /\ new < DUP_LIMIT /\ old # new
  /\ LET b == Expanded(tab[t], new + 1) IN
       /\ b.cap <= MAX_CAP
       /\ IF b.slot[new] = None
            THEN tab' = [tab EXCEPT ![t] = b] /\ UNCHANGED <<ref, dying>>
            ELSE /\ Drop(t, b.slot[new])
                 /\ tab' = [tab EXCEPT ![t] = AfterClose(b, new)]
  /\ op' = [op EXCEPT ![t] = [k |-> "dup", new |-> new, file |-> tab[t].slot[old]]]
  /\ UNCHANGED <<node, nref, linked, cwd, lost>>

(* ... and its end: one more reference, the slot and the bit.              *)
Dup2Install(t) ==
  /\ dying[t] = None /\ op[t].k = "dup"
  /\ ref' = [ref EXCEPT ![op[t].file] = @ + 1]
  /\ tab' = [tab EXCEPT ![t] =
               AfterReserve([@ EXCEPT !.slot[op[t].new] = op[t].file], op[t].new)]
  /\ op' = [op EXCEPT ![t] = Run]
  /\ UNCHANGED <<dying, node, nref, linked, cwd, lost>>

----------------------------------------------------------------------------
(* clone(), up to the allocation of the child's table.                     *)
CloneStart(t, c) ==
  /\ Running(t) /\ op[c] = Off
  /\ tab' = [tab EXCEPT ![c] = [tab[t] EXCEPT !.slot = NoTable.slot]]
  /\ nref' = [nref EXCEPT ![cwd[t]] = @ + 1]
  /\ cwd' = [cwd EXCEPT ![c] = cwd[t]]
  /\ op' = [op EXCEPT ![t] = [k |-> "clone", child |-> c, i |-> 0], ![c] = [k |-> "new"]]
  /\ UNCHANGED <<dying, ref, node, linked, lost>>

\* Mutant: the copy is not counted.
SharedUncounted(f) == ref

(* ... one round of the loop that copies the descriptors ...               *)
Shared(f) == IF f = None THEN ref ELSE [ref EXCEPT ![f] = @ + 1]

CloneFd(t) ==
  /\ op[t].k = "clone" /\ op[t].i < tab[t].cap
  /\ LET f == tab[t].slot[op[t].i] IN
       /\ tab' = [tab EXCEPT ![op[t].child].slot[op[t].i] = f]
       /\ ref' = Shared(f)
  /\ op' = [op EXCEPT ![t].i = @ + 1]
  /\ UNCHANGED <<dying, node, nref, linked, cwd, lost>>

(* ... and its end: the child is enqueued.                                 *)
CloneDone(t) ==
  /\ op[t].k = "clone" /\ op[t].i = tab[t].cap
  /\ op' = [op EXCEPT ![t] = Run, ![op[t].child] = Run]
  /\ UNCHANGED <<tab, dying, ref, node, nref, linked, cwd, lost>>

(* An allocation of clone() fails, before the descriptors are copied or    *)
(* after; free_failed_clone() starts.                                      *)
CloneFails(t) ==
  /\ op[t].k = "clone" /\ op[t].i \in {0, tab[t].cap}
  /\ lost[cwd[op[t].child]] < MAX_LOST
  /\ op' = [op EXCEPT ![t] = [k |-> "undo", child |-> op[t].child, i |-> 0]]
  /\ UNCHANGED <<tab, dying, ref, node, nref, linked, cwd, lost>>

(* One round of the loop of release_fd_table_refs().                       *)
UndoFd(t) ==
  /\ dying[t] = None /\ op[t].k = "undo" /\ op[t].i < tab[op[t].child].cap
  /\ LET f == tab[op[t].child].slot[op[t].i] IN
       IF f = None THEN UNCHANGED <<ref, dying>> ELSE Drop(t, f)
  /\ tab' = [tab EXCEPT ![op[t].child].slot[op[t].i] = None]
  /\ op' = [op EXCEPT ![t].i = @ + 1]
  /\ UNCHANGED <<node, nref, linked, cwd, lost>>

(* The end of free_failed_clone(): the child's reference to its working    *)
(* directory is not put back.                                              *)
UndoDone(t) ==
  /\ dying[t] = None /\ op[t].k = "undo" /\ op[t].i = tab[op[t].child].cap
  /\ LET c == op[t].child IN
       /\ tab' = [tab EXCEPT ![c] = NoTable]
       /\ lost' = [lost EXCEPT ![cwd[c]] = @ + 1]
       /\ cwd' = [cwd EXCEPT ![c] = None]
       /\ op' = [op EXCEPT ![t] = Run, ![c] = Off]
  /\ UNCHANGED <<dying, ref, node, nref, linked>>

----------------------------------------------------------------------------
(* exit(), a fault or a kill: every descriptor is closed ...               *)
Exit(t) ==
  /\ Running(t)
  /\ op' = [op EXCEPT ![t] = [k |-> "exit", i |-> 0]]
  /\ UNCHANGED <<tab, dying, ref, node, nref, linked, cwd, lost>>

ExitFd(t) ==
  /\ dying[t] = None /\ op[t].k = "exit" /\ op[t].i < tab[t].cap
  /\ LET f == tab[t].slot[op[t].i] IN
       IF f = None THEN UNCHANGED <<tab, ref, dying>>
       ELSE /\ Drop(t, f)
            /\ tab' = [tab EXCEPT ![t] = AfterClose(@, op[t].i)]
  /\ op' = [op EXCEPT ![t].i = @ + 1]
  /\ UNCHANGED <<node, nref, linked, cwd, lost>>

(* ... and the parent's wait() frees what is left.                         *)
Reap(t) ==
  /\ dying[t] = None /\ op[t].k = "exit" /\ op[t].i = tab[t].cap
  /\ nref' = [nref EXCEPT ![cwd[t]] = @ - 1]
  /\ tab' = [tab EXCEPT ![t] = NoTable]
  /\ cwd' = [cwd EXCEPT ![t] = None]
  /\ op' = [op EXCEPT ![t] = Off]
  /\ UNCHANGED <<dying, ref, node, linked, lost>>

(* sys_chdir(): the new directory is held before the old one is put.       *)
Chdir(t, n) ==
  /\ Running(t) /\ n \in Reachable(t)
  /\ nref' = [[nref EXCEPT ![n] = @ + 1] EXCEPT ![cwd[t]] = @ - 1]
  /\ cwd' = [cwd EXCEPT ![t] = n]
  /\ UNCHANGED <<tab, op, dying, ref, node, linked, lost>>

(* vfs::unlink() of a node that lives in memory.                           *)
Unlink(n) ==
  /\ n \in linked \ {Root}
  /\ linked' = linked \ {n}
  /\ nref' = [nref EXCEPT ![n] = @ - 1]
  /\ UNCHANGED <<tab, op, dying, ref, node, cwd, lost>>

Next ==
  \/ \E t \in Tasks :
       \/ \E f \in Files, n \in Nodes : Open(t, f, n)
       \/ OpenFails(t)
       \/ \E fd \in Fds : Close(t, fd)
       \/ CloseFree(t)
       \/ \E old, new \in Fds : Dup2(t, old, new)
       \/ Dup2Install(t)
       \/ \E c \in Tasks \ {t} : CloneStart(t, c)
       \/ CloneFd(t) \/ CloneDone(t)
       \/ CloneFails(t) \/ UndoFd(t) \/ UndoDone(t)
       \/ Exit(t) \/ ExitFd(t) \/ Reap(t)
       \/ \E n \in Nodes : Chdir(t, n)
  \/ \E n \in Nodes : Unlink(n)

Spec == Init /\ [][Next]_vars

----------------------------------------------------------------------------
TypeOK ==
  /\ \A t \in Tasks :
       /\ tab[t].cap \in 0 .. MAX_CAP /\ tab[t].hint \in 0 .. tab[t].cap
       /\ tab[t].bits \subseteq 0 .. tab[t].cap - 1
       /\ tab[t].slot \in [Fds -> Files \cup {None}]
       /\ InUse(t) \subseteq 0 .. tab[t].cap - 1
  /\ dying \in [Tasks -> Files \cup {None}]
  /\ ref \in [Files -> Nat] /\ node \in [Files -> Nodes \cup {None}]
  /\ nref \in [Nodes -> Nat] /\ linked \subseteq Nodes
  /\ cwd \in [Tasks -> Nodes \cup {None}] /\ lost \in [Nodes -> 0 .. MAX_LOST]

(* fd.cpp, sys_dup2(), clone(): the ref_count of an open_file is the       *)
(* number of slots, in the tables of all tasks, that point to it; so no    *)
(* slot points to an open_file that has been freed, and the last close     *)
(* frees it.                                                               *)
RefExact ==
  \A f \in Files :
    ref[f] = Cardinality({s \in Tasks \X Fds : tab[s[1]].slot[s[2]] = f})

(* fd.cpp, sys_open(), sys_chdir(), scheduler.cpp: a node's ref_count is   *)
(* what the tree, the open files and the working directories hold, plus    *)
(* the working directories of clones that failed, which nobody puts back.  *)
NodeExact ==
  \A n \in Nodes :
    nref[n] = Cardinality({f \in Files : node[f] = n})
              + Cardinality({t \in Tasks : cwd[t] = n})
              + Cardinality({n} \cap linked) + lost[n]

(* fd.cpp: between calls the bitmap of a task marks the slots in use and   *)
(* no other, in the table a clone has inherited too.                       *)
BitmapAgrees ==
  \A t \in Tasks : op[t].k \in {"run", "dup", "exit"} => tab[t].bits = InUse(t)

(* alloc_fd(): sys_open() never takes a descriptor that is in use, and the *)
(* table grows for it only when every descriptor of it is in use.          *)
TakesFree ==
  \A t \in Tasks : \A i \in Fds :
     op[t] = Run /\ op'[t] = Run /\ tab'[t].slot[i] \notin {None, tab[t].slot[i]}
       => /\ i \notin InUse(t)
          /\ i >= tab[t].cap => InUse(t) = 0 .. tab[t].cap - 1
=============================================================================
