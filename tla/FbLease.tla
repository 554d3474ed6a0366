------------------------------ MODULE FbLease ------------------------------
(***************************************************************************)
(* /dev/fb0: a task that wants to draw acquires a lease, which takes the   *)
(* framebuffer away from the console.  Every open file of the device has a *)
(* state that remembers the task that opened it and whether it owns the    *)
(* lease; the lease counts the files of its owner.  The console's claim is *)
(* kept behind another lock and changes after the lease's lock has been    *)
(* released.  Open files are shared through clone().                       *)
(***************************************************************************)
EXTENDS Naturals, FiniteSets, FiniteSetTheorems, TLAPS

CONSTANTS
  Tasks, First,      \* First runs at the start, the others are its descendants
  Files,
  UP,                \* one CPU: a command runs to its end
  INHERIT,           \* tasks clone with the device open
  None

VARIABLES
  status,            \* status[t]: "none", "alive" or "dead"; an id is not used again
  fb_lease_owner, fb_lease_refs,
  state,             \* state[f]: fb_file_state of an open file
  holders,           \* holders[f]: tasks with a descriptor of the file
  console_claimed,
  todo               \* todo[t]: the call on the console that t has still to make

vars == <<status, fb_lease_owner, fb_lease_refs, state, holders, console_claimed, todo>>

Closed == [task_id |-> None, owns |-> FALSE]

Init ==
  /\ status = [t \in Tasks |-> IF t = First THEN "alive" ELSE "none"]
  /\ fb_lease_owner = None /\ fb_lease_refs = 0
  /\ state = [f \in Files |-> Closed]
  /\ holders = [f \in Files |-> {}]
  /\ console_claimed = FALSE
  /\ todo = [t \in Tasks |-> "nothing"]

Active(t) ==
  /\ status[t] = "alive" /\ todo[t] = "nothing"
  /\ UP => \A u \in Tasks : todo[u] = "nothing"

(* fb_open().                                                              *)
Open(t, f) ==
  /\ Active(t) /\ holders[f] = {}
  /\ state' = [state EXCEPT ![f] = [task_id |-> t, owns |-> FALSE]]
  /\ holders' = [holders EXCEPT ![f] = {t}]
  /\ UNCHANGED <<status, fb_lease_owner, fb_lease_refs, console_claimed, todo>>

(* clone(): the child has the descriptors of its parent.                   *)
Clone(t, u) ==
  /\ Active(t) /\ status[u] = "none"
  /\ INHERIT \/ \A f \in Files : t \notin holders[f]
  /\ status' = [status EXCEPT ![u] = "alive"]
  /\ holders' = [f \in Files |-> IF t \in holders[f] THEN holders[f] \cup {u} ELSE holders[f]]
  /\ UNCHANGED <<fb_lease_owner, fb_lease_refs, state, console_claimed, todo>>

\* Mutant: a lease is taken over.
MayAlwaysAcquire(f) == TRUE

(* fb_write_file(), FB_CMD_ACQUIRE, up to the release of fb_lease_lock.    *)
MayAcquire(f) == fb_lease_owner \in {None, state[f].task_id}

Counted(f) == state[f].owns

Acquire(t, f) ==
  /\ Active(t) /\ t \in holders[f] /\ MayAcquire(f)
  /\ IF Counted(f) THEN UNCHANGED <<fb_lease_owner, fb_lease_refs, state>>
     ELSE /\ fb_lease_owner' = state[f].task_id
          /\ fb_lease_refs' = fb_lease_refs + 1
          /\ state' = [state EXCEPT ![f].owns = TRUE]
  /\ todo' = [todo EXCEPT ![t] = "claim"]
  /\ UNCHANGED <<status, holders, console_claimed>>

(* framebuffer::claim_console(true).                                       *)
Claim(t) ==
  /\ todo[t] = "claim"
  /\ console_claimed' = TRUE
  /\ todo' = [todo EXCEPT ![t] = "nothing"]
  /\ UNCHANGED <<status, fb_lease_owner, fb_lease_refs, state, holders>>

(* fb_drop_lease() under fb_lease_lock.                                    *)
LastRef(f) == state[f].owns /\ fb_lease_owner = state[f].task_id /\ fb_lease_refs = 1
DropLease(t, f) ==
  LET mine == state[f].owns /\ fb_lease_owner = state[f].task_id /\ fb_lease_refs > 0 IN
  /\ fb_lease_refs' = IF mine THEN fb_lease_refs - 1 ELSE fb_lease_refs
  /\ fb_lease_owner' = IF LastRef(f) THEN None ELSE fb_lease_owner
  /\ todo' = [todo EXCEPT ![t] = IF LastRef(f) THEN "unclaim" ELSE "nothing"]

(* framebuffer::release_console_claim(): claim_console() left no owner, so *)
(* the claim is released whoever asks.                                     *)
Unclaim(t) ==
  /\ todo[t] = "unclaim"
  /\ console_claimed' = FALSE
  /\ todo' = [todo EXCEPT ![t] = "nothing"]
  /\ UNCHANGED <<status, fb_lease_owner, fb_lease_refs, state, holders>>

(* FB_CMD_RELEASE, for a file that owns the lease.                         *)
Release(t, f) ==
  /\ Active(t) /\ t \in holders[f]
  /\ state[f].owns /\ fb_lease_owner = state[f].task_id /\ fb_lease_refs > 0
  /\ DropLease(t, f)
  /\ state' = [state EXCEPT ![f].owns = FALSE]
  /\ UNCHANGED <<status, holders, console_claimed>>

(* close(): the last descriptor of the file calls fb_close().              *)
CloseDrops(t, f) == holders[f] = {t}

CloseFile(t, f) ==
  /\ t \in holders[f]
  /\ holders' = [holders EXCEPT ![f] = @ \ {t}]
  /\ IF CloseDrops(t, f) THEN DropLease(t, f) ELSE UNCHANGED <<fb_lease_refs, fb_lease_owner, todo>>
  /\ state' = IF holders[f] = {t} THEN [state EXCEPT ![f] = Closed] ELSE state

Close(t, f) ==
  /\ Active(t) /\ CloseFile(t, f)
  /\ UNCHANGED <<status, console_claimed>>

(* exit(): devfs_release_task_resources() takes the lease of the task ...  *)
Exit(t) ==
  /\ Active(t)
  /\ status' = [status EXCEPT ![t] = "dead"]
  /\ IF fb_lease_owner = t
       THEN /\ fb_lease_owner' = None /\ fb_lease_refs' = 0
            /\ todo' = [todo EXCEPT ![t] = "unclaim"]
       ELSE UNCHANGED <<fb_lease_owner, fb_lease_refs, todo>>
  /\ UNCHANGED <<state, holders, console_claimed>>

(* ... which a kill or a fault does not ...                                *)
Killed(t) ==
  /\ Active(t)
  /\ status' = [status EXCEPT ![t] = "dead"]
  /\ UNCHANGED <<fb_lease_owner, fb_lease_refs, todo, state, holders, console_claimed>>

(* ... and then the descriptors are closed.                                *)
ExitClose(t, f) ==
  /\ status[t] = "dead" /\ todo[t] = "nothing"
  /\ UP => \A u \in Tasks : todo[u] = "nothing"
  /\ CloseFile(t, f)
  /\ UNCHANGED <<status, console_claimed>>

Next ==
  \E t \in Tasks :
    \/ \E f \in Files :
         \/ Open(t, f) \/ Acquire(t, f) \/ Release(t, f) \/ Close(t, f) \/ ExitClose(t, f)
    \/ \E u \in Tasks : Clone(t, u)
    \/ Claim(t) \/ Unclaim(t) \/ Exit(t) \/ Killed(t)

Spec == Init /\ [][Next]_vars

----------------------------------------------------------------------------
TypeOK ==
  /\ status \in [Tasks -> {"none", "alive", "dead"}]
  /\ fb_lease_owner \in Tasks \cup {None} /\ fb_lease_refs \in 0 .. Cardinality(Files)
  /\ state \in [Files -> [task_id : Tasks \cup {None}, owns : BOOLEAN]]
  /\ holders \in [Files -> SUBSET Tasks]
  /\ console_claimed \in BOOLEAN
  /\ todo \in [Tasks -> {"nothing", "claim", "unclaim"}]

(* device.cpp, fb_write_file(), fb_drop_lease(): the lease counts the open *)
(* files of its owner that acquired it, and nobody owns a lease that       *)
(* counts none.  With files that outlive the task that opened them this    *)
(* fails: a lease taken back at exit leaves owns_lease behind.             *)
LeaseCounted ==
  IF fb_lease_owner = None THEN fb_lease_refs = 0
  ELSE fb_lease_refs = Cardinality({f \in Files : state[f].owns /\ state[f].task_id = fb_lease_owner})

(* device.cpp: a lease always has an open file that will give it back, so  *)
(* that it is free again when every file has been closed, also when the    *)
(* owner was killed and its children hold the file.                        *)
LeaseNotStranded ==
  fb_lease_owner # None =>
    \E f \in Files : holders[f] # {} /\ state[f].owns /\ state[f].task_id = fb_lease_owner

(* device.cpp and framebuffer.cpp on one CPU, files not inherited: between *)
(* commands the console leaves the screen alone exactly while the lease is *)
(* held.                                                                   *)
ConsoleFollowsLease ==
  (\A t \in Tasks : todo[t] = "nothing") => (console_claimed <=> fb_lease_owner # None)

----------------------------------------------------------------------------
(* Proofs, for any number of tasks and files.                              *)

\* The open files of a task that acquired the lease.
Owning(o) == {f \in Files : state[f].owns /\ state[f].task_id = o}

\* What the lease is worth in every setting: it counts at most the files that
\* can give it back, so that it has one while it is held.  It may count fewer:
\* one taken back at exit leaves owns_lease behind in files that live on.
LeaseInv ==
  /\ TypeOK
  /\ \A f \in Files : IF holders[f] = {} THEN ~state[f].owns ELSE state[f].task_id # None
  /\ fb_lease_owner = None => fb_lease_refs = 0
  /\ fb_lease_owner # None => fb_lease_refs \in 1 .. Cardinality(Owning(fb_lease_owner))

\* Without inheritance a file stays with the task that opened it; only the
\* files of the owner and of the dead own the lease.
CountInv ==
  /\ \A f \in Files : holders[f] \subseteq {state[f].task_id}
  /\ \A f \in Files : state[f].owns =>
       state[f].task_id = fb_lease_owner \/ status[state[f].task_id] = "dead"
  /\ LeaseCounted

\* On one CPU at most one command is between the two locks.
ConsoleInv ==
  /\ \A t, u \in Tasks : todo[t] # "nothing" /\ todo[u] # "nothing" => t = u
  /\ \A t \in Tasks : /\ todo[t] = "claim" => fb_lease_owner # None
                      /\ todo[t] = "unclaim" => fb_lease_owner = None
  /\ ConsoleFollowsLease

\* There are finitely many files, and the first task is one.
Finite == IsFiniteSet(Files) /\ First \in Tasks /\ None \notin Tasks

\* The files of an owner can be counted, and counting none is owning none.
LEMMA OwningFinite ==
  ASSUME Finite, NEW o
  PROVE  /\ IsFiniteSet(Owning(o)) /\ Cardinality(Owning(o)) \in 0 .. Cardinality(Files)
         /\ Cardinality(Owning(o)) = 0 <=> Owning(o) = {}
<1>1. Owning(o) \in SUBSET Files
  BY DEF Owning
<1>2. IsFiniteSet(Owning(o)) /\ Cardinality(Owning(o)) <= Cardinality(Files)
  BY <1>1, FS_Subset DEF Finite
<1>3. Cardinality(Owning(o)) \in Nat /\ Cardinality(Files) \in Nat
  BY <1>2, FS_CardinalityType DEF Finite
<1>4. QED
  BY <1>2, <1>3, FS_EmptySet

\* The same after a step.
LEMMA OwningFiniteNext ==
  ASSUME Finite, NEW o
  PROVE  Cardinality(Owning(o)') \in 0 .. Cardinality(Files)
<1>1. Owning(o)' \in SUBSET Files
  BY DEF Owning
<1>2. IsFiniteSet(Owning(o)') /\ Cardinality(Owning(o)') <= Cardinality(Files)
  BY <1>1, FS_Subset DEF Finite
<1>3. Cardinality(Owning(o)') \in Nat /\ Cardinality(Files) \in Nat
  BY <1>2, FS_CardinalityType DEF Finite
<1>4. QED
  BY <1>2, <1>3

\* A file that begins to own the lease is one more for the task that opened it
\* (fb_write_file, FB_CMD_ACQUIRE).
LEMMA OneMore ==
  ASSUME Finite, TypeOK, NEW f \in Files, NEW o, state[f].task_id = o, ~state[f].owns,
         state' = [state EXCEPT ![f].owns = TRUE]
  PROVE  Cardinality(Owning(o)') = Cardinality(Owning(o)) + 1
<1>1. f \notin Owning(o) /\ Owning(o)' = Owning(o) \cup {f}
  BY DEF TypeOK, Owning
<1>2. QED
  BY <1>1, OwningFinite, FS_AddElement

\* A file that no longer owns the lease is one less, if it did
\* (fb_drop_lease, fb_close).
LEMMA OneLess ==
  ASSUME Finite, TypeOK, NEW f \in Files, NEW r, ~r.owns, state' = [state EXCEPT ![f] = r]
  PROVE  \A o : /\ Owning(o)' = Owning(o) \ {f}
                /\ Cardinality(Owning(o)') = IF f \in Owning(o) THEN Cardinality(Owning(o)) - 1
                                             ELSE Cardinality(Owning(o))
<1>1. \A o : Owning(o)' = Owning(o) \ {f}
  BY DEF TypeOK, Owning
<1>2. QED
  BY <1>1, OwningFinite, FS_RemoveElement

\* fb_drop_lease() for a file that stops owning the lease keeps the count within
\* the files that are left, and the lease is free when it counts none.
LEMMA DropKeeps ==
  ASSUME Finite, LeaseInv, NEW t \in Tasks, NEW f \in Files, NEW r, ~r.owns,
         state' = [state EXCEPT ![f] = r], DropLease(t, f)
  PROVE  /\ fb_lease_owner' \in Tasks \cup {None} /\ fb_lease_refs' \in 0 .. Cardinality(Files)
         /\ todo' \in [Tasks -> {"nothing", "claim", "unclaim"}]
         /\ fb_lease_owner' = None => fb_lease_refs' = 0
         /\ fb_lease_owner' # None =>
              /\ fb_lease_owner' = fb_lease_owner
              /\ fb_lease_refs' \in 1 .. Cardinality(Owning(fb_lease_owner)')
         /\ fb_lease_owner' = None /\ fb_lease_owner # None => LastRef(f)
<1> PICK o : o = fb_lease_owner
  OBVIOUS
<1>1. Cardinality(Owning(o)) \in 0 .. Cardinality(Files) /\ Cardinality(Files) \in Nat
  BY OwningFinite, FS_CardinalityType DEF Finite
<1>2. Cardinality(Owning(o)') = IF f \in Owning(o) THEN Cardinality(Owning(o)) - 1 ELSE Cardinality(Owning(o))
  BY OneLess DEF LeaseInv
<1>3. f \in Owning(o) <=> state[f].owns /\ o = state[f].task_id
  BY DEF Owning
<1>4. todo' \in [Tasks -> {"nothing", "claim", "unclaim"}]
  BY DEF DropLease, LeaseInv, TypeOK
<1>5. CASE o = None
  BY <1>1, <1>4, <1>5 DEF DropLease, LastRef, LeaseInv, TypeOK
<1>6. CASE o # None /\ f \in Owning(o)
  BY <1>1, <1>2, <1>3, <1>4, <1>6 DEF DropLease, LastRef, LeaseInv, TypeOK
<1>7. CASE o # None /\ f \notin Owning(o)
  BY <1>1, <1>2, <1>3, <1>4, <1>7 DEF DropLease, LastRef, LeaseInv, TypeOK
<1>8. QED
  BY <1>5, <1>6, <1>7

\* close() of a descriptor keeps the lease's count.
LEMMA CloseKeeps ==
  ASSUME Finite, LeaseInv, NEW t \in Tasks, NEW f \in Files, CloseFile(t, f),
         UNCHANGED <<status, console_claimed>>
  PROVE  LeaseInv'
<1>0. holders' \in [Files -> SUBSET Tasks] /\ state' \in [Files -> [task_id : Tasks \cup {None}, owns : BOOLEAN]]
  BY DEF CloseFile, LeaseInv, TypeOK, Closed
<1>1. CASE holders[f] = {t}
  <2>1. ~Closed.owns /\ state' = [state EXCEPT ![f] = Closed] /\ DropLease(t, f)
    BY <1>1 DEF CloseFile, CloseDrops, Closed
  <2>2. TypeOK'
    BY <1>0, <2>1, DropKeeps DEF LeaseInv, TypeOK
  <2>3. \A g \in Files : IF holders'[g] = {} THEN ~state'[g].owns ELSE state'[g].task_id # None
    BY <2>1 DEF CloseFile, LeaseInv, TypeOK
  <2>4. QED
    BY <2>1, <2>2, <2>3, DropKeeps DEF LeaseInv
<1>2. CASE holders[f] # {t}
  <2>1. UNCHANGED <<fb_lease_refs, fb_lease_owner, todo, state>>
    BY <1>2 DEF CloseFile, CloseDrops
  <2>2. TypeOK'
    BY <1>0, <2>1 DEF LeaseInv, TypeOK
  <2>3. \A g \in Files : IF holders'[g] = {} THEN ~state'[g].owns ELSE state'[g].task_id # None
    BY <1>2, <2>1 DEF CloseFile, LeaseInv, TypeOK
  <2>4. \A o : Owning(o)' = Owning(o)
    BY <2>1 DEF Owning
  <2>5. QED
    BY <2>1, <2>2, <2>3, <2>4 DEF LeaseInv
<1>3. QED
  BY <1>1, <1>2

\* No step leaves a lease that counts more files than can give it back.
LEMMA LeaseStep == ASSUME Finite PROVE LeaseInv /\ [Next]_vars => LeaseInv'
<1> SUFFICES ASSUME LeaseInv, [Next]_vars PROVE LeaseInv'
  OBVIOUS
<1>0. Cardinality(Files) \in Nat
  BY FS_CardinalityType DEF Finite
<1>1. CASE UNCHANGED vars
  BY <1>1 DEF vars, LeaseInv, TypeOK, Owning
<1>2. ASSUME NEW t \in Tasks, NEW f \in Files, Open(t, f) PROVE LeaseInv'
  <2>1. \A o : Owning(o)' = Owning(o)
    BY <1>2 DEF Open, LeaseInv, TypeOK, Owning
  <2>2. TypeOK' /\ \A g \in Files : IF holders'[g] = {} THEN ~state'[g].owns ELSE state'[g].task_id # None
    BY <1>2 DEF Finite, Open, LeaseInv, TypeOK
  <2>3. QED
    BY <1>2, <2>1, <2>2 DEF Open, LeaseInv
<1>3. ASSUME NEW t \in Tasks, NEW f \in Files, Acquire(t, f) PROVE LeaseInv'
  <2>1. CASE state[f].owns
    <3>1. TypeOK' /\ UNCHANGED <<holders, state, fb_lease_owner, fb_lease_refs>>
      BY <1>3, <2>1 DEF Acquire, Counted, LeaseInv, TypeOK
    <3>2. QED
      BY <3>1 DEF LeaseInv, Owning
  <2>2. CASE ~state[f].owns
    <3> PICK o : o = state[f].task_id
      OBVIOUS
    <3>1. /\ state' = [state EXCEPT ![f].owns = TRUE] /\ holders[f] # {}
          /\ fb_lease_owner' = o /\ fb_lease_refs' = fb_lease_refs + 1 /\ fb_lease_owner \in {None, o}
          /\ UNCHANGED holders
      BY <1>3, <2>2 DEF Acquire, Counted, MayAcquire
    <3>2. /\ Cardinality(Owning(o)') = Cardinality(Owning(o)) + 1
          /\ Cardinality(Owning(o)) \in 0 .. Cardinality(Files) /\ Cardinality(Owning(o)') \in 0 .. Cardinality(Files)
      BY <2>2, <3>1, OneMore, OwningFinite, OwningFiniteNext DEF LeaseInv
    <3>3. fb_lease_refs \in Nat /\ fb_lease_refs <= Cardinality(Owning(o))
      BY <3>1, <3>2 DEF LeaseInv, TypeOK
    <3>4. /\ state' \in [Files -> [task_id : Tasks \cup {None}, owns : BOOLEAN]]
          /\ todo' \in [Tasks -> {"nothing", "claim", "unclaim"}]
          /\ fb_lease_owner' \in Tasks \cup {None} /\ status' \in [Tasks -> {"none", "alive", "dead"}]
          /\ console_claimed' \in BOOLEAN
      BY <1>3, <3>1 DEF Acquire, LeaseInv, TypeOK
    <3>5. fb_lease_refs' \in 0 .. Cardinality(Files) /\ fb_lease_refs' \in 1 .. Cardinality(Owning(o)')
      BY <1>0, <3>1, <3>2, <3>3
    <3>6. TypeOK'
      BY <3>1, <3>4, <3>5 DEF LeaseInv, TypeOK
    <3>7. \A g \in Files : IF holders'[g] = {} THEN ~state'[g].owns ELSE state'[g].task_id # None
      BY <3>1 DEF LeaseInv, TypeOK
    <3>8. o # None
      BY <1>3, <3>1 DEF LeaseInv, TypeOK, Acquire
    <3>9. QED
      BY <3>1, <3>5, <3>6, <3>7, <3>8 DEF LeaseInv
  <2>3. QED
    BY <2>1, <2>2
<1>4. ASSUME NEW t \in Tasks, NEW f \in Files, Release(t, f) PROVE LeaseInv'
  <2> DEFINE r == [state[f] EXCEPT !.owns = FALSE]
  <2>1. ~r.owns /\ state' = [state EXCEPT ![f] = r] /\ DropLease(t, f)
    BY <1>4 DEF Release, LeaseInv, TypeOK
  <2> HIDE DEF r
  <2>2. TypeOK'
    <3>1. /\ state' \in [Files -> [task_id : Tasks \cup {None}, owns : BOOLEAN]]
          /\ UNCHANGED <<status, holders, console_claimed>>
      BY <1>4 DEF Release, LeaseInv, TypeOK
    <3>2. QED
      BY <2>1, <3>1, DropKeeps DEF LeaseInv, TypeOK
  <2>3. \A g \in Files : IF holders'[g] = {} THEN ~state'[g].owns ELSE state'[g].task_id # None
    BY <1>4, <2>1 DEF Release, LeaseInv, TypeOK
  <2>4. QED
    BY <2>1, <2>2, <2>3, DropKeeps DEF LeaseInv
<1>5. ASSUME NEW t \in Tasks, NEW f \in Files, Close(t, f) \/ ExitClose(t, f) PROVE LeaseInv'
  BY <1>5, CloseKeeps DEF Close, ExitClose
<1>6. ASSUME NEW t \in Tasks, NEW u \in Tasks, Clone(t, u) PROVE LeaseInv'
  <2>1. TypeOK'
    BY <1>6 DEF Clone, LeaseInv, TypeOK
  <2>2. \A g \in Files : IF holders'[g] = {} THEN ~state'[g].owns ELSE state'[g].task_id # None
    BY <1>6 DEF Clone, LeaseInv, TypeOK
  <2>3. QED
    BY <1>6, <2>1, <2>2 DEF Clone, LeaseInv, Owning
<1>7. ASSUME NEW t \in Tasks, Claim(t) \/ Unclaim(t) \/ Killed(t) PROVE LeaseInv'
  <2>1. TypeOK'
    BY <1>7 DEF Claim, Unclaim, Killed, LeaseInv, TypeOK
  <2>2. UNCHANGED <<state, holders, fb_lease_owner, fb_lease_refs>>
    BY <1>7 DEF Claim, Unclaim, Killed
  <2>3. QED
    BY <2>1, <2>2 DEF LeaseInv, Owning
<1>8. ASSUME NEW t \in Tasks, Exit(t) PROVE LeaseInv'
  <2>1. TypeOK'
    BY <1>0, <1>8 DEF Exit, LeaseInv, TypeOK
  <2>2. CASE fb_lease_owner = t
    BY <1>8, <2>1, <2>2 DEF Exit, LeaseInv
  <2>3. CASE fb_lease_owner # t
    BY <1>8, <2>1, <2>3 DEF Exit, LeaseInv, Owning
  <2>4. QED
    BY <2>2, <2>3
<1>9. QED
  BY <1>1, <1>2, <1>3, <1>4, <1>5, <1>6, <1>7, <1>8 DEF Next

\* Nothing is open and nobody holds the lease at the start.
LEMMA LeaseStarts == ASSUME Finite PROVE Init => LeaseInv
<1> SUFFICES ASSUME Init PROVE LeaseInv
  OBVIOUS
<1>1. Cardinality(Files) \in Nat
  BY FS_CardinalityType DEF Finite
<1>2. TypeOK
  <2>1. status \in [Tasks -> {"none", "alive", "dead"}] /\ todo \in [Tasks -> {"nothing", "claim", "unclaim"}]
    BY DEF Init
  <2>2. state \in [Files -> [task_id : Tasks \cup {None}, owns : BOOLEAN]]
    BY DEF Init, Closed
  <2>3. holders \in [Files -> SUBSET Tasks]
    BY DEF Init
  <2>4. console_claimed \in BOOLEAN
    BY Zenon DEF Init
  <2>5. QED
    BY <1>1, <2>1, <2>2, <2>3, <2>4 DEF Init, TypeOK
<1>3. QED
  BY <1>2 DEF Finite, Init, Closed, LeaseInv

\* A lease that is held has an open file that will give it back, for any number
\* of tasks and files, on any number of CPUs, with files inherited or not, also
\* when its owner was killed (fb_write_file, fb_drop_lease, fb_close,
\* devfs_release_task_resources).
THEOREM LeaseIsNotStranded == ASSUME Finite PROVE Spec => []LeaseNotStranded
<1>1. LeaseInv => LeaseNotStranded
  <2> SUFFICES ASSUME LeaseInv, fb_lease_owner # None PROVE LeaseNotStranded
    BY DEF LeaseNotStranded
  <2>1. Owning(fb_lease_owner) # {}
    BY OwningFinite, FS_CardinalityType DEF LeaseInv, Finite
  <2>2. QED
    BY <2>1 DEF LeaseInv, LeaseNotStranded, Owning
<1>2. QED
  BY <1>1, LeaseStarts, LeaseStep, PTL DEF Spec

\* Without inheritance fb_drop_lease() keeps the count exact, and frees the lease
\* only with the last file of its owner.
LEMMA DropCounts ==
  ASSUME Finite, LeaseInv, CountInv, NEW t \in Tasks, NEW f \in Files, NEW r, ~r.owns,
         state' = [state EXCEPT ![f] = r], DropLease(t, f), UNCHANGED status
  PROVE  /\ LeaseCounted'
         /\ \A g \in Files : state'[g].owns =>
              state'[g].task_id = fb_lease_owner' \/ status'[state'[g].task_id] = "dead"
<1> PICK o : o = fb_lease_owner
  OBVIOUS
<1>1. /\ Cardinality(Owning(o)) \in 0 .. Cardinality(Files) /\ Cardinality(Files) \in Nat
      /\ Owning(o)' = Owning(o) \ {f}
      /\ Cardinality(Owning(o)') = IF f \in Owning(o) THEN Cardinality(Owning(o)) - 1 ELSE Cardinality(Owning(o))
  BY OwningFinite, OneLess, FS_CardinalityType DEF LeaseInv, Finite
<1>2. f \in Owning(o) <=> state[f].owns /\ o = state[f].task_id
  BY DEF Owning
<1>3. o # None => fb_lease_refs = Cardinality(Owning(o)) /\ fb_lease_refs > 0
  BY <1>1 DEF LeaseInv, CountInv, LeaseCounted, Owning
<1>4. \A g \in Files : g # f => state'[g] = state[g]
  BY DEF LeaseInv, TypeOK
<1>5. state'[f] = r
  BY DEF LeaseInv, TypeOK
<1>6. CASE o = None
  <2>1. fb_lease_owner' = None /\ fb_lease_refs' = 0
    BY <1>6 DEF DropLease, LastRef, LeaseInv, TypeOK
  <2>2. QED
    BY <1>4, <1>5, <1>6, <2>1 DEF CountInv, LeaseCounted
<1>7. CASE o # None /\ LastRef(f)
  <2>1. fb_lease_owner' = None /\ fb_lease_refs' = 0
    BY <1>7 DEF DropLease, LastRef
  <2>2. Cardinality(Owning(o)') = 0
    BY <1>1, <1>2, <1>3, <1>7 DEF LastRef
  <2>3. Owning(o)' = {}
    <3>1. IsFiniteSet(Owning(o)')
      BY <1>1, OwningFinite, FS_RemoveElement
    <3>2. QED
      BY <2>2, <3>1, FS_EmptySet
  <2>4. \A g \in Files : state'[g].owns => state'[g].task_id # o
    BY <2>3 DEF Owning
  <2>5. QED
    BY <1>4, <1>5, <2>1, <2>4 DEF CountInv, LeaseCounted
<1>8. CASE o # None /\ ~LastRef(f)
  <2>1. fb_lease_owner' = o /\ fb_lease_refs' = Cardinality(Owning(o)')
    BY <1>1, <1>2, <1>3, <1>8 DEF DropLease
  <2>2. LeaseCounted'
    BY <1>8, <2>1 DEF LeaseCounted, Owning
  <2>3. QED
    BY <1>4, <1>5, <2>1, <2>2 DEF CountInv
<1>9. QED
  BY <1>6, <1>7, <1>8

\* close() keeps the count exact without inheritance.
LEMMA CloseCounts ==
  ASSUME Finite, LeaseInv, CountInv, NEW t \in Tasks, NEW f \in Files, CloseFile(t, f),
         UNCHANGED <<status, console_claimed>>
  PROVE  CountInv'
<1>1. holders[f] = {t}
  BY DEF CloseFile, CountInv
<1>2. ~Closed.owns /\ state' = [state EXCEPT ![f] = Closed] /\ DropLease(t, f)
  BY <1>1 DEF CloseFile, CloseDrops, Closed
<1>3. \A g \in Files : holders'[g] \subseteq {state'[g].task_id}
  BY <1>1, <1>2 DEF CloseFile, CountInv, LeaseInv, TypeOK
<1>4. QED
  BY <1>2, <1>3, DropCounts DEF CountInv

\* Without inheritance an open file that acquires belongs to a live task, and if
\* it owns the lease already, its task does.
LEMMA AcquiredByOwner ==
  ASSUME Finite, LeaseInv, CountInv, NEW t \in Tasks, NEW f \in Files, Acquire(t, f)
  PROVE  /\ state[f].task_id = t /\ status[t] = "alive"
         /\ \A g \in Files : state[g].owns /\ state[g].task_id = t => fb_lease_owner = t
<1>1. state[f].task_id = t /\ status[t] = "alive"
  BY DEF Acquire, Active, CountInv
<1>2. QED
  BY <1>1 DEF CountInv

\* Without inheritance no step makes the count wrong.
LEMMA CountStep == ASSUME Finite, ~INHERIT PROVE LeaseInv /\ CountInv /\ [Next]_vars => CountInv'
<1> SUFFICES ASSUME LeaseInv, CountInv, [Next]_vars PROVE CountInv'
  OBVIOUS
<1>1. CASE UNCHANGED vars
  BY <1>1 DEF vars, CountInv, LeaseCounted
<1>2. ASSUME NEW t \in Tasks, NEW f \in Files, Open(t, f) PROVE CountInv'
  <2>1. \A o : Owning(o)' = Owning(o)
    BY <1>2 DEF Open, LeaseInv, TypeOK, Owning
  <2>2. LeaseCounted'
    <3>1. {g \in Files : state'[g].owns /\ state'[g].task_id = fb_lease_owner}
            = {g \in Files : state[g].owns /\ state[g].task_id = fb_lease_owner}
      BY <2>1 DEF Owning
    <3>2. QED
      BY <1>2, <3>1 DEF Open, CountInv, LeaseCounted
  <2>3. /\ \A g \in Files : holders'[g] \subseteq {state'[g].task_id}
        /\ \A g \in Files : state'[g].owns =>
             state'[g].task_id = fb_lease_owner' \/ status'[state'[g].task_id] = "dead"
    BY <1>2 DEF Open, CountInv, LeaseInv, TypeOK
  <2>4. QED
    BY <2>2, <2>3 DEF CountInv
<1>3. ASSUME NEW t \in Tasks, NEW f \in Files, Acquire(t, f) PROVE CountInv'
  <2>1. CASE state[f].owns
    BY <1>3, <2>1 DEF Acquire, Counted, CountInv, LeaseCounted
  <2>2. CASE ~state[f].owns
    <3>1. /\ state' = [state EXCEPT ![f].owns = TRUE] /\ state[f].task_id = t
          /\ fb_lease_owner' = t /\ fb_lease_refs' = fb_lease_refs + 1 /\ fb_lease_owner \in {None, t}
          /\ UNCHANGED <<status, holders>>
      BY <1>3, <2>2, AcquiredByOwner DEF Acquire, Counted, MayAcquire
    <3>2. Cardinality(Owning(t)') = Cardinality(Owning(t)) + 1
      BY <2>2, <3>1, OneMore DEF LeaseInv
    <3>3. fb_lease_refs = Cardinality(Owning(t))
      <4>1. CASE fb_lease_owner = t
        BY <4>1 DEF Finite, CountInv, LeaseCounted, Owning
      <4>2. CASE fb_lease_owner = None
        <5>1. Owning(t) = {}
          BY <1>3, <4>2, AcquiredByOwner DEF Finite, Owning
        <5>2. QED
          BY <4>2, <5>1, FS_EmptySet DEF LeaseInv
      <4>3. QED
        BY <3>1, <4>1, <4>2
    <3>4. LeaseCounted'
      BY <3>1, <3>2, <3>3 DEF Finite, LeaseCounted, Owning
    <3>5. \A g \in Files : state'[g].owns =>
             state'[g].task_id = fb_lease_owner' \/ status'[state'[g].task_id] = "dead"
      <4> SUFFICES ASSUME NEW g \in Files, state'[g].owns, state'[g].task_id # t
                   PROVE status[state[g].task_id] = "dead" /\ state'[g].task_id = state[g].task_id
        BY <3>1
      <4>1. g # f /\ state'[g] = state[g]
        BY <3>1 DEF LeaseInv, TypeOK
      <4>2. state[g].task_id # None
        BY <4>1 DEF LeaseInv
      <4>3. QED
        BY <3>1, <4>1, <4>2 DEF CountInv
    <3>6. \A g \in Files : holders'[g] \subseteq {state'[g].task_id}
      BY <3>1 DEF CountInv, LeaseInv, TypeOK
    <3>7. QED
      BY <3>4, <3>5, <3>6 DEF CountInv
  <2>3. QED
    BY <2>1, <2>2
<1>4. ASSUME NEW t \in Tasks, NEW f \in Files, Release(t, f) PROVE CountInv'
  <2> DEFINE r == [state[f] EXCEPT !.owns = FALSE]
  <2>1. ~r.owns /\ r.task_id = state[f].task_id /\ state' = [state EXCEPT ![f] = r] /\ DropLease(t, f)
    BY <1>4 DEF Release, LeaseInv, TypeOK
  <2> HIDE DEF r
  <2>2. \A g \in Files : holders'[g] \subseteq {state'[g].task_id}
    BY <1>4, <2>1 DEF Release, CountInv, LeaseInv, TypeOK
  <2>3. QED
    BY <1>4, <2>1, <2>2, DropCounts DEF Release, CountInv
<1>5. ASSUME NEW t \in Tasks, NEW f \in Files, Close(t, f) \/ ExitClose(t, f) PROVE CountInv'
  BY <1>5, CloseCounts DEF Close, ExitClose
<1>6. ASSUME NEW t \in Tasks, NEW u \in Tasks, Clone(t, u) PROVE CountInv'
  <2>1. /\ \A f \in Files : holders'[f] = holders[f]
        /\ UNCHANGED <<state, fb_lease_owner, fb_lease_refs>>
        /\ \A v \in Tasks \cup {None} : status[v] = "dead" => status'[v] = "dead"
    BY <1>6 DEF Clone, LeaseInv, TypeOK, Finite
  <2>2. LeaseCounted'
    BY <2>1 DEF CountInv, LeaseCounted
  <2>3. QED
    BY <2>1, <2>2 DEF CountInv, LeaseInv, TypeOK
<1>7. ASSUME NEW t \in Tasks, Claim(t) \/ Unclaim(t) \/ Killed(t) PROVE CountInv'
  <2>1. UNCHANGED <<state, holders, fb_lease_owner, fb_lease_refs>>
    BY <1>7 DEF Claim, Unclaim, Killed
  <2>2. \A v \in Tasks \cup {None} : status[v] = "dead" => status'[v] = "dead"
    <3>1. CASE UNCHANGED status
      BY <3>1
    <3>2. CASE status' = [status EXCEPT ![t] = "dead"]
      BY <3>2 DEF LeaseInv, TypeOK, Finite
    <3>3. QED
      BY <1>7, <3>1, <3>2 DEF Claim, Unclaim, Killed
  <2>3. QED
    BY <2>1, <2>2 DEF CountInv, LeaseCounted, LeaseInv, TypeOK
<1>8. ASSUME NEW t \in Tasks, Exit(t) PROVE CountInv'
  <2>1. UNCHANGED <<state, holders>> /\ status' = [status EXCEPT ![t] = "dead"]
    BY <1>8 DEF Exit
  <2>2. status'[t] = "dead" /\ \A v \in Tasks \cup {None} : status[v] = "dead" => status'[v] = "dead"
    BY <2>1 DEF LeaseInv, TypeOK, Finite
  <2>3. CASE fb_lease_owner = t
    <3>1. fb_lease_owner' = None /\ fb_lease_refs' = 0
      BY <1>8, <2>3 DEF Exit
    <3>2. QED
      BY <2>1, <2>2, <2>3, <3>1 DEF CountInv, LeaseCounted, LeaseInv, TypeOK
  <2>4. CASE fb_lease_owner # t
    <3>1. UNCHANGED <<fb_lease_owner, fb_lease_refs>>
      BY <1>8, <2>4 DEF Exit
    <3>2. QED
      BY <2>1, <2>2, <3>1 DEF CountInv, LeaseCounted, LeaseInv, TypeOK
  <2>5. QED
    BY <2>3, <2>4
<1>9. QED
  BY <1>1, <1>2, <1>3, <1>4, <1>5, <1>6, <1>7, <1>8 DEF Next

\* Nothing is counted at the start.
LEMMA CountStarts == Init => CountInv
BY DEF Init, Closed, CountInv, LeaseCounted

\* While no file of the device is inherited, the lease counts exactly the open
\* files of its owner that acquired it, for any number of tasks and files, on
\* any number of CPUs, and nobody owns a lease that counts none
\* (fb_write_file, fb_drop_lease, devfs_release_task_resources).
THEOREM LeaseIsCounted == ASSUME Finite, ~INHERIT PROVE Spec => []LeaseCounted
<1>1. CountInv => LeaseCounted
  BY DEF CountInv
<1>2. QED
  BY <1>1, LeaseStarts, LeaseStep, CountStarts, CountStep, PTL DEF Spec

\* On one CPU a command that ends the lease is the only one under way, and
\* leaves the call on the console to be made.
LEMMA DropTells ==
  ASSUME Finite, LeaseInv, ConsoleInv, NEW t \in Tasks, NEW f \in Files, DropLease(t, f),
         \A u \in Tasks : todo[u] = "nothing", UNCHANGED console_claimed
  PROVE  ConsoleInv'
<1>1. console_claimed <=> fb_lease_owner # None
  BY DEF ConsoleInv, ConsoleFollowsLease
<1>2. \A u \in Tasks : u # t => todo'[u] = "nothing"
  BY DEF DropLease, LeaseInv, TypeOK
<1>3. CASE LastRef(f)
  <2>1. todo'[t] = "unclaim" /\ fb_lease_owner' = None
    BY <1>3 DEF DropLease, LeaseInv, TypeOK
  <2>2. QED
    BY <1>2, <2>1 DEF ConsoleInv, ConsoleFollowsLease
<1>4. CASE ~LastRef(f)
  <2>1. todo'[t] = "nothing" /\ fb_lease_owner' = fb_lease_owner
    BY <1>4 DEF DropLease, LeaseInv, TypeOK
  <2>2. QED
    BY <1>1, <1>2, <2>1 DEF ConsoleInv, ConsoleFollowsLease
<1>5. QED
  BY <1>3, <1>4

\* On one CPU, without inheritance, no step lets console and lease fall apart.
LEMMA ConsoleStep ==
  ASSUME Finite, UP, ~INHERIT
  PROVE  LeaseInv /\ CountInv /\ ConsoleInv /\ [Next]_vars => ConsoleInv'
<1> SUFFICES ASSUME LeaseInv, CountInv, ConsoleInv, [Next]_vars PROVE ConsoleInv'
  OBVIOUS
<1>1. CASE UNCHANGED vars \/ UNCHANGED <<fb_lease_owner, console_claimed, todo>>
  BY <1>1 DEF vars, ConsoleInv, ConsoleFollowsLease
<1>2. ASSUME NEW t \in Tasks, NEW f \in Files, Open(t, f) PROVE ConsoleInv'
  BY <1>1, <1>2 DEF Open
<1>3. ASSUME NEW t \in Tasks, NEW f \in Files, Acquire(t, f) PROVE ConsoleInv'
  <2>1. fb_lease_owner' # None
    <3>1. state[f].task_id = t /\ (state[f].owns => fb_lease_owner = t) /\ t # None
      BY <1>3, AcquiredByOwner DEF Finite
    <3>2. QED
      BY <1>3, <3>1 DEF Acquire, Counted
  <2>2. todo'[t] = "claim" /\ \A u \in Tasks : u # t => todo'[u] = "nothing"
    BY <1>3 DEF Acquire, Active, LeaseInv, TypeOK
  <2>3. QED
    BY <2>1, <2>2 DEF ConsoleInv, ConsoleFollowsLease
<1>4. ASSUME NEW t \in Tasks, NEW f \in Files, Release(t, f) PROVE ConsoleInv'
  BY <1>4, DropTells DEF Release, Active
<1>5. ASSUME NEW t \in Tasks, NEW f \in Files, Close(t, f) \/ ExitClose(t, f) PROVE ConsoleInv'
  <2>1. CloseFile(t, f) /\ (\A u \in Tasks : todo[u] = "nothing") /\ UNCHANGED console_claimed
    BY <1>5 DEF Close, ExitClose, Active
  <2>2. CASE CloseDrops(t, f)
    BY <2>1, <2>2, DropTells DEF CloseFile
  <2>3. CASE ~CloseDrops(t, f)
    BY <1>1, <2>1, <2>3 DEF CloseFile
  <2>4. QED
    BY <2>2, <2>3
<1>6. ASSUME NEW t \in Tasks, NEW u \in Tasks, Clone(t, u) PROVE ConsoleInv'
  BY <1>1, <1>6 DEF Clone
<1>7. ASSUME NEW t \in Tasks, Claim(t) PROVE ConsoleInv'
  <2>1. /\ fb_lease_owner' # None /\ console_claimed'
        /\ todo' = [todo EXCEPT ![t] = "nothing"]
    BY <1>7 DEF Claim, ConsoleInv
  <2>2. \A u \in Tasks : todo'[u] = "nothing"
    BY <1>7, <2>1 DEF Claim, ConsoleInv, LeaseInv, TypeOK
  <2>3. QED
    BY <2>1, <2>2 DEF ConsoleInv, ConsoleFollowsLease
<1>8. ASSUME NEW t \in Tasks, Unclaim(t) PROVE ConsoleInv'
  <2>1. /\ fb_lease_owner' = None /\ ~console_claimed'
        /\ todo' = [todo EXCEPT ![t] = "nothing"]
    BY <1>8 DEF Unclaim, ConsoleInv
  <2>2. \A u \in Tasks : todo'[u] = "nothing"
    BY <1>8, <2>1 DEF Unclaim, ConsoleInv, LeaseInv, TypeOK
  <2>3. QED
    BY <2>1, <2>2 DEF ConsoleInv, ConsoleFollowsLease
<1>9. ASSUME NEW t \in Tasks, Exit(t) PROVE ConsoleInv'
  <2>1. CASE fb_lease_owner = t
    <3>1. /\ fb_lease_owner' = None /\ todo'[t] = "unclaim"
          /\ \A u \in Tasks : u # t => todo'[u] = "nothing"
      BY <1>9, <2>1 DEF Exit, Active, LeaseInv, TypeOK
    <3>2. QED
      BY <3>1 DEF ConsoleInv, ConsoleFollowsLease
  <2>2. CASE fb_lease_owner # t
    BY <1>1, <1>9, <2>2 DEF Exit
  <2>3. QED
    BY <2>1, <2>2
<1>10. ASSUME NEW t \in Tasks, Killed(t) PROVE ConsoleInv'
  BY <1>1, <1>10 DEF Killed
<1>11. QED
  BY <1>1, <1>2, <1>3, <1>4, <1>5, <1>6, <1>7, <1>8, <1>9, <1>10 DEF Next

\* The console has the screen at the start.
LEMMA ConsoleStarts == Init => ConsoleInv
BY DEF Init, ConsoleInv, ConsoleFollowsLease

\* On one CPU, while no file of the device is inherited, the console leaves the
\* screen alone between commands exactly while the lease is held, for any
\* number of tasks and files (claim_console, release_console_claim).
THEOREM ConsoleIsTold == ASSUME Finite, UP, ~INHERIT PROVE Spec => []ConsoleFollowsLease
<1>1. ConsoleInv => ConsoleFollowsLease
  BY DEF ConsoleInv
<1>2. QED
  BY <1>1, LeaseStarts, LeaseStep, CountStarts, CountStep, ConsoleStarts, ConsoleStep, PTL DEF Spec
=============================================================================
