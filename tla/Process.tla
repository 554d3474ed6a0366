------------------------------ MODULE Process ------------------------------
(***************************************************************************)
(* Life and death of processes (smp/scheduler.cpp): clone, exit, kill,     *)
(* fault, wait, the adoption of orphans by init, and the blocking read of  *)
(* the event inbox.  Everything under process_lock is one step; the wake   *)
(* that follows it in some paths, the release of a reaped child's kernel   *)
(* stack, and the last switch away from a dead task are steps of their     *)
(* own.                                                                    *)
(*                                                                         *)
(* A task that is not blocked may step at any time.  Kernel code is not    *)
(* preempted, so on a uniprocessor no other task steps while one is        *)
(* between the release of process_lock and its next yield.  What the run   *)
(* queues do with READY tasks is RunQueue, what the inbox holds EventRing, *)
(* the proofs about which are here too.  A task structure that has been    *)
(* freed is taken to keep its old contents.                                *)
(***************************************************************************)
EXTENDS Naturals, Sequences, Lists, EventRing

CONSTANTS Tasks,       \* task structures
          Init1,       \* the one with id 1
          Mortal,      \* tasks that may exit, fault or be killed
          Readers,     \* tasks whose program reads its event file
          QUEUE_SIZE,  \* TASK_EVENT_QUEUE_SIZE
          UP,          \* there is only one CPU
          None

\* init, as user/init is written, neither ends nor faults.
ASSUME ProcessAssumption ==
    /\ Init1 \in Tasks /\ Mortal \subseteq Tasks \ {Init1}
    /\ None \notin Tasks
    /\ QUEUE_SIZE \in Nat

VARIABLES st,       \* task->state; RUN for READY and RUNNING, none if free
          parent,   \* task->parent
          kids,     \* first_child, next_sibling ..
          pc,       \* where the task is in the kernel
          peer,     \* the task it is about to wake or to free
          kill,     \* kill_pending
          inbox     \* events.count

vars == <<st, parent, kids, pc, peer, kill, inbox>>

TypeOK ==
    /\ st \in [Tasks -> {"none", "RUN", "BLOCKED", "WAITING", "ZOMBIE"}]
    /\ parent \in [Tasks -> Tasks \cup {None}]
    /\ kids \in [Tasks -> Seq(Tasks)]
    /\ pc \in [Tasks -> {"user", "wait", "read", "reap", "poke", "dead", "gone"}]
    /\ peer \in [Tasks -> Tasks \cup {None}]
    /\ kill \in [Tasks -> BOOLEAN]
    /\ inbox \in [Tasks -> 0..QUEUE_SIZE]

Init ==
    /\ st = [t \in Tasks |-> IF t = Init1 THEN "RUN" ELSE "none"]
    /\ parent = [t \in Tasks |-> None]
    /\ kids = [t \in Tasks |-> <<>>]
    /\ pc = [t \in Tasks |-> IF t = Init1 THEN "user" ELSE "gone"]
    /\ peer = [t \in Tasks |-> None]
    /\ kill = [t \in Tasks |-> FALSE]
    /\ inbox = [t \in Tasks |-> 0]

\* The sections that a uniprocessor finishes before it runs another task.
Between == {"reap", "poke", "dead"}

\* Mutant: the parent that exit made READY runs before the dead task has yielded.
RunsAnywhere(t, label) == st[t] \in {"RUN", "ZOMBIE"} /\ pc[t] = label

Runs(t, label) ==
    /\ st[t] \in {"RUN", "ZOMBIE"} /\ pc[t] = label
    /\ UP => \A u \in Tasks \ {t} : pc[u] \notin Between

Blocked(t) == st[t] \in {"BLOCKED", "WAITING"}

Goto(t, label, u) == /\ pc' = [pc EXCEPT ![t] = label]
                     /\ peer' = [peer EXCEPT ![t] = u]

\* clone, from the publication of the child on.
Clone(t, c) ==
    /\ Runs(t, "user") /\ st[c] = "none" /\ \A u \in Tasks : peer[u] # c
    /\ st' = [st EXCEPT ![c] = "RUN"]
    /\ parent' = [parent EXCEPT ![c] = t]
    /\ kids' = [kids EXCEPT ![t] = <<c>> \o @, ![c] = <<>>]
    /\ pc' = [pc EXCEPT ![c] = "user"]
    /\ kill' = [kill EXCEPT ![c] = FALSE]
    /\ inbox' = [inbox EXCEPT ![c] = 0]
    /\ UNCHANGED peer

\* find_init_task, which is no adopter for its own children.
Adopter(t) == IF t = Init1 THEN None ELSE Init1

\* reparent_children: pushed one by one on the list of the adopter.
Reparented(t) ==
    [parent |-> [u \in Tasks |-> IF u \in Range(kids[t]) THEN Adopter(t) ELSE parent[u]],
     kids   |-> [u \in Tasks |-> CASE u = t -> <<>>
                                   [] u = Adopter(t) -> Reverse(kids[t]) \o kids[u]
                                   [] OTHER -> kids[u]]]

\* .. and the adopter made READY if it waits.
AdopterWoken(t) ==
    IF kids[t] # <<>> /\ Adopter(t) # None /\ st[Init1] = "BLOCKED" THEN {Init1} ELSE {}

\* notify_parent_exit_locked, enqueue_event_locked.
Notify(p) ==
    IF p # None /\ st[p] # "ZOMBIE" /\ inbox[p] < QUEUE_SIZE
    THEN [inbox EXCEPT ![p] = @ + 1] ELSE inbox

\* terminate_current_locked; woken is who else becomes READY under the locks.
Terminate(t, woken) ==
    /\ st' = [u \in Tasks |-> IF u = t THEN "ZOMBIE"
                              ELSE IF u \in AdopterWoken(t) \cup woken THEN "RUN" ELSE st[u]]
    /\ parent' = Reparented(t).parent
    /\ kids' = Reparented(t).kids
    /\ inbox' = Notify(parent[t])

\* Mutant: a parent in read_event is not woken.
ParentWokenFromWait(t) == IF parent[t] # None /\ st[parent[t]] = "BLOCKED" THEN {parent[t]} ELSE {}

ParentWoken(t) == IF parent[t] # None /\ Blocked(parent[t]) THEN {parent[t]} ELSE {}

\* exit: the parent is made READY under the same locks.
Exit(t) ==
    /\ Runs(t, "user") /\ st[t] = "RUN" /\ t \in Mortal /\ t # Init1
    /\ Terminate(t, ParentWoken(t))
    /\ Goto(t, "dead", None)
    /\ UNCHANGED kill

\* handle_user_exception with no handler, complete_fault_return_if_pending:
\* the parent is woken after the section.
Fault(t) ==
    /\ Runs(t, "user") /\ st[t] = "RUN" /\ t \in Mortal
    /\ Terminate(t, {})
    /\ Goto(t, "poke", parent[t])
    /\ UNCHANGED kill

\* apply_pending_kill, on the way back to user mode.
ApplyKill(t) ==
    /\ Runs(t, "user") /\ st[t] = "RUN" /\ kill[t]
    /\ kill' = [kill EXCEPT ![t] = FALSE]
    /\ Terminate(t, {})
    /\ Goto(t, "poke", parent[t])

\* send_event with TASK_EVENT_FORCE_KILL, by the parent or the task itself.
SendKill(t, u) ==
    /\ Runs(t, "user") /\ st[t] = "RUN" /\ st[u] # "none" /\ u \in Mortal
    /\ t = u \/ parent[u] = t
    /\ kill' = [kill EXCEPT ![u] = TRUE]
    /\ Goto(t, "poke", u)
    /\ UNCHANGED <<st, parent, kids, inbox>>

\* send_event with other types; what the inbox has no room for is refused.
SendEvent(t, u) ==
    /\ Runs(t, "user") /\ st[t] = "RUN" /\ st[u] \notin {"none", "ZOMBIE"}
    /\ \E n \in 1..(QUEUE_SIZE - inbox[u]) : inbox' = [inbox EXCEPT ![u] = @ + n]
    /\ Goto(t, "poke", u)
    /\ UNCHANGED <<st, parent, kids, kill>>

\* Mutant: READY without a look at the state.
PokeAny(t) ==
    /\ Runs(t, "poke")
    /\ st' = IF peer[t] # None THEN [st EXCEPT ![peer[t]] = "RUN"] ELSE st
    /\ Goto(t, IF st[t] = "ZOMBIE" THEN "dead" ELSE "user", None)
    /\ UNCHANGED <<parent, kids, kill, inbox>>

\* wake_blocked_or_waiting after the section; then a dead task yields.
Poke(t) ==
    /\ Runs(t, "poke")
    /\ st' = IF peer[t] # None /\ Blocked(peer[t]) THEN [st EXCEPT ![peer[t]] = "RUN"] ELSE st
    /\ Goto(t, IF st[t] = "ZOMBIE" THEN "dead" ELSE "user", None)
    /\ UNCHANGED <<parent, kids, kill, inbox>>

\* yield of a dead task: its kernel stack is no longer in use.
SwitchAway(t) ==
    /\ Runs(t, "dead")
    /\ Goto(t, "gone", None)
    /\ UNCHANGED <<st, parent, kids, kill, inbox>>

CallWait(t) ==
    /\ Runs(t, "user") /\ st[t] = "RUN"
    /\ Goto(t, "wait", None)
    /\ UNCHANGED <<st, parent, kids, kill, inbox>>

\* Mutant: only the newest child is looked at.
FirstZombieNewest(t) ==
    IF kids[t] # <<>> /\ st[Head(kids[t])] = "ZOMBIE" THEN {Head(kids[t])} ELSE {}

\* The child wait() finds: the first ZOMBIE of the list.
FirstZombie(t) ==
    LET zombies == {i \in 1..Len(kids[t]) : st[kids[t][i]] = "ZOMBIE"} IN
    {kids[t][i] : i \in {j \in zombies : \A k \in zombies : j <= k}}

\* wait(), one turn: no child, a dead child to reap, or BLOCKED.
WaitTurn(t) ==
    /\ Runs(t, "wait") /\ st[t] = "RUN"
    /\ \/ /\ kids[t] = <<>>
          /\ Goto(t, "user", None)
          /\ UNCHANGED <<st, kids>>
       \/ /\ \E c \in FirstZombie(t) :
                /\ kids' = [kids EXCEPT ![t] = Only(@, Tasks \ {c})]
                /\ Goto(t, "reap", c)
          /\ UNCHANGED st
       \/ /\ kids[t] # <<>> /\ FirstZombie(t) = {}
          /\ st' = [st EXCEPT ![t] = "BLOCKED"]
          /\ UNCHANGED <<kids, pc, peer>>
    /\ UNCHANGED <<parent, kill, inbox>>

\* free_task_resources, after the locks are released.
Reap(t) ==
    /\ Runs(t, "reap")
    /\ st' = [st EXCEPT ![peer[t]] = "none"]
    /\ parent' = [parent EXCEPT ![peer[t]] = None]
    /\ Goto(t, "user", None)
    /\ UNCHANGED <<kids, kill, inbox>>

\* read_event, blocking: take events or wait for one.
CallRead(t) ==
    /\ Runs(t, "user") /\ st[t] = "RUN" /\ t \in Readers
    /\ Goto(t, "read", None)
    /\ UNCHANGED <<st, parent, kids, kill, inbox>>

ReadTurn(t) ==
    /\ Runs(t, "read") /\ st[t] = "RUN"
    /\ \/ /\ \E n \in 1..inbox[t] : inbox' = [inbox EXCEPT ![t] = @ - n]
          /\ Goto(t, "user", None)
          /\ UNCHANGED st
       \/ /\ inbox[t] = 0
          /\ st' = [st EXCEPT ![t] = "WAITING"]
          /\ UNCHANGED <<inbox, pc, peer>>
    /\ UNCHANGED <<parent, kids, kill>>

\* exec clears the inbox and a kill that has not been applied yet.
Exec(t) ==
    /\ Runs(t, "user") /\ st[t] = "RUN"
    /\ inbox' = [inbox EXCEPT ![t] = 0]
    /\ kill' = [kill EXCEPT ![t] = FALSE]
    /\ UNCHANGED <<st, parent, kids, pc, peer>>

Step(t) ==
    Poke(t) \/ SwitchAway(t) \/ WaitTurn(t) \/ Reap(t) \/ ReadTurn(t) \/ ApplyKill(t)

Next ==
    \E t \in Tasks :
       \/ Step(t) \/ Exit(t) \/ Fault(t) \/ CallWait(t) \/ CallRead(t) \/ Exec(t)
       \/ \E u \in Tasks : Clone(t, u) \/ SendKill(t, u) \/ SendEvent(t, u)

Spec == Init /\ [][Next]_vars

-----------------------------------------------------------------------------
Alive(t) == st[t] \notin {"none", "ZOMBIE"}

\* The process tree: the child lists and the parent pointers agree, nobody is
\* a child twice, and every task but init that is not reaped yet is the child
\* of a task that can still wait for it (clone, reparent_children, wait).
TreeConsistent ==
    /\ \A p \in Tasks : IsInjective(kids[p])
    /\ \A p, c \in Tasks : c \in Range(kids[p]) => parent[c] = p /\ st[c] # "none"
    /\ \A c \in Tasks \ {Init1} : st[c] # "none" =>
          \/ parent[c] # None /\ Alive(parent[c]) /\ c \in Range(kids[parent[c]])
          \/ \E t \in Tasks : pc[t] = "reap" /\ peer[t] = c

\* Somebody that is not freed is about to wake t.
Poked(t) == \E u \in Tasks : pc[u] = "poke" /\ peer[u] = t /\ st[u] # "none"

\* Nobody sleeps in wait() on a dead child, nor in read_event on an event,
\* without a wake on its way: the wakes after the section in the kill and fault
\* paths, and the adoption of dead children by init, lose nothing.
NoLostNotice ==
    /\ \A p \in Tasks : st[p] = "BLOCKED" /\ FirstZombie(p) # {} => Poked(p)
    /\ \A t \in Tasks : st[t] = "WAITING" /\ inbox[t] > 0 => Poked(t)

\* The assertions "zombie task resumed after exit", "killed zombie task
\* resumed" and "faulted zombie task resumed": nothing makes a dead task READY.
ZombieStaysDead == [][\A t \in Tasks : st[t] = "ZOMBIE" => st'[t] \in {"ZOMBIE", "none"}]_vars

\* The process tree holds together, and what has died in it stays dead until it
\* is reaped (clone, reparent_children, wait; the assertions after exit's yield).
TreeKept == [](TypeOK /\ TreeConsistent) /\ ZombieStaysDead

\* On one CPU, a task is freed only after the last switch away from its kernel
\* stack (exit's yield against wait's free_task_resources).
FreedNotRunning == \A t \in Tasks : st[t] = "none" => pc[t] = "gone"

-----------------------------------------------------------------------------
(***************************************************************************)
(* The event ring implements the lossy FIFO, for every ring size and every *)
(* bound on the count of lost events.                                      *)
(***************************************************************************)
\* One turn around the ring at most: the remainder is one subtraction.
LEMMA ModOnce ==
    ASSUME NEW x \in 0..(2 * N - 1)
    PROVE  /\ x % N = IF x < N THEN x ELSE x - N
           /\ x % N \in 0..(N - 1)
  <1>. N \in Nat /\ N # 0
    BY SizeAssumption
  <1>1. CASE x < N
    BY <1>1, SMT
  <1>2. CASE x >= N
    <2>. DEFINE r == x - N
    <2>1. r \in 0..(N - 1) /\ x = N * 1 + r
      BY <1>2, SMT
    <2>2. x % N = r
      BY <2>1, SMT
    <2>. QED BY <2>1, <2>2, <1>2
  <1>. QED BY <1>1, <1>2

\* Every slot counted from a head is an index of the ring.
LEMMA ModSum ==
    ASSUME NEW h \in 0..(N - 1), NEW i \in 0..N
    PROVE  /\ (h + i) % N \in 0..(N - 1)
           /\ (h + i) % N = IF h + i < N THEN h + i ELSE h + i - N
  <1>. DEFINE x == h + i
  <1>1. x \in 0..(2 * N - 1)
    BY SizeAssumption
  <1>. HIDE DEF x
  <1>2. x % N \in 0..(N - 1) /\ x % N = IF x < N THEN x ELSE x - N
    BY <1>1, ModOnce
  <1>. QED BY <1>2, SizeAssumption DEF x

\* .. and so is every slot counted from the head of this one.
LEMMA SlotInRing ==
    ASSUME RingTypeOK, NEW i \in 0..N
    PROVE  Slot(i) \in 0..(N - 1) /\ Slot(i) = IF head + i < N THEN head + i ELSE head + i - N
  BY ModSum DEF Slot, RingTypeOK

\* Initially the types are right.
LEMMA RingTypeInit == RingInit => RingTypeOK
  BY SizeAssumption DEF RingInit, RingTypeOK, Entry, Cleared

\* .. and every step keeps them.
LEMMA RingTypeStep == RingTypeOK /\ [RingNext]_ringVars => RingTypeOK'
  <1>. SUFFICES ASSUME RingTypeOK, [RingNext]_ringVars PROVE RingTypeOK'
    OBVIOUS
  <1>1. ASSUME NEW e \in Events, Enqueue(e) PROVE RingTypeOK'
    <2>1. count < N => Slot(count) \in 0..(N - 1)
      BY SlotInRing DEF RingTypeOK
    <2>2. [ev |-> e, mark |-> dropped # 0] \in Entry
      BY DEF Entry
    <2>3. entries' \in [0..(N - 1) -> Entry]
      BY <1>1, <2>1, <2>2, SizeAssumption DEF Enqueue, Full, RingTypeOK
    <2>4. dropped' \in 0..MAX_DROPPED /\ count' \in 0..N
      BY <1>1, SizeAssumption DEF Enqueue, Full, CountLost, RingTypeOK
    <2>. QED BY <1>1, <2>3, <2>4 DEF Enqueue, Full, RingTypeOK
  <1>2. ASSUME NEW n \in 1..N, Dequeue(n) PROVE RingTypeOK'
    <2>1. Slot(n) \in 0..(N - 1)
      BY SlotInRing, SizeAssumption
    <2>2. \A i \in 1..n : entries[Slot(i - 1)] \in Entry
      <3>. SUFFICES ASSUME NEW i \in 1..n PROVE entries[Slot(i - 1)] \in Entry
        OBVIOUS
      <3>1. i - 1 \in 0..N
        BY SizeAssumption
      <3>. QED BY <3>1, SlotInRing DEF RingTypeOK
    <2>3. out' \in Seq(Entry)
      BY <1>2, <2>2 DEF Dequeue
    <2>4. count' \in 0..N
      BY <1>2, SizeAssumption DEF Dequeue, RingTypeOK
    <2>. QED BY <1>2, <2>1, <2>3, <2>4 DEF Dequeue, RingTypeOK
  <1>3. CASE RingExec
    BY <1>3, SizeAssumption DEF RingExec, RingTypeOK, Entry, Cleared
  <1>4. CASE RingTerminate
    BY <1>4 DEF RingTerminate, RingTypeOK
  <1>5. CASE UNCHANGED ringVars
    BY <1>5 DEF ringVars, RingTypeOK
  <1>. QED BY <1>1, <1>2, <1>3, <1>4, <1>5 DEF RingNext

\* The entries of a ring from its head on, as a sequence.
Ring(es, h, c) == [i \in 1..c |-> es[(h + i - 1) % N]]

\* They form a sequence of c entries.
LEMMA RingSeq ==
    ASSUME NEW es \in [0..(N - 1) -> Entry], NEW h \in 0..(N - 1), NEW c \in 0..N
    PROVE  Ring(es, h, c) \in Seq(Entry) /\ Len(Ring(es, h, c)) = c
  <1>1. ASSUME NEW i \in 1..c PROVE es[(h + i - 1) % N] \in Entry
    <2>1. i - 1 \in 0..N /\ h + i - 1 = h + (i - 1)
      BY SizeAssumption
    <2>2. (h + (i - 1)) % N \in 0..(N - 1)
      BY <2>1, ModSum
    <2>. QED BY <2>1, <2>2
  <1>2. Ring(es, h, c) \in [1..c -> Entry] /\ c \in Nat
    BY <1>1, SizeAssumption DEF Ring
  <1>. QED BY <1>2

\* So the contents are a sequence of count entries ..
LEMMA ContentsSeq ==
    ASSUME RingTypeOK
    PROVE  Contents \in Seq(Entry) /\ Len(Contents) = count
  BY ZenonT(30), RingSeq DEF RingTypeOK, Contents, Ring

\* .. also after a step.
LEMMA ContentsSeqPrime ==
    ASSUME RingTypeOK'
    PROVE  Contents' \in Seq(Entry) /\ Len(Contents') = count'
  <1>1. Contents' = Ring(entries', head', count')
    BY DEF Contents, Ring
  <1>. QED BY <1>1, RingSeq DEF RingTypeOK

\* The empty ring is the empty queue.
LEMMA InitRefines == RingInit => Inbox!Init
  <1>. SUFFICES ASSUME RingInit PROVE Inbox!Init
    OBVIOUS
  <1>1. RingTypeOK
    BY RingTypeInit
  <1>2. Contents \in Seq(Entry) /\ Len(Contents) = 0
    BY <1>1, ContentsSeq DEF RingInit
  <1>3. Contents = <<>>
    BY <1>2, EmptySeq
  <1>. QED BY <1>3 DEF RingInit, Inbox!Init

\* enqueue_event_locked is Send.
LEMMA EnqueueRefines ==
    ASSUME RingTypeOK, RingTypeOK', NEW e \in Events, Enqueue(e)
    PROVE  Inbox!Send(e)
  <1>1. CASE count >= N
    <2>1. Contents' = Contents /\ dropped' # 0
      BY <1>1, SizeAssumption DEF Enqueue, Full, CountLost, Contents, RingTypeOK
    <2>2. ~(Len(Contents) < N)
      BY <1>1, ContentsSeq, SizeAssumption DEF RingTypeOK
    <2>. QED BY <2>1, <2>2 DEF Enqueue, Full, Inbox!Send
  <1>2. CASE count < N
    <2>. DEFINE new == [ev |-> e, mark |-> dropped # 0]
    <2>1. /\ entries' = [entries EXCEPT ![Slot(count)] = new]
          /\ count' = count + 1 /\ dropped' = 0 /\ head' = head
      BY <1>2, SizeAssumption DEF Enqueue, Full, RingTypeOK
    <2>2. \A i \in 0..N : Slot(i)' = Slot(i)
      BY <2>1 DEF Slot
    <2>3. Slot(count) \in 0..(N - 1)
      BY SlotInRing DEF RingTypeOK
    <2>4. entries'[Slot(count)] = new
      BY <2>1, <2>3 DEF RingTypeOK
    <2>5. ASSUME NEW i \in 1..count PROVE entries'[Slot(i - 1)] = entries[Slot(i - 1)]
      <3>1. i - 1 \in 0..N /\ i - 1 < count /\ count \in 0..N
        BY SizeAssumption DEF RingTypeOK
      <3>2. /\ Slot(i - 1) = IF head + (i - 1) < N THEN head + (i - 1) ELSE head + (i - 1) - N
            /\ Slot(count) = IF head + count < N THEN head + count ELSE head + count - N
            /\ Slot(i - 1) \in 0..(N - 1)
        BY <3>1, SlotInRing
      <3>3. Slot(i - 1) # Slot(count)
        BY <3>1, <3>2, <1>2, SizeAssumption DEF RingTypeOK
      <3>. QED BY <3>2, <3>3, <2>1 DEF RingTypeOK
    <2>6. Contents \in Seq(Entry) /\ Len(Contents) = count
      BY ContentsSeq
    <2>7. Contents' \in Seq(Entry) /\ Len(Contents') = count'
      BY ContentsSeqPrime
    <2>8. new \in Entry
      BY DEF Entry
    <2>9. ASSUME NEW i \in 1..(count + 1) PROVE Contents'[i] = Append(Contents, new)[i]
      <3>1. Contents'[i] = entries'[Slot(i - 1)]
        BY <2>1 DEF Contents, Slot, RingTypeOK
      <3>2. CASE i = count + 1
        BY <3>1, <3>2, <2>4, <2>6, <2>8 DEF RingTypeOK
      <3>3. CASE i \in 1..count
        <4>1. Contents[i] = entries[Slot(i - 1)]
          BY <3>3 DEF Contents, Slot, RingTypeOK
        <4>. QED BY <3>1, <3>3, <4>1, <2>5, <2>6, <2>8
      <3>4. i = count + 1 \/ i \in 1..count
        BY SizeAssumption DEF RingTypeOK
      <3>. QED BY <3>2, <3>3, <3>4
    <2>10. Contents' = Append(Contents, new)
      <3>1. Append(Contents, new) \in Seq(Entry) /\ Len(Append(Contents, new)) = count + 1
        BY <2>6, <2>8
      <3>. QED BY <3>1, <2>1, <2>7, <2>9, SeqEqual
    <2>11. Len(Contents) < N /\ ~dead /\ (dropped # 0)' = FALSE /\ UNCHANGED <<dead, out>>
      BY <1>2, <2>1, <2>6 DEF Enqueue, Full
    <2>. QED BY <2>10, <2>11 DEF Inbox!Send
  <1>3. count >= N \/ count < N
    BY SizeAssumption DEF RingTypeOK
  <1>. QED BY <1>1, <1>2, <1>3

\* read_event is Read.
LEMMA DequeueRefines ==
    ASSUME RingTypeOK, RingTypeOK', NEW n \in 1..N, Dequeue(n)
    PROVE  n \in 1..Len(Contents) /\ Inbox!Read(n)
  <1>0. /\ n <= count /\ ~dead /\ count' = count - n /\ head' = Slot(n)
        /\ entries' = entries /\ dropped' = dropped /\ dead' = dead
        /\ out' = [i \in 1..n |-> entries[Slot(i - 1)]]
    BY DEF Dequeue
  <1>1. Contents \in Seq(Entry) /\ Len(Contents) = count
    BY ContentsSeq
  <1>2. Contents' \in Seq(Entry) /\ Len(Contents') = count - n
    BY ContentsSeqPrime, <1>0
  <1>3. \A i \in 1..count : Contents[i] \in Entry
    BY <1>1, ElementOfSeq
  <1>4. count \in 0..N /\ n \in 1..count
    BY <1>0, SizeAssumption DEF RingTypeOK
  <1>. DEFINE first == SubSeq(Contents, 1, n)
              rest  == SubSeq(Contents, n + 1, count)
  <1>5. /\ first \in Seq(Entry) /\ Len(first) = n
        /\ \A i \in 1..n : first[i] = Contents[i]
    <2>1. \A i \in 1..n : Contents[i] \in Entry
      BY <1>3, <1>4
    <2>2. /\ first \in Seq(Entry) /\ Len(first) = IF 1 <= n THEN n - 1 + 1 ELSE 0
          /\ \A i \in 1..(n - 1 + 1) : first[i] = Contents[1 + i - 1]
      BY <2>1, <1>4, SubSeqProperties
    <2>. QED BY <2>2, <1>4
  <1>6. /\ rest \in Seq(Entry) /\ Len(rest) = count - n
        /\ \A i \in 1..(count - n) : rest[i] = Contents[n + i]
    <2>1. \A i \in (n + 1)..count : Contents[i] \in Entry
      BY <1>3, <1>4
    <2>2. /\ rest \in Seq(Entry) /\ Len(rest) = IF n + 1 <= count THEN count - (n + 1) + 1 ELSE 0
          /\ \A i \in 1..(count - (n + 1) + 1) : rest[i] = Contents[(n + 1) + i - 1]
      BY <2>1, <1>4, SubSeqProperties
    <2>. QED BY <2>2, <1>4
  <1>. HIDE DEF first, rest
  <1>7. out' = first
    <2>1. out' \in Seq(Entry) /\ Len(out') = n
      BY <1>0, <1>4 DEF RingTypeOK
    <2>2. ASSUME NEW i \in 1..n PROVE out'[i] = first[i]
      <3>1. i \in 1..count /\ head + i - 1 = head + (i - 1)
        BY <1>4 DEF RingTypeOK
      <3>2. Contents[i] = entries[Slot(i - 1)]
        BY <3>1 DEF Contents, Slot
      <3>. QED BY <3>2, <1>0, <1>5
    <2>. QED BY <2>1, <2>2, <1>5, SeqEqual
  <1>8. Contents' = rest
    <2>1. ASSUME NEW i \in 1..(count - n) PROVE Contents'[i] = rest[i]
      <3>1. /\ n + i \in 1..count /\ i \in 1..count' /\ i - 1 \in 0..N
            /\ n \in 0..N /\ n + i - 1 \in 0..N /\ head \in 0..(N - 1)
            /\ head + (n + i) - 1 = head + (n + i - 1)
        BY <1>0, <1>4, SizeAssumption DEF RingTypeOK
      <3>2. Contents'[i] = entries[(Slot(n) + i - 1) % N]
        BY <3>1, <1>0 DEF Contents
      <3>3. Contents[n + i] = entries[(head + (n + i - 1)) % N]
        BY <3>1 DEF Contents
      <3>4. (Slot(n) + (i - 1)) % N = (head + (n + i - 1)) % N
        <4>1. Slot(n) \in 0..(N - 1) /\ Slot(n) = IF head + n < N THEN head + n ELSE head + n - N
          BY SlotInRing, <3>1
        <4>2. (Slot(n) + (i - 1)) % N = IF Slot(n) + (i - 1) < N THEN Slot(n) + (i - 1)
                                        ELSE Slot(n) + (i - 1) - N
          BY ModSum, <3>1, <4>1
        <4>3. (head + (n + i - 1)) % N = IF head + (n + i - 1) < N THEN head + (n + i - 1)
                                         ELSE head + (n + i - 1) - N
          BY ModSum, <3>1
        <4>4. n + i <= N
          BY <1>4, SizeAssumption
        <4>. QED BY <4>1, <4>2, <4>3, <4>4, <3>1, SizeAssumption
      <3>5. Slot(n) + i - 1 = Slot(n) + (i - 1)
        BY <3>1, SlotInRing
      <3>. QED BY <3>2, <3>3, <3>4, <3>5, <1>6
    <2>. QED BY <2>1, <1>2, <1>6, SeqEqual
  <1>. QED BY <1>0, <1>1, <1>4, <1>7, <1>8 DEF Inbox!Read, first, rest

\* Every step of the ring is a step of the queue, or leaves it as it is.
LEMMA StepRefines == RingTypeOK /\ RingTypeOK' /\ [RingNext]_ringVars => [Inbox!Next]_Inbox!vars
  <1>. SUFFICES ASSUME RingTypeOK, RingTypeOK', [RingNext]_ringVars PROVE [Inbox!Next]_Inbox!vars
    OBVIOUS
  <1>1. ASSUME NEW e \in Events, Enqueue(e) PROVE Inbox!Next
    BY <1>1, EnqueueRefines DEF Inbox!Next
  <1>2. ASSUME NEW n \in 1..N, Dequeue(n) PROVE Inbox!Next
    BY <1>2, DequeueRefines DEF Inbox!Next
  <1>3. CASE RingExec
    <2>1. Contents' \in Seq(Entry) /\ Len(Contents') = 0
      BY <1>3, ContentsSeqPrime DEF RingExec
    <2>2. Contents' = <<>>
      BY <2>1, EmptySeq
    <2>3. ~dead /\ (dropped # 0)' = FALSE /\ UNCHANGED <<dead, out>>
      BY <1>3 DEF RingExec
    <2>. QED BY <2>2, <2>3 DEF Inbox!Clear, Inbox!Next
  <1>4. CASE RingTerminate
    <2>1. dead' = TRUE /\ Contents' = Contents /\ (dropped # 0)' = (dropped # 0) /\ out' = out
      BY <1>4 DEF RingTerminate, Contents
    <2>. QED BY <2>1 DEF Inbox!End, Inbox!Next
  <1>5. CASE UNCHANGED ringVars
    BY <1>5 DEF ringVars, Inbox!vars, Contents
  <1>. QED BY <1>1, <1>2, <1>3, <1>4, <1>5 DEF RingNext

\* The indices and counts of the ring stay in range in every reachable state.
THEOREM RingTypeCorrect == RingSpec => []RingTypeOK
  <1>. QED BY RingTypeInit, RingTypeStep, PTL DEF RingSpec

\* The ring implements the lossy FIFO (enqueue_event_locked, read_event).
THEOREM RingImplementsQueue == RingSpec => InboxSpec
  <1>1. RingSpec => []RingTypeOK
    BY RingTypeCorrect
  <1>. QED BY <1>1, InitRefines, StepRefines, PTL DEF RingSpec, InboxSpec, Inbox!Spec

-----------------------------------------------------------------------------
(***************************************************************************)
(* The tree is kept by every step because of where tasks can be in the     *)
(* kernel: a task that reaps runs, and the child it has taken from its     *)
(* list is dead, still names it as its parent and is in no other list; a   *)
(* dead task is past terminate_current_locked; and init, the adopter of    *)
(* every orphan, lives and is nobody's child.                              *)
(***************************************************************************)
Reaping ==
    \A t \in Tasks : pc[t] = "reap" =>
       /\ st[t] = "RUN" /\ peer[t] \in Tasks \ {Init1}
       /\ st[peer[t]] = "ZOMBIE" /\ parent[peer[t]] = t
       /\ \A p \in Tasks : peer[t] \notin Range(kids[p])

FamilyInv ==
    /\ TypeOK /\ TreeConsistent /\ Reaping
    /\ Alive(Init1) /\ \A p \in Tasks : Init1 \notin Range(kids[p])
    /\ \A t \in Tasks : st[t] = "ZOMBIE" => pc[t] \in {"poke", "dead", "gone"}
    /\ \A t \in Tasks : kill[t] => t \in Mortal

\* Why no notice is lost: a dead child whose parent sleeps is itself about to
\* wake it; a dead task that is about to wake a living one is a child of it,
\* so nobody else can reap it before it has.
NoticeInv ==
    /\ \A p, c \in Tasks : st[p] = "BLOCKED" /\ c \in Range(kids[p]) /\ st[c] = "ZOMBIE" =>
          pc[c] = "poke" /\ peer[c] = p
    /\ \A t \in Tasks : st[t] = "WAITING" /\ inbox[t] > 0 => Poked(t)
    /\ \A u, p \in Tasks : pc[u] = "poke" /\ st[u] = "ZOMBIE" /\ peer[u] = p /\ Alive(p) => parent[u] = p

\* Most steps are plain logic; those that need records, counting or
\* sequences name SMT, and Z3 for a second try.
USE Zenon

\* The child that wait() finds is a dead one of the list, and it finds one when
\* there is one.
LEMMA FirstZombieFacts ==
    ASSUME TypeOK, NEW t \in Tasks
    PROVE  /\ \A c \in FirstZombie(t) : c \in Tasks /\ c \in Range(kids[t]) /\ st[c] = "ZOMBIE"
           /\ FirstZombie(t) = {} => \A c \in Range(kids[t]) : st[c] # "ZOMBIE"
<1> DEFINE k == kids[t]
           zombies == {i \in 1..Len(k) : st[k[i]] = "ZOMBIE"}
           firsts == {j \in zombies : \A i \in zombies : j <= i}
<1>1. FirstZombie(t) = {k[i] : i \in firsts}  BY DEF FirstZombie
<1>2. k \in Seq(Tasks)  BY DEF TypeOK
<1> HIDE DEF k
<1>3. Len(k) \in Nat /\ DOMAIN k = 1..Len(k) /\ \A i \in 1..Len(k) : k[i] \in Tasks  BY <1>2, LenProperties
<1>4. ASSUME NEW c \in FirstZombie(t) PROVE c \in Tasks /\ c \in Range(k) /\ st[c] = "ZOMBIE"
  BY <1>1, <1>3 DEF Range
<1>5. ASSUME FirstZombie(t) = {}, NEW c \in Range(k), st[c] = "ZOMBIE" PROVE FALSE
  <2>1. PICK i \in 1..Len(k) : c = k[i]  BY <1>3 DEF Range
  <2>2. zombies # {} /\ zombies \in SUBSET Nat  BY SMT, Z3, <1>3, <1>5, <2>1
  <2>3. firsts = {}  BY <1>1, <1>5
  <2> HIDE DEF zombies
  <2> QED  BY <2>2, <2>3, LeastNumber
<1> QED  BY <1>4, <1>5 DEF k

\* Where the children of a dying task go.
LEMMA ReparentedFacts ==
    ASSUME FamilyInv, NEW t \in Tasks \ {Init1}
    PROVE  /\ Reparented(t).parent = [u \in Tasks |-> IF u \in Range(kids[t]) THEN Init1 ELSE parent[u]]
           /\ Reparented(t).kids \in [Tasks -> Seq(Tasks)]
           /\ \A p \in Tasks : IsInjective(Reparented(t).kids[p])
           /\ Range(Reparented(t).kids[t]) = {}
           /\ Range(Reparented(t).kids[Init1]) = Range(kids[Init1]) \cup Range(kids[t])
           /\ \A p \in Tasks \ {t, Init1} : Reparented(t).kids[p] = kids[p]
<1> DEFINE r == Reverse(kids[t])
           joint == r \o kids[Init1]
           new == [u \in Tasks |-> CASE u = t -> <<>>
                                     [] u = Init1 -> joint
                                     [] OTHER -> kids[u]]
<1>1. kids \in [Tasks -> Seq(Tasks)] /\ Init1 \in Tasks /\ t # Init1  BY ProcessAssumption DEF FamilyInv, TypeOK
<1>2. \A p \in Tasks : IsInjective(kids[p])  BY DEF FamilyInv, TreeConsistent
<1>3. r \in Seq(Tasks) /\ Range(r) = Range(kids[t]) /\ IsInjective(r)  BY <1>1, <1>2, ReversedList
<1>4. Range(kids[t]) \cap Range(kids[Init1]) = {}
  <2>1. \A p, c \in Tasks : c \in Range(kids[p]) => parent[c] = p  BY DEF FamilyInv, TreeConsistent
  <2>2. Range(kids[t]) \subseteq Tasks  BY <1>1, RangeOfSeq
  <2> QED  BY <1>1, <2>1, <2>2
<1> HIDE DEF r
<1>5. joint \in Seq(Tasks) /\ Range(joint) = Range(kids[t]) \cup Range(kids[Init1]) /\ IsInjective(joint)
  BY SMT, Z3, <1>1, <1>2, <1>3, <1>4, ConcatLists
<1>6. Reparented(t).kids = new /\ Adopter(t) = Init1  BY <1>1 DEF Reparented, Adopter, r
<1> HIDE DEF joint
<1>7. <<>> \in Seq(Tasks) /\ Range(<<>>) = {} /\ IsInjective(<<>>)  BY SMT, Z3, EmptySeq DEF Range, IsInjective
<1>8. new[t] = <<>> /\ new[Init1] = joint /\ \A p \in Tasks \ {t, Init1} : new[p] = kids[p]  BY <1>1
<1>9. DOMAIN new = Tasks  OBVIOUS
<1> HIDE DEF new
<1>10. \A p \in Tasks : new[p] \in Seq(Tasks) /\ IsInjective(new[p])  BY <1>1, <1>2, <1>5, <1>7, <1>8
<1>11. new \in [Tasks -> Seq(Tasks)]
  <2>1. new = [p \in Tasks |-> new[p]]  BY <1>9 DEF new
  <2> QED  BY <2>1, <1>10
<1>12. Reparented(t).parent = [u \in Tasks |-> IF u \in Range(kids[t]) THEN Init1 ELSE parent[u]]
  BY <1>6 DEF Reparented
<1> QED  BY <1>5, <1>6, <1>7, <1>8, <1>10, <1>11, <1>12

\* An event to a parent leaves a count that is in range.
LEMMA NotifyType ==
    ASSUME TypeOK, NEW p \in Tasks \cup {None}
    PROVE  Notify(p) \in [Tasks -> 0..QUEUE_SIZE]
<1>1. CASE Notify(p) = inbox  BY <1>1 DEF TypeOK
<1>2. CASE p # None /\ inbox[p] < QUEUE_SIZE /\ Notify(p) = [inbox EXCEPT ![p] = @ + 1]
  <2>1. inbox[p] + 1 \in 0..QUEUE_SIZE  BY SMT, Z3, <1>2, ProcessAssumption DEF TypeOK
  <2> QED  BY <1>2, <2>1 DEF TypeOK
<1> QED  BY <1>1, <1>2 DEF Notify

\* terminate_current_locked keeps the types.
LEMMA TerminateTypes ==
    ASSUME FamilyInv, NEW t \in Tasks \ {Init1}, NEW woken, Terminate(t, woken),
           NEW l \in {"poke", "dead"}, NEW u \in Tasks \cup {None}, Goto(t, l, u),
           kill' \in [Tasks -> BOOLEAN]
    PROVE  TypeOK'
<1>1. TypeOK  BY DEF FamilyInv
<1>2. st' \in [Tasks -> {"none", "RUN", "BLOCKED", "WAITING", "ZOMBIE"}]  BY <1>1 DEF Terminate, TypeOK
<1>3. parent' \in [Tasks -> Tasks \cup {None}]
  <2>1. parent' = [v \in Tasks |-> IF v \in Range(kids[t]) THEN Init1 ELSE parent[v]]
    BY ReparentedFacts DEF Terminate
  <2> QED  BY <1>1, <2>1, ProcessAssumption DEF TypeOK
<1>4. kids' \in [Tasks -> Seq(Tasks)]  BY ReparentedFacts DEF Terminate
<1>5. inbox' \in [Tasks -> 0..QUEUE_SIZE]  BY <1>1, NotifyType DEF Terminate, TypeOK
<1>6. pc' \in [Tasks -> {"user", "wait", "read", "reap", "poke", "dead", "gone"}]
      /\ peer' \in [Tasks -> Tasks \cup {None}]
  BY <1>1 DEF Goto, TypeOK
<1> QED  BY <1>2, <1>3, <1>4, <1>5, <1>6 DEF TypeOK

\* Who dies is not init.
LEMMA DiesMortal ==
    ASSUME FamilyInv, NEW t \in Tasks, Exit(t) \/ Fault(t) \/ ApplyKill(t)
    PROVE  t \in Tasks \ {Init1} /\ st[t] = "RUN" /\ pc[t] = "user" /\ parent[t] \in Tasks \cup {None}
BY ProcessAssumption DEF FamilyInv, TypeOK, Exit, Fault, ApplyKill, Runs

\* Every step keeps the types.
LEMMA FamilyTypes == FamilyInv /\ [Next]_vars => TypeOK'
<1> SUFFICES ASSUME FamilyInv, [Next]_vars PROVE TypeOK'
  OBVIOUS
<1>t. TypeOK  BY DEF FamilyInv
<1>0. CASE UNCHANGED vars  BY <1>t, <1>0 DEF vars, TypeOK
<1>1. ASSUME NEW t \in Tasks, Poke(t) PROVE TypeOK'
  BY <1>t, <1>1 DEF Poke, Goto, TypeOK
<1>2. ASSUME NEW t \in Tasks, SwitchAway(t) \/ CallWait(t) \/ CallRead(t) PROVE TypeOK'
  BY <1>t, <1>2 DEF SwitchAway, CallWait, CallRead, Goto, TypeOK
<1>3. ASSUME NEW t \in Tasks, WaitTurn(t) PROVE TypeOK'
  <2>1. \A S : Only(kids[t], S) \in Seq(Tasks)  BY <1>t, FilteredList DEF TypeOK
  <2>2. \A c \in FirstZombie(t) : c \in Tasks  BY <1>t, FirstZombieFacts
  <2>3. kids' \in [Tasks -> Seq(Tasks)]
    <3>1. kids' = kids \/ \E S : kids' = [kids EXCEPT ![t] = Only(kids[t], S)]  BY <1>3 DEF WaitTurn
    <3>2. CASE kids' = kids  BY <1>t, <3>2 DEF TypeOK
    <3>3. ASSUME NEW S, kids' = [kids EXCEPT ![t] = Only(kids[t], S)] PROVE kids' \in [Tasks -> Seq(Tasks)]
      <4> DEFINE k == Only(kids[t], S)
      <4>1. k \in Seq(Tasks)  BY <2>1
      <4> HIDE DEF k
      <4>2. kids' = [kids EXCEPT ![t] = k]  BY <3>3 DEF k
      <4> QED  BY <1>t, <4>1, <4>2 DEF TypeOK
    <3> QED  BY <3>1, <3>2, <3>3
  <2>4. st' \in [Tasks -> {"none", "RUN", "BLOCKED", "WAITING", "ZOMBIE"}]  BY <1>t, <1>3 DEF WaitTurn, TypeOK
  <2>5. pc' \in [Tasks -> {"user", "wait", "read", "reap", "poke", "dead", "gone"}]
    <3>1. pc' = pc \/ pc' = [pc EXCEPT ![t] = "user"] \/ pc' = [pc EXCEPT ![t] = "reap"]
      BY <1>3 DEF WaitTurn, Goto
    <3> QED  BY <1>t, <3>1 DEF TypeOK
  <2>6. peer' \in [Tasks -> Tasks \cup {None}]
    <3>1. peer' = peer \/ \E c \in Tasks \cup {None} : peer' = [peer EXCEPT ![t] = c]
      BY <1>3, <2>2 DEF WaitTurn, Goto
    <3> QED  BY <1>t, <3>1 DEF TypeOK
  <2> QED  BY <1>t, <1>3, <2>3, <2>4, <2>5, <2>6 DEF WaitTurn, TypeOK
<1>4. ASSUME NEW t \in Tasks, Reap(t) PROVE TypeOK'
  BY <1>t, <1>4 DEF Reap, Goto, TypeOK
<1>5. ASSUME NEW t \in Tasks, ReadTurn(t) PROVE TypeOK'
  <2>1. \A n \in 1..inbox[t] : inbox[t] - n \in 0..QUEUE_SIZE  BY SMT, Z3, <1>t, ProcessAssumption DEF TypeOK
  <2>2. inbox' \in [Tasks -> 0..QUEUE_SIZE]  BY <1>t, <1>5, <2>1 DEF ReadTurn, TypeOK
  <2> QED  BY <1>t, <1>5, <2>2 DEF ReadTurn, Goto, TypeOK
<1>6. ASSUME NEW t \in Tasks, Exec(t) PROVE TypeOK'
  <2>1. 0 \in 0..QUEUE_SIZE  BY SMT, Z3, ProcessAssumption
  <2> QED  BY <1>t, <1>6, <2>1 DEF Exec, TypeOK
<1>7. ASSUME NEW t \in Tasks, Exit(t) PROVE TypeOK'
  BY <1>t, <1>7, DiesMortal, TerminateTypes DEF Exit, TypeOK
<1>8. ASSUME NEW t \in Tasks, Fault(t) PROVE TypeOK'
  BY <1>t, <1>8, DiesMortal, TerminateTypes DEF Fault, TypeOK
<1>9. ASSUME NEW t \in Tasks, ApplyKill(t) PROVE TypeOK'
  <2>1. kill' \in [Tasks -> BOOLEAN]  BY <1>t, <1>9 DEF ApplyKill, TypeOK
  <2> QED  BY <1>9, <2>1, DiesMortal, TerminateTypes DEF ApplyKill
<1>10. ASSUME NEW t \in Tasks, NEW c \in Tasks, Clone(t, c) PROVE TypeOK'
  <2>1. <<c>> \o kids[t] \in Seq(Tasks) /\ <<>> \in Seq(Tasks)
    <3>1. <<c>> \in Seq(Tasks) /\ kids[t] \in Seq(Tasks)  BY SMT, Z3, <1>t DEF TypeOK
    <3> QED  BY <3>1, ConcatLists, EmptySeq
  <2>2. 0 \in 0..QUEUE_SIZE  BY SMT, Z3, ProcessAssumption
  <2> QED  BY <1>t, <1>10, <2>1, <2>2 DEF Clone, TypeOK
<1>11. ASSUME NEW t \in Tasks, NEW u \in Tasks, SendKill(t, u) PROVE TypeOK'
  BY <1>t, <1>11 DEF SendKill, Goto, TypeOK
<1>12. ASSUME NEW t \in Tasks, NEW u \in Tasks, SendEvent(t, u) PROVE TypeOK'
  <2>1. \A n \in 1..(QUEUE_SIZE - inbox[u]) : inbox[u] + n \in 0..QUEUE_SIZE
    BY SMT, Z3, <1>t, ProcessAssumption DEF TypeOK
  <2>2. inbox' \in [Tasks -> 0..QUEUE_SIZE]  BY <1>t, <1>12, <2>1 DEF SendEvent, TypeOK
  <2> QED  BY <1>t, <1>12, <2>2 DEF SendEvent, Goto, TypeOK
<1> QED
  BY <1>0, <1>1, <1>2, <1>3, <1>4, <1>5, <1>6, <1>7, <1>8, <1>9, <1>10, <1>11, <1>12 DEF Next, Step

\* A step that leaves lists and parents alone, and neither kills, frees nor
\* reaps anybody, keeps the tree.
LEMMA SameTree ==
    ASSUME FamilyInv, TypeOK', UNCHANGED <<parent, kids>>,
           \A t \in Tasks : \/ st'[t] = st[t]
                            \/ st[t] \in {"RUN", "BLOCKED", "WAITING"} /\ st'[t] \in {"RUN", "BLOCKED", "WAITING"},
           \A t \in Tasks : pc[t] = "reap" => pc'[t] = "reap" /\ peer'[t] = peer[t] /\ st'[t] = st[t],
           \A t \in Tasks : pc'[t] = "reap" => pc[t] = "reap",
           \A t \in Tasks : st[t] = "ZOMBIE" => pc'[t] \in {"poke", "dead", "gone"},
           \A t \in Tasks : kill'[t] => kill[t] \/ t \in Mortal
    PROVE  FamilyInv'
<1>1. TypeOK /\ TreeConsistent /\ Reaping /\ Init1 \in Tasks  BY ProcessAssumption DEF FamilyInv
<1>2. TreeConsistent'
  <2>1. \A c \in Tasks : st'[c] = "none" <=> st[c] = "none"  BY <1>1 DEF TypeOK
  <2>2. \A c \in Tasks : Alive(c) => st'[c] \notin {"none", "ZOMBIE"}  BY DEF Alive
  <2>3. /\ \A p \in Tasks : IsInjective(kids'[p])
        /\ \A p, c \in Tasks : c \in Range(kids'[p]) => parent'[c] = p /\ st'[c] # "none"
    BY SMT, Z3, <1>1, <2>1 DEF TreeConsistent
  <2>4. ASSUME NEW c \in Tasks \ {Init1}, st'[c] # "none"
        PROVE  \/ parent'[c] # None /\ st'[parent'[c]] \notin {"none", "ZOMBIE"} /\ c \in Range(kids'[parent'[c]])
               \/ \E v \in Tasks : pc'[v] = "reap" /\ peer'[v] = c
    <3>1. CASE \E v \in Tasks : pc[v] = "reap" /\ peer[v] = c  BY <3>1
    <3>2. CASE parent[c] # None /\ Alive(parent[c]) /\ c \in Range(kids[parent[c]])
      <4>1. parent[c] \in Tasks  BY SMT, Z3, <1>1, <3>2 DEF TypeOK
      <4> QED  BY <2>2, <3>2, <4>1
    <3> QED  BY <1>1, <2>1, <2>4, <3>1, <3>2 DEF TreeConsistent
  <2> QED  BY <2>3, <2>4 DEF TreeConsistent, Alive
<1>3. Reaping'  BY SMT, Z3, <1>1 DEF Reaping
<1>4. Alive(Init1)' /\ \A p \in Tasks : Init1 \notin Range(kids'[p])  BY <1>1 DEF FamilyInv, Alive
<1>5. \A t \in Tasks : st'[t] = "ZOMBIE" => pc'[t] \in {"poke", "dead", "gone"}  OBVIOUS
<1>6. \A t \in Tasks : kill'[t] => t \in Mortal  BY DEF FamilyInv
<1> QED  BY <1>2, <1>3, <1>4, <1>5, <1>6 DEF FamilyInv

\* What terminate_current_locked does: the task is dead, its children are
\* init's, who sleeps is woken, and no count but that of its parent changes.
LEMMA TerminateEffect ==
    ASSUME FamilyInv, NEW t \in Tasks \ {Init1},
           NEW woken, \A v \in Tasks : v \in woken => Blocked(v), Terminate(t, woken),
           NEW l, NEW u, Goto(t, l, u)
    PROVE  /\ \A v \in Tasks : parent'[v] = IF v \in Range(kids[t]) THEN Init1 ELSE parent[v]
           /\ \A p \in Tasks : IsInjective(kids'[p])
           /\ Range(kids'[t]) = {}
           /\ Range(kids'[Init1]) = Range(kids[Init1]) \cup Range(kids[t])
           /\ \A p \in Tasks \ {t, Init1} : Range(kids'[p]) = Range(kids[p])
           /\ st'[t] = "ZOMBIE"
           /\ \A v \in Tasks \ {t} : st'[v] = st[v] \/ (Blocked(v) /\ st'[v] = "RUN")
           /\ \A v \in Tasks \ {t} : v \in woken => st'[v] = "RUN"
           /\ Range(kids[t]) # {} => st'[Init1] # "BLOCKED"
           /\ \A v \in Tasks \ {parent[t]} : inbox'[v] = inbox[v]
           /\ pc'[t] = l /\ peer'[t] = u
           /\ \A v \in Tasks \ {t} : pc'[v] = pc[v] /\ peer'[v] = peer[v]
<1>1. TypeOK /\ Init1 \in Tasks /\ Init1 # None  BY ProcessAssumption DEF FamilyInv
<1>2. /\ \A v \in Tasks : parent'[v] = IF v \in Range(kids[t]) THEN Init1 ELSE parent[v]
      /\ \A p \in Tasks : IsInjective(kids'[p])
      /\ Range(kids'[t]) = {}
      /\ Range(kids'[Init1]) = Range(kids[Init1]) \cup Range(kids[t])
      /\ \A p \in Tasks \ {t, Init1} : Range(kids'[p]) = Range(kids[p])
  <2>1. parent' = Reparented(t).parent /\ kids' = Reparented(t).kids  BY DEF Terminate
  <2>2. parent' = [v \in Tasks |-> IF v \in Range(kids[t]) THEN Init1 ELSE parent[v]]  BY <2>1, ReparentedFacts
  <2>3. \A v \in Tasks : parent'[v] = IF v \in Range(kids[t]) THEN Init1 ELSE parent[v]  BY <2>2
  <2> QED  BY <2>1, <2>3, ReparentedFacts
<1>3. st' = [v \in Tasks |-> IF v = t THEN "ZOMBIE"
                             ELSE IF v \in AdopterWoken(t) \cup woken THEN "RUN" ELSE st[v]]
  BY DEF Terminate
<1>4. \A v \in Tasks : v \in AdopterWoken(t) => Blocked(v)  BY DEF AdopterWoken, Blocked
<1>5. st'[t] = "ZOMBIE"  BY <1>3
<1>6. ASSUME NEW v \in Tasks \ {t}
      PROVE  /\ st'[v] = st[v] \/ (Blocked(v) /\ st'[v] = "RUN")
             /\ v \in woken => st'[v] = "RUN"
  <2>1. st'[v] = IF v \in AdopterWoken(t) \cup woken THEN "RUN" ELSE st[v]  BY <1>3
  <2> QED  BY <1>4, <2>1
<1>7. Range(kids[t]) # {} => st'[Init1] # "BLOCKED"
  <2>1. Range(kids[t]) # {} => kids[t] # <<>>  BY <1>1, EmptyList DEF TypeOK
  <2>2. st'[Init1] = IF Init1 \in AdopterWoken(t) \cup woken THEN "RUN" ELSE st[Init1]  BY <1>1, <1>3
  <2>3. kids[t] # <<>> /\ st[Init1] = "BLOCKED" => Init1 \in AdopterWoken(t)  BY <1>1 DEF AdopterWoken, Adopter
  <2> QED  BY <2>1, <2>2, <2>3
<1>8. \A v \in Tasks \ {parent[t]} : inbox'[v] = inbox[v]
  BY <1>1 DEF Terminate, Notify, TypeOK
<1>9. /\ pc'[t] = l /\ peer'[t] = u
      /\ \A v \in Tasks \ {t} : pc'[v] = pc[v] /\ peer'[v] = peer[v]
  BY <1>1 DEF Goto, TypeOK
<1> QED  BY <1>2, <1>5, <1>6, <1>7, <1>8, <1>9

\* terminate_current_locked hands the children of the dead to init.
LEMMA TerminateTree ==
    ASSUME FamilyInv, TypeOK', NEW t \in Tasks \ {Init1}, st[t] = "RUN", pc[t] = "user",
           NEW woken, \A v \in Tasks : v \in woken => Blocked(v), Terminate(t, woken),
           NEW l \in {"poke", "dead"}, NEW u \in Tasks \cup {None}, Goto(t, l, u),
           \A v \in Tasks : kill'[v] => kill[v]
    PROVE  FamilyInv'
<1>1. TypeOK /\ TreeConsistent /\ Reaping /\ Init1 \in Tasks /\ Alive(Init1)  BY ProcessAssumption DEF FamilyInv
<1>2. /\ \A v \in Tasks : parent'[v] = IF v \in Range(kids[t]) THEN Init1 ELSE parent[v]
      /\ \A p \in Tasks : IsInjective(kids'[p])
      /\ Range(kids'[t]) = {}
      /\ Range(kids'[Init1]) = Range(kids[Init1]) \cup Range(kids[t])
      /\ \A p \in Tasks \ {t, Init1} : Range(kids'[p]) = Range(kids[p])
  BY TerminateEffect
<1>3. /\ st'[t] = "ZOMBIE"
      /\ \A v \in Tasks \ {t} : st'[v] = st[v] \/ (Blocked(v) /\ st'[v] = "RUN")
  BY TerminateEffect
<1>4. /\ pc'[t] = l /\ \A v \in Tasks \ {t} : pc'[v] = pc[v] /\ peer'[v] = peer[v]
  BY TerminateEffect
<1>5. /\ \A p, c \in Tasks : c \in Range(kids[p]) => parent[c] = p /\ st[c] # "none"
      /\ \A c \in Tasks \ {Init1} : st[c] # "none" =>
          \/ parent[c] # None /\ Alive(parent[c]) /\ c \in Range(kids[parent[c]])
          \/ \E v \in Tasks : pc[v] = "reap" /\ peer[v] = c
  BY <1>1 DEF TreeConsistent
<1>6. /\ \A v \in Tasks : Alive(v) /\ v # t => Alive(v)'
      /\ \A v \in Tasks : st[v] = "none" <=> st'[v] = "none"
  BY <1>1, <1>3 DEF Alive, Blocked
<1>7. \A p, c \in Tasks : c \in Range(kids'[p]) => parent'[c] = p /\ st'[c] # "none"
  BY SMT, Z3, <1>1, <1>2, <1>5, <1>6
<1>8. ASSUME NEW c \in Tasks \ {Init1}, st'[c] # "none"
      PROVE  \/ parent'[c] # None /\ st'[parent'[c]] \notin {"none", "ZOMBIE"} /\ c \in Range(kids'[parent'[c]])
             \/ \E v \in Tasks : pc'[v] = "reap" /\ peer'[v] = c
  <2>1. CASE \E v \in Tasks : pc[v] = "reap" /\ peer[v] = c  BY <1>4, <2>1
  <2>2. CASE parent[c] # None /\ Alive(parent[c]) /\ c \in Range(kids[parent[c]])
    <3>1. parent[c] \in Tasks /\ None \notin Tasks  BY <1>1, <2>2, ProcessAssumption DEF TypeOK
    <3>2. CASE parent[c] = t
      <4>1. parent'[c] = Init1 /\ c \in Range(kids'[Init1])  BY <1>2, <2>2, <3>2
      <4> QED  BY <1>1, <1>6, <3>1, <4>1 DEF Alive
    <3>3. CASE parent[c] # t
      <4>1. c \notin Range(kids[t])  BY SMT, Z3, <1>5, <3>3
      <4>2. parent'[c] = parent[c] /\ Range(kids[parent[c]]) \subseteq Range(kids'[parent[c]])
        BY <1>1, <1>2, <3>1, <3>3, <4>1
      <4> QED  BY <1>6, <2>2, <3>1, <3>3, <4>2 DEF Alive
    <3> QED  BY <3>2, <3>3
  <2> QED  BY <1>5, <1>6, <1>8, <2>1, <2>2
<1>9. TreeConsistent'  BY <1>2, <1>7, <1>8 DEF TreeConsistent, Alive
<1>10. Reaping'
  <2> SUFFICES ASSUME NEW v \in Tasks, pc'[v] = "reap"
               PROVE  /\ st'[v] = "RUN" /\ peer'[v] \in Tasks \ {Init1}
                      /\ st'[peer'[v]] = "ZOMBIE" /\ parent'[peer'[v]] = v
                      /\ \A p \in Tasks : peer'[v] \notin Range(kids'[p])
    BY DEF Reaping
  <2>1. v # t /\ pc[v] = "reap" /\ peer'[v] = peer[v]  BY <1>4
  <2>2. /\ st[v] = "RUN" /\ peer[v] \in Tasks \ {Init1}
        /\ st[peer[v]] = "ZOMBIE" /\ parent[peer[v]] = v
        /\ \A p \in Tasks : peer[v] \notin Range(kids[p])
    BY <1>1, <2>1 DEF Reaping
  <2>3. st'[v] = "RUN" /\ st'[peer[v]] = "ZOMBIE"  BY <1>3, <2>1, <2>2 DEF Blocked
  <2>4. parent'[peer[v]] = v /\ \A p \in Tasks : peer[v] \notin Range(kids'[p])  BY <1>1, <1>2, <2>2
  <2> QED  BY <2>1, <2>2, <2>3, <2>4
<1>11. Alive(Init1)' /\ \A p \in Tasks : Init1 \notin Range(kids'[p])  BY <1>1, <1>2, <1>6 DEF FamilyInv
<1>12. \A v \in Tasks : st'[v] = "ZOMBIE" => pc'[v] \in {"poke", "dead", "gone"}
  BY <1>3, <1>4 DEF FamilyInv, Blocked
<1>13. \A v \in Tasks : kill'[v] => v \in Mortal  BY DEF FamilyInv
<1> QED  BY <1>9, <1>10, <1>11, <1>12, <1>13 DEF FamilyInv

\* The parent that exit wakes sleeps.
LEMMA WokenSleeps == \A t, v \in Tasks : v \in ParentWoken(t) => Blocked(v)
BY DEF ParentWoken

\* Clone links a new child into the list of its living parent.
LEMMA CloneTree ==
    ASSUME FamilyInv, TypeOK', NEW t \in Tasks, NEW c \in Tasks, Clone(t, c)
    PROVE  FamilyInv'
<1>1. TypeOK /\ TreeConsistent /\ Reaping /\ Init1 \in Tasks /\ Alive(Init1)  BY ProcessAssumption DEF FamilyInv
<1>2. /\ st[t] = "RUN" /\ pc[t] = "user" /\ st[c] = "none" /\ \A u \in Tasks : peer[u] # c
      /\ st' = [st EXCEPT ![c] = "RUN"] /\ parent' = [parent EXCEPT ![c] = t]
      /\ kids' = [kids EXCEPT ![t] = <<c>> \o @, ![c] = <<>>]
      /\ pc' = [pc EXCEPT ![c] = "user"] /\ kill' = [kill EXCEPT ![c] = FALSE] /\ UNCHANGED peer
  BY DEF Clone, Runs, FamilyInv
<1>3. t # c /\ c # Init1  BY <1>1, <1>2 DEF Alive
<1>4. /\ \A p, d \in Tasks : d \in Range(kids[p]) => parent[d] = p /\ st[d] # "none"
      /\ \A d \in Tasks \ {Init1} : st[d] # "none" =>
          \/ parent[d] # None /\ Alive(parent[d]) /\ d \in Range(kids[parent[d]])
          \/ \E v \in Tasks : pc[v] = "reap" /\ peer[v] = d
      /\ \A p \in Tasks : IsInjective(kids[p]) /\ kids[p] \in Seq(Tasks)
  BY <1>1 DEF TreeConsistent, TypeOK
<1>5. kids'[t] = <<c>> \o kids[t] /\ kids'[c] = <<>> /\ \A p \in Tasks \ {t, c} : kids'[p] = kids[p]
  BY <1>1, <1>2, <1>3 DEF TypeOK
<1>6. Range(kids'[t]) = Range(kids[t]) \cup {c} /\ IsInjective(kids'[t])
  <2> DEFINE single == <<c>>
  <2>1. single \in Seq(Tasks) /\ Range(single) = {c} /\ IsInjective(single)  BY SMT, Z3 DEF Range, IsInjective
  <2>2. c \notin Range(kids[t])  BY <1>2, <1>4
  <2> HIDE DEF single
  <2>3. /\ Range(single \o kids[t]) = Range(single) \cup Range(kids[t])
        /\ IsInjective(single \o kids[t])
    BY SMT, Z3, <1>4, <2>1, <2>2, ConcatLists
  <2> QED  BY <1>5, <2>1, <2>3 DEF single
<1>7. Range(kids'[c]) = {} /\ IsInjective(kids'[c])  BY SMT, Z3, <1>5 DEF Range, IsInjective
<1>8. /\ parent'[c] = t /\ st'[c] = "RUN" /\ pc'[c] = "user"
      /\ \A d \in Tasks \ {c} : parent'[d] = parent[d] /\ st'[d] = st[d] /\ pc'[d] = pc[d] /\ kill'[d] = kill[d]
      /\ ~kill'[c] /\ \A d \in Tasks : peer'[d] = peer[d]
  BY SMT, Z3, <1>1, <1>2 DEF TypeOK
<1>9. TreeConsistent'
  <2>1. \A p \in Tasks : IsInjective(kids'[p])  BY <1>4, <1>5, <1>6, <1>7
  <2>2. \A p, d \in Tasks : d \in Range(kids'[p]) => parent'[d] = p /\ st'[d] # "none"
    <3> SUFFICES ASSUME NEW p \in Tasks, NEW d \in Tasks, d \in Range(kids'[p])
                 PROVE  parent'[d] = p /\ st'[d] # "none"
      OBVIOUS
    <3>1. p # c  BY <1>7
    <3>2. CASE d = c
      <4>1. p = t  BY <1>2, <1>4, <1>5, <3>1, <3>2
      <4> QED  BY <1>8, <3>2, <4>1
    <3>3. CASE d # c
      <4>1. d \in Range(kids[p])  BY <1>5, <1>6, <3>1, <3>3
      <4> QED  BY SMT, Z3, <1>4, <1>8, <3>3, <4>1
    <3> QED  BY <3>2, <3>3
  <2>3. ASSUME NEW d \in Tasks \ {Init1}, st'[d] # "none"
        PROVE  \/ parent'[d] # None /\ st'[parent'[d]] \notin {"none", "ZOMBIE"} /\ d \in Range(kids'[parent'[d]])
               \/ \E v \in Tasks : pc'[v] = "reap" /\ peer'[v] = d
    <3>1. CASE d = c
      <4>1. t # None /\ st'[t] = "RUN" /\ c \in Range(kids'[t])  BY <1>2, <1>3, <1>6, <1>8, ProcessAssumption
      <4> QED  BY <1>8, <3>1, <4>1
    <3>2. CASE d # c /\ \E v \in Tasks : pc[v] = "reap" /\ peer[v] = d
      <4>1. PICK v \in Tasks : pc[v] = "reap" /\ peer[v] = d  BY <3>2
      <4>2. v # c  BY <1>1, <1>2, <4>1 DEF Reaping
      <4> QED  BY <1>8, <4>1, <4>2
    <3>3. CASE d # c /\ parent[d] # None /\ Alive(parent[d]) /\ d \in Range(kids[parent[d]])
      <4>1. parent[d] \in Tasks /\ parent[d] # c  BY <1>1, <1>2, <3>3 DEF TypeOK, Alive
      <4>2. d \in Range(kids'[parent[d]])  BY <1>5, <1>6, <3>3, <4>1
      <4> QED  BY <1>8, <3>3, <4>1, <4>2 DEF Alive
    <3> QED  BY SMT, Z3, <1>4, <1>8, <2>3, <3>1, <3>2, <3>3
  <2> QED  BY <2>1, <2>2, <2>3 DEF TreeConsistent, Alive
<1>10. Reaping'
  <2>1. \A p \in Tasks : Range(kids'[p]) \subseteq Range(kids[p]) \cup {c}  BY <1>5, <1>6, <1>7
  <2> SUFFICES ASSUME NEW v \in Tasks, pc'[v] = "reap"
               PROVE  /\ st'[v] = "RUN" /\ peer'[v] \in Tasks \ {Init1}
                      /\ st'[peer'[v]] = "ZOMBIE" /\ parent'[peer'[v]] = v
                      /\ \A p \in Tasks : peer'[v] \notin Range(kids'[p])
    BY DEF Reaping
  <2>2. v # c /\ pc[v] = "reap" /\ peer'[v] = peer[v] /\ peer[v] # c  BY <1>2, <1>8
  <2>3. /\ st[v] = "RUN" /\ peer[v] \in Tasks \ {Init1}
        /\ st[peer[v]] = "ZOMBIE" /\ parent[peer[v]] = v
        /\ \A p \in Tasks : peer[v] \notin Range(kids[p])
    BY <1>1, <2>2 DEF Reaping
  <2>4. st'[v] = "RUN" /\ st'[peer[v]] = "ZOMBIE" /\ parent'[peer[v]] = v  BY <1>8, <2>2, <2>3
  <2>5. \A p \in Tasks : peer[v] \notin Range(kids'[p])  BY <2>1, <2>2, <2>3
  <2> QED  BY <2>2, <2>3, <2>4, <2>5
<1>11. Alive(Init1)' /\ \A p \in Tasks : Init1 \notin Range(kids'[p])
  <2>1. \A p \in Tasks : Range(kids'[p]) \subseteq Range(kids[p]) \cup {c}  BY <1>5, <1>6, <1>7
  <2>2. \A p \in Tasks : Init1 \notin Range(kids[p])  BY DEF FamilyInv
  <2>3. Alive(Init1)'  BY <1>1, <1>3, <1>8 DEF Alive
  <2> QED  BY <1>3, <2>1, <2>2, <2>3
<1>12. \A v \in Tasks : st'[v] = "ZOMBIE" => pc'[v] \in {"poke", "dead", "gone"}  BY <1>8 DEF FamilyInv
<1>13. \A v \in Tasks : kill'[v] => v \in Mortal  BY <1>8 DEF FamilyInv
<1> QED  BY <1>9, <1>10, <1>11, <1>12, <1>13 DEF FamilyInv

\* wait() takes the dead child it has found out of its list.
LEMMA TakeTree ==
    ASSUME FamilyInv, TypeOK', NEW t \in Tasks, NEW c \in FirstZombie(t), st[t] = "RUN", pc[t] = "wait",
           kids' = [kids EXCEPT ![t] = Only(@, Tasks \ {c})], Goto(t, "reap", c),
           UNCHANGED <<st, parent, kill>>
    PROVE  FamilyInv'
<1>1. TypeOK /\ TreeConsistent /\ Reaping /\ Init1 \in Tasks /\ Alive(Init1)  BY ProcessAssumption DEF FamilyInv
<1>2. c \in Tasks /\ c \in Range(kids[t]) /\ st[c] = "ZOMBIE"  BY <1>1, FirstZombieFacts
<1>3. /\ \A p, d \in Tasks : d \in Range(kids[p]) => parent[d] = p /\ st[d] # "none"
      /\ \A d \in Tasks \ {Init1} : st[d] # "none" =>
          \/ parent[d] # None /\ Alive(parent[d]) /\ d \in Range(kids[parent[d]])
          \/ \E v \in Tasks : pc[v] = "reap" /\ peer[v] = d
      /\ \A p \in Tasks : IsInjective(kids[p]) /\ kids[p] \in Seq(Tasks)
      /\ \A p \in Tasks : Init1 \notin Range(kids[p])
  BY <1>1 DEF TreeConsistent, TypeOK, FamilyInv
<1>4. kids'[t] = Only(kids[t], Tasks \ {c}) /\ \A p \in Tasks \ {t} : kids'[p] = kids[p]  BY <1>1 DEF TypeOK
<1>5. Range(kids'[t]) = Range(kids[t]) \ {c} /\ IsInjective(kids'[t])
  <2>1. Range(kids[t]) \subseteq Tasks  BY <1>3, RangeOfSeq
  <2> QED  BY SMT, Z3, <1>3, <1>4, <2>1, FilteredList
<1>6. /\ pc'[t] = "reap" /\ peer'[t] = c
      /\ \A v \in Tasks \ {t} : pc'[v] = pc[v] /\ peer'[v] = peer[v]
  BY <1>1 DEF Goto, TypeOK
<1>7. \A p \in Tasks : Range(kids'[p]) \subseteq Range(kids[p])  BY <1>4, <1>5
<1>8. \A p \in Tasks : c \notin Range(kids'[p])
  <2>1. parent[c] = t  BY SMT, Z3, <1>2, <1>3
  <2>2. ASSUME NEW p \in Tasks \ {t} PROVE c \notin Range(kids'[p])
    <3>1. kids'[p] = kids[p]  BY <1>4
    <3> QED  BY SMT, Z3, <1>2, <1>3, <2>1, <3>1
  <2> QED  BY <1>5, <2>2
<1>9. TreeConsistent'
  <2>1. \A p \in Tasks : IsInjective(kids'[p])  BY <1>3, <1>4, <1>5
  <2>2. \A p, d \in Tasks : d \in Range(kids'[p]) => parent'[d] = p /\ st'[d] # "none"
    <3>1. \A p, d \in Tasks : d \in Range(kids'[p]) => d \in Range(kids[p])  BY <1>7
    <3>2. \A p, d \in Tasks : d \in Range(kids[p]) => parent[d] = p /\ st[d] # "none"  BY <1>3
    <3>3. parent' = parent /\ st' = st  OBVIOUS
    <3> QED  BY Zenon, <3>1, <3>2, <3>3
  <2>3. ASSUME NEW d \in Tasks \ {Init1}, st'[d] # "none"
        PROVE  \/ parent'[d] # None /\ st'[parent'[d]] \notin {"none", "ZOMBIE"} /\ d \in Range(kids'[parent'[d]])
               \/ \E v \in Tasks : pc'[v] = "reap" /\ peer'[v] = d
    <3>1. CASE d = c  BY <1>6, <3>1
    <3>2. CASE \E v \in Tasks : pc[v] = "reap" /\ peer[v] = d  BY <1>6, <3>2
    <3>3. CASE d # c /\ parent[d] # None /\ Alive(parent[d]) /\ d \in Range(kids[parent[d]])
      <4>1. parent[d] \in Tasks  BY <1>1, <3>3 DEF TypeOK
      <4>2. d \in Range(kids'[parent[d]])  BY <1>4, <1>5, <3>3, <4>1
      <4> QED  BY <3>3, <4>2 DEF Alive
    <3> QED  BY <1>3, <2>3, <3>1, <3>2, <3>3
  <2> QED  BY <2>1, <2>2, <2>3 DEF TreeConsistent, Alive
<1>10. Reaping'
  <2> SUFFICES ASSUME NEW v \in Tasks, pc'[v] = "reap"
               PROVE  /\ st'[v] = "RUN" /\ peer'[v] \in Tasks \ {Init1}
                      /\ st'[peer'[v]] = "ZOMBIE" /\ parent'[peer'[v]] = v
                      /\ \A p \in Tasks : peer'[v] \notin Range(kids'[p])
    BY DEF Reaping
  <2>1. CASE v = t
    <3>1. c \in Tasks \ {Init1} /\ parent[c] = t  BY SMT, Z3, <1>2, <1>3
    <3>2. st'[c] = "ZOMBIE" /\ parent'[c] = t /\ st'[t] = "RUN" /\ peer'[t] = c  BY <1>2, <1>6, <3>1
    <3> QED  BY <1>8, <2>1, <3>1, <3>2
  <2>2. CASE v # t
    <3>1. pc[v] = "reap" /\ peer'[v] = peer[v]  BY <1>6, <2>2
    <3> QED  BY <1>1, <1>7, <3>1 DEF Reaping
  <2> QED  BY <2>1, <2>2
<1>11. Alive(Init1)' /\ \A p \in Tasks : Init1 \notin Range(kids'[p])  BY <1>1, <1>3, <1>7 DEF Alive
<1>12. \A v \in Tasks : st'[v] = "ZOMBIE" => pc'[v] \in {"poke", "dead", "gone"}
  BY <1>6 DEF FamilyInv
<1>13. \A v \in Tasks : kill'[v] => v \in Mortal  BY DEF FamilyInv
<1> QED  BY <1>9, <1>10, <1>11, <1>12, <1>13 DEF FamilyInv

\* .. and frees it.
LEMMA ReapTree ==
    ASSUME FamilyInv, TypeOK', NEW t \in Tasks, Reap(t)
    PROVE  FamilyInv'
<1>1. TypeOK /\ TreeConsistent /\ Reaping /\ Init1 \in Tasks /\ Alive(Init1)  BY ProcessAssumption DEF FamilyInv
<1> DEFINE c == peer[t]
<1>2. pc[t] = "reap" /\ st' = [st EXCEPT ![c] = "none"] /\ parent' = [parent EXCEPT ![c] = None]
      /\ Goto(t, "user", None) /\ UNCHANGED <<kids, kill>>
  BY DEF Reap, Runs
<1>3. /\ st[t] = "RUN" /\ c \in Tasks \ {Init1} /\ st[c] = "ZOMBIE" /\ parent[c] = t
      /\ \A p \in Tasks : c \notin Range(kids[p])
  BY <1>1, <1>2 DEF Reaping
<1> HIDE DEF c
<1>4. /\ st'[c] = "none" /\ \A v \in Tasks \ {c} : st'[v] = st[v] /\ parent'[v] = parent[v]
      /\ pc'[t] = "user" /\ \A v \in Tasks \ {t} : pc'[v] = pc[v] /\ peer'[v] = peer[v]
  BY SMT, Z3, <1>1, <1>2, <1>3 DEF Goto, TypeOK
<1>5. TreeConsistent'
  <2>1. /\ \A p \in Tasks : IsInjective(kids'[p])
        /\ \A p, d \in Tasks : d \in Range(kids'[p]) => parent'[d] = p /\ st'[d] # "none"
    BY SMT, Z3, <1>1, <1>2, <1>3, <1>4 DEF TreeConsistent
  <2>2. ASSUME NEW d \in Tasks \ {Init1}, st'[d] # "none"
        PROVE  \/ parent'[d] # None /\ st'[parent'[d]] \notin {"none", "ZOMBIE"} /\ d \in Range(kids'[parent'[d]])
               \/ \E v \in Tasks : pc'[v] = "reap" /\ peer'[v] = d
    <3>1. d # c /\ st[d] # "none"  BY <1>4, <2>2
    <3>2. CASE \E v \in Tasks : pc[v] = "reap" /\ peer[v] = d
      <4>1. PICK v \in Tasks : pc[v] = "reap" /\ peer[v] = d  BY <3>2
      <4>2. v # t  BY <3>1, <4>1 DEF c
      <4> QED  BY <1>4, <4>1, <4>2
    <3>3. CASE parent[d] # None /\ Alive(parent[d]) /\ d \in Range(kids[parent[d]])
      <4>1. parent[d] \in Tasks /\ parent[d] # c  BY <1>1, <1>3, <3>3 DEF TypeOK, Alive
      <4> QED  BY SMT, Z3, <1>2, <1>4, <3>1, <3>3, <4>1 DEF Alive
    <3> QED  BY <1>1, <3>1, <3>2, <3>3 DEF TreeConsistent
  <2> QED  BY <2>1, <2>2 DEF TreeConsistent, Alive
<1>6. Reaping'
  <2> SUFFICES ASSUME NEW v \in Tasks, pc'[v] = "reap"
               PROVE  /\ st'[v] = "RUN" /\ peer'[v] \in Tasks \ {Init1}
                      /\ st'[peer'[v]] = "ZOMBIE" /\ parent'[peer'[v]] = v
                      /\ \A p \in Tasks : peer'[v] \notin Range(kids'[p])
    BY DEF Reaping
  <2>1. v # t /\ pc[v] = "reap" /\ peer'[v] = peer[v]  BY <1>4
  <2>2. /\ st[v] = "RUN" /\ peer[v] \in Tasks \ {Init1}
        /\ st[peer[v]] = "ZOMBIE" /\ parent[peer[v]] = v
        /\ \A p \in Tasks : peer[v] \notin Range(kids[p])
    BY <1>1, <2>1 DEF Reaping
  <2>3. peer[v] # c /\ v # c  BY <1>3, <2>1, <2>2
  <2> QED  BY SMT, Z3, <1>2, <1>4, <2>1, <2>2, <2>3
<1>7. Alive(Init1)' /\ \A p \in Tasks : Init1 \notin Range(kids'[p])
  BY <1>1, <1>2, <1>3, <1>4 DEF Alive, FamilyInv
<1>8. \A v \in Tasks : st'[v] = "ZOMBIE" => pc'[v] \in {"poke", "dead", "gone"}
  BY <1>3, <1>4 DEF FamilyInv
<1>9. \A v \in Tasks : kill'[v] => v \in Mortal  BY <1>2 DEF FamilyInv
<1> QED  BY <1>5, <1>6, <1>7, <1>8, <1>9 DEF FamilyInv

\* Every step keeps the tree.
LEMMA FamilyStep == FamilyInv /\ [Next]_vars => FamilyInv'
<1> SUFFICES ASSUME FamilyInv, [Next]_vars PROVE FamilyInv'
  OBVIOUS
<1>p. TypeOK'  BY FamilyTypes
<1>t. TypeOK /\ \A t \in Tasks : st[t] = "ZOMBIE" => pc[t] \in {"poke", "dead", "gone"}  BY DEF FamilyInv
<1>0. CASE UNCHANGED vars
  BY <1>p, <1>t, <1>0, SameTree DEF vars
<1>1. ASSUME NEW t \in Tasks, Poke(t) PROVE FamilyInv'
  <2>1. \A v \in Tasks : st'[v] = st[v] \/ (Blocked(v) /\ st'[v] = "RUN")
    <3>1. CASE st' = st  BY <3>1 DEF Blocked
    <3>2. CASE peer[t] # None /\ Blocked(peer[t]) /\ st' = [st EXCEPT ![peer[t]] = "RUN"]
      <4>1. peer[t] \in Tasks  BY <1>t, <3>2 DEF TypeOK
      <4> QED  BY <1>t, <3>2, <4>1 DEF TypeOK, Blocked
    <3> QED  BY <1>1, <3>1, <3>2 DEF Poke
  <2>2. /\ pc[t] = "poke" /\ pc'[t] = (IF st[t] = "ZOMBIE" THEN "dead" ELSE "user")
        /\ \A v \in Tasks \ {t} : pc'[v] = pc[v] /\ peer'[v] = peer[v]
        /\ UNCHANGED <<parent, kids, kill>>
    BY <1>t, <1>1 DEF Poke, Runs, Goto, TypeOK
  <2>3. \A v \in Tasks : pc[v] = "reap" => st[v] = "RUN"  BY DEF FamilyInv, Reaping
  <2> QED  BY <1>p, <1>t, <2>1, <2>2, <2>3, SameTree DEF Blocked
<1>2. ASSUME NEW t \in Tasks, SwitchAway(t) \/ CallWait(t) \/ CallRead(t) PROVE FamilyInv'
  <2>1. /\ \/ pc[t] = "user" /\ st[t] = "RUN" /\ pc'[t] \in {"wait", "read"}
           \/ pc[t] = "dead" /\ pc'[t] = "gone"
        /\ \A v \in Tasks \ {t} : pc'[v] = pc[v] /\ peer'[v] = peer[v]
        /\ UNCHANGED <<st, parent, kids, kill>>
    BY <1>t, <1>2 DEF SwitchAway, CallWait, CallRead, Runs, Goto, TypeOK
  <2> QED  BY <1>p, <1>t, <2>1, SameTree
<1>3. ASSUME NEW t \in Tasks, WaitTurn(t) PROVE FamilyInv'
  <2>1. pc[t] = "wait" /\ st[t] = "RUN" /\ UNCHANGED <<parent, kill>>  BY <1>3 DEF WaitTurn, Runs
  <2>2. CASE UNCHANGED <<st, kids>> /\ Goto(t, "user", None)
    <3>1. pc'[t] = "user" /\ \A v \in Tasks \ {t} : pc'[v] = pc[v] /\ peer'[v] = peer[v]
      BY <1>t, <2>2 DEF Goto, TypeOK
    <3> QED  BY <1>p, <1>t, <2>1, <2>2, <3>1, SameTree
  <2>3. CASE st' = [st EXCEPT ![t] = "BLOCKED"] /\ UNCHANGED <<kids, pc, peer>>
    <3>1. st'[t] = "BLOCKED" /\ \A v \in Tasks \ {t} : st'[v] = st[v]  BY <1>t, <2>3 DEF TypeOK
    <3> QED  BY <1>p, <1>t, <2>1, <2>3, <3>1, SameTree
  <2>4. ASSUME NEW c \in FirstZombie(t), kids' = [kids EXCEPT ![t] = Only(@, Tasks \ {c})], Goto(t, "reap", c),
               UNCHANGED st
        PROVE  FamilyInv'
    BY <1>p, <2>1, <2>4, TakeTree
  <2> QED  BY <1>3, <2>2, <2>3, <2>4 DEF WaitTurn
<1>4. ASSUME NEW t \in Tasks, Reap(t) PROVE FamilyInv'
  BY <1>p, <1>4, ReapTree
<1>5. ASSUME NEW t \in Tasks, ReadTurn(t) PROVE FamilyInv'
  <2>1. /\ pc[t] = "read" /\ st[t] = "RUN" /\ UNCHANGED <<parent, kids, kill>>
        /\ \/ st' = st /\ pc'[t] = "user"
           \/ st'[t] = "WAITING" /\ pc'[t] = "read" /\ \A v \in Tasks \ {t} : st'[v] = st[v]
        /\ \A v \in Tasks \ {t} : pc'[v] = pc[v] /\ peer'[v] = peer[v]
    BY <1>t, <1>5 DEF ReadTurn, Runs, Goto, TypeOK
  <2> QED  BY <1>p, <1>t, <2>1, SameTree
<1>6. ASSUME NEW t \in Tasks, Exec(t) PROVE FamilyInv'
  <2>1. UNCHANGED <<st, parent, kids, pc, peer>> /\ \A v \in Tasks : kill'[v] => kill[v]
    BY <1>t, <1>6 DEF Exec, TypeOK
  <2> QED  BY <1>p, <1>t, <2>1, SameTree
<1>7. ASSUME NEW t \in Tasks, Exit(t) PROVE FamilyInv'
  BY <1>p, <1>7, DiesMortal, WokenSleeps, TerminateTree DEF Exit
<1>8. ASSUME NEW t \in Tasks, Fault(t) PROVE FamilyInv'
  BY <1>p, <1>8, DiesMortal, TerminateTree DEF Fault
<1>9. ASSUME NEW t \in Tasks, ApplyKill(t) PROVE FamilyInv'
  <2>1. \A v \in Tasks : kill'[v] => kill[v]  BY <1>t, <1>9 DEF ApplyKill, TypeOK
  <2> QED  BY <1>p, <1>9, <2>1, DiesMortal, TerminateTree DEF ApplyKill
<1>10. ASSUME NEW t \in Tasks, NEW c \in Tasks, Clone(t, c) PROVE FamilyInv'
  BY <1>p, <1>10, CloneTree
<1>11. ASSUME NEW t \in Tasks, NEW u \in Tasks, SendKill(t, u) \/ SendEvent(t, u) PROVE FamilyInv'
  <2>1. /\ pc[t] = "user" /\ st[t] = "RUN" /\ pc'[t] = "poke"
        /\ \A v \in Tasks \ {t} : pc'[v] = pc[v] /\ peer'[v] = peer[v]
        /\ UNCHANGED <<st, parent, kids>>
    BY <1>t, <1>11 DEF SendKill, SendEvent, Runs, Goto, TypeOK
  <2>2. \A v \in Tasks : kill'[v] => kill[v] \/ v \in Mortal
    BY <1>t, <1>11 DEF SendKill, SendEvent, TypeOK
  <2> QED  BY <1>p, <1>t, <2>1, <2>2, SameTree
<1> QED
  BY <1>0, <1>1, <1>2, <1>3, <1>4, <1>5, <1>6, <1>7, <1>8, <1>9, <1>10, <1>11 DEF Next, Step

\* A sleeping parent of a dead child is told, by the child itself.
LEMMA NoticeFollows == FamilyInv /\ NoticeInv => NoLostNotice
<1> SUFFICES ASSUME FamilyInv, NoticeInv PROVE NoLostNotice
  OBVIOUS
<1>1. TypeOK  BY DEF FamilyInv
<1>2. ASSUME NEW p \in Tasks, st[p] = "BLOCKED", FirstZombie(p) # {} PROVE Poked(p)
  <2>1. PICK c \in FirstZombie(p) : TRUE  BY <1>2
  <2>2. c \in Tasks /\ c \in Range(kids[p]) /\ st[c] = "ZOMBIE"  BY <1>1, FirstZombieFacts
  <2>3. pc[c] = "poke" /\ peer[c] = p  BY <1>2, <2>2 DEF NoticeInv
  <2> QED  BY <2>2, <2>3 DEF Poked
<1> QED  BY <1>2 DEF NoLostNotice, NoticeInv

\* A step in which nobody dies, sleeps or is freed, and nobody takes back a
\* wake, loses no notice.
LEMMA QuietNotice ==
    ASSUME NoticeInv, UNCHANGED <<st, parent>>,
           \A p \in Tasks : Range(kids'[p]) \subseteq Range(kids[p]),
           \A v \in Tasks : inbox'[v] > 0 => inbox[v] > 0,
           \A v \in Tasks : pc[v] = "poke" => pc'[v] = "poke" /\ peer'[v] = peer[v],
           \A v \in Tasks : pc'[v] = "poke" /\ st[v] = "ZOMBIE" => pc[v] = "poke"
    PROVE  NoticeInv'
<1>1. \A p, c \in Tasks : st'[p] = "BLOCKED" /\ c \in Range(kids'[p]) /\ st'[c] = "ZOMBIE" =>
          pc'[c] = "poke" /\ peer'[c] = p
  BY DEF NoticeInv
<1>2. \A t \in Tasks : st'[t] = "WAITING" /\ inbox'[t] > 0 => Poked(t)'
  <2> SUFFICES ASSUME NEW t \in Tasks, st'[t] = "WAITING", inbox'[t] > 0 PROVE Poked(t)'
    OBVIOUS
  <2>1. PICK u \in Tasks : pc[u] = "poke" /\ peer[u] = t /\ st[u] # "none"  BY DEF NoticeInv, Poked
  <2> QED  BY <2>1 DEF Poked
<1>3. \A u, p \in Tasks : pc'[u] = "poke" /\ st'[u] = "ZOMBIE" /\ peer'[u] = p /\ Alive(p)' => parent'[u] = p
  BY DEF NoticeInv, Alive
<1> QED  BY <1>1, <1>2, <1>3 DEF NoticeInv

\* A task that dies wakes its parent, under the locks or after them.
LEMMA TerminateNotice ==
    ASSUME FamilyInv, NoticeInv, NEW t \in Tasks \ {Init1}, st[t] = "RUN", pc[t] = "user",
           NEW woken, \A v \in Tasks : v \in woken => Blocked(v), Terminate(t, woken),
           NEW l, NEW u, Goto(t, l, u),
           \/ l = "poke" /\ u = parent[t]
           \/ l = "dead" /\ woken = ParentWoken(t)
    PROVE  NoticeInv'
<1>1. TypeOK /\ TreeConsistent /\ Init1 \in Tasks /\ None \notin Tasks  BY ProcessAssumption DEF FamilyInv
<1>2. /\ \A v \in Tasks : parent'[v] = IF v \in Range(kids[t]) THEN Init1 ELSE parent[v]
      /\ Range(kids'[t]) = {}
      /\ Range(kids'[Init1]) = Range(kids[Init1]) \cup Range(kids[t])
      /\ \A p \in Tasks \ {t, Init1} : Range(kids'[p]) = Range(kids[p])
      /\ st'[t] = "ZOMBIE"
      /\ \A v \in Tasks \ {t} : st'[v] = st[v] \/ (Blocked(v) /\ st'[v] = "RUN")
      /\ \A v \in Tasks \ {t} : v \in woken => st'[v] = "RUN"
      /\ Range(kids[t]) # {} => st'[Init1] # "BLOCKED"
      /\ \A v \in Tasks \ {parent[t]} : inbox'[v] = inbox[v]
      /\ pc'[t] = l /\ peer'[t] = u
      /\ \A v \in Tasks \ {t} : pc'[v] = pc[v] /\ peer'[v] = peer[v]
  BY TerminateEffect
<1>3. \A p, c \in Tasks : c \in Range(kids[p]) => parent[c] = p  BY <1>1 DEF TreeConsistent
<1>4. ASSUME NEW p \in Tasks, Blocked(p)', p = parent[t] PROVE l = "poke" /\ u = p
  <2>1. p # t /\ st'[p] = st[p]  BY <1>2, <1>4 DEF Blocked
  <2>2. Blocked(p)  BY <1>4, <2>1 DEF Blocked
  <2>3. woken # ParentWoken(t)
    <3> SUFFICES ASSUME woken = ParentWoken(t) PROVE FALSE
      OBVIOUS
    <3>1. p \in woken  BY <1>1, <1>4, <2>2 DEF ParentWoken
    <3> QED  BY <1>2, <1>4, <2>1, <3>1 DEF Blocked
  <2> QED  BY <1>4, <2>3
<1>5. ASSUME NEW p \in Tasks, NEW c \in Tasks, st'[p] = "BLOCKED", c \in Range(kids'[p]), st'[c] = "ZOMBIE"
      PROVE  pc'[c] = "poke" /\ peer'[c] = p
  <2>1. p # t /\ st[p] = "BLOCKED"  BY <1>2, <1>5
  <2>2. c \in Range(kids[p])  BY <1>2, <1>5, <2>1
  <2>3. CASE c = t
    <3>1. p = parent[t] /\ Blocked(p)'  BY <1>3, <1>5, <2>2, <2>3 DEF Blocked
    <3> QED  BY <1>2, <1>4, <2>3, <3>1
  <2>4. CASE c # t
    <3>1. st[c] = "ZOMBIE"  BY <1>2, <1>5, <2>4
    <3> QED  BY SMT, Z3, <1>2, <2>1, <2>2, <2>4, <3>1 DEF NoticeInv
  <2> QED  BY <2>3, <2>4
<1>6. ASSUME NEW v \in Tasks, st'[v] = "WAITING", inbox'[v] > 0 PROVE Poked(v)'
  <2>1. v # t /\ st[v] = "WAITING"  BY <1>2, <1>6
  <2>2. CASE v = parent[t]
    <3>1. l = "poke" /\ u = v  BY <1>4, <1>6, <2>2 DEF Blocked
    <3> QED  BY <1>2, <3>1 DEF Poked
  <2>3. CASE v # parent[t]
    <3>1. inbox[v] > 0  BY <1>2, <1>6, <2>3
    <3>2. PICK w \in Tasks : pc[w] = "poke" /\ peer[w] = v /\ st[w] # "none"
      BY <2>1, <3>1 DEF NoticeInv, Poked
    <3>3. w # t  BY <3>2
    <3>4. pc'[w] = "poke" /\ peer'[w] = v /\ st'[w] # "none"  BY <1>2, <3>2, <3>3 DEF Blocked
    <3> QED  BY <3>4 DEF Poked
  <2> QED  BY <2>2, <2>3
<1>7. ASSUME NEW v \in Tasks, NEW p \in Tasks, pc'[v] = "poke", st'[v] = "ZOMBIE", peer'[v] = p, Alive(p)'
      PROVE  parent'[v] = p
  <2>1. p # t /\ Alive(p)  BY <1>2, <1>7 DEF Alive, Blocked
  <2>2. parent[v] = p
    <3>1. CASE v = t  BY <1>2, <1>7, <3>1
    <3>2. CASE v # t
      <4>1. pc[v] = "poke" /\ st[v] = "ZOMBIE" /\ peer[v] = p  BY <1>2, <1>7, <3>2
      <4> QED  BY <2>1, <4>1 DEF NoticeInv
    <3> QED  BY <3>1, <3>2
  <2>3. v \notin Range(kids[t])  BY <1>3, <2>1, <2>2
  <2> QED  BY <1>2, <2>2, <2>3
<1> QED  BY SMT, Z3, <1>5, <1>6, <1>7 DEF NoticeInv

\* Every step keeps the wakes that are due.
LEMMA NoticeStep == FamilyInv /\ NoticeInv /\ [Next]_vars => NoticeInv'
<1> SUFFICES ASSUME FamilyInv, NoticeInv, [Next]_vars PROVE NoticeInv'
  OBVIOUS
<1>t. TypeOK /\ TreeConsistent /\ Reaping  BY DEF FamilyInv
<1>n. /\ \A p, c \in Tasks : st[p] = "BLOCKED" /\ c \in Range(kids[p]) /\ st[c] = "ZOMBIE" =>
            pc[c] = "poke" /\ peer[c] = p
      /\ \A t \in Tasks : st[t] = "WAITING" /\ inbox[t] > 0 => Poked(t)
      /\ \A u, p \in Tasks : pc[u] = "poke" /\ st[u] = "ZOMBIE" /\ peer[u] = p /\ Alive(p) => parent[u] = p
  BY DEF NoticeInv
<1>0. CASE UNCHANGED vars  BY <1>0, QuietNotice DEF vars
<1>1. ASSUME NEW t \in Tasks, Poke(t) PROVE NoticeInv'
  <2>1. /\ pc[t] = "poke" /\ pc'[t] # "poke"
        /\ \A v \in Tasks \ {t} : pc'[v] = pc[v] /\ peer'[v] = peer[v]
        /\ UNCHANGED <<parent, kids, inbox>>
    BY <1>t, <1>1 DEF Poke, Runs, Goto, TypeOK
  <2>2. \A v \in Tasks : /\ st'[v] = st[v] \/ (Blocked(v) /\ st'[v] = "RUN")
                         /\ v = peer[t] => ~Blocked(v)'
    <3>1. CASE peer[t] # None /\ Blocked(peer[t]) /\ st' = [st EXCEPT ![peer[t]] = "RUN"]
      <4>1. peer[t] \in Tasks  BY <1>t, <3>1 DEF TypeOK
      <4> QED  BY <1>t, <3>1, <4>1 DEF TypeOK, Blocked
    <3>2. CASE st' = st /\ ~(peer[t] # None /\ Blocked(peer[t]))
      BY <3>2, ProcessAssumption DEF Blocked
    <3> QED  BY <1>1, <3>1, <3>2 DEF Poke
  <2>3. ASSUME NEW p \in Tasks, NEW c \in Tasks, st'[p] = "BLOCKED", c \in Range(kids'[p]), st'[c] = "ZOMBIE"
        PROVE  pc'[c] = "poke" /\ peer'[c] = p
    <3>1. st[p] = "BLOCKED" /\ st[c] = "ZOMBIE" /\ p # peer[t]  BY <2>2, <2>3 DEF Blocked
    <3>2. pc[c] = "poke" /\ peer[c] = p  BY <1>n, <2>1, <2>3, <3>1
    <3> QED  BY <2>1, <3>1, <3>2
  <2>4. ASSUME NEW v \in Tasks, st'[v] = "WAITING", inbox'[v] > 0 PROVE Poked(v)'
    <3>1. st[v] = "WAITING" /\ inbox[v] > 0 /\ v # peer[t]  BY <2>1, <2>2, <2>4 DEF Blocked
    <3>2. PICK w \in Tasks : pc[w] = "poke" /\ peer[w] = v /\ st[w] # "none"  BY <1>n, <3>1 DEF Poked
    <3>3. pc'[w] = "poke" /\ peer'[w] = v /\ st'[w] # "none"  BY <2>1, <2>2, <3>1, <3>2
    <3> QED  BY <3>3 DEF Poked
  <2>5. ASSUME NEW v \in Tasks, NEW p \in Tasks, pc'[v] = "poke", st'[v] = "ZOMBIE", peer'[v] = p, Alive(p)'
        PROVE  parent'[v] = p
    <3>1. v # t /\ pc[v] = "poke" /\ st[v] = "ZOMBIE" /\ peer[v] = p  BY <2>1, <2>2, <2>5
    <3>2. Alive(p)  BY <2>2, <2>5 DEF Alive, Blocked
    <3> QED  BY <1>n, <2>1, <3>1, <3>2
  <2> QED  BY <2>3, <2>4, <2>5 DEF NoticeInv
<1>2. ASSUME NEW t \in Tasks, SwitchAway(t) \/ CallWait(t) \/ CallRead(t) PROVE NoticeInv'
  <2>1. /\ pc[t] # "poke" /\ pc'[t] # "poke"
        /\ \A v \in Tasks \ {t} : pc'[v] = pc[v] /\ peer'[v] = peer[v]
        /\ UNCHANGED <<st, parent, kids, inbox>>
    BY <1>t, <1>2 DEF SwitchAway, CallWait, CallRead, Runs, Goto, TypeOK
  <2> QED  BY <2>1, QuietNotice
<1>3. ASSUME NEW t \in Tasks, WaitTurn(t) PROVE NoticeInv'
  <2>1. pc[t] = "wait" /\ st[t] = "RUN" /\ UNCHANGED <<parent, inbox>>  BY <1>3 DEF WaitTurn, Runs
  <2>2. ASSUME UNCHANGED st, NEW l, NEW c, l # "poke", Goto(t, l, c),
               \A p \in Tasks : Range(kids'[p]) \subseteq Range(kids[p])
        PROVE  NoticeInv'
    <3>1. pc'[t] # "poke" /\ \A v \in Tasks \ {t} : pc'[v] = pc[v] /\ peer'[v] = peer[v]
      BY <1>t, <2>2 DEF Goto, TypeOK
    <3> QED  BY <2>1, <2>2, <3>1, QuietNotice
  <2>3. CASE UNCHANGED <<st, kids>> /\ Goto(t, "user", None)
    BY <2>2, <2>3
  <2>4. ASSUME NEW c \in FirstZombie(t), kids' = [kids EXCEPT ![t] = Only(@, Tasks \ {c})], Goto(t, "reap", c),
               UNCHANGED st
        PROVE  NoticeInv'
    <3>1. Range(Only(kids[t], Tasks \ {c})) = Range(kids[t]) \cap (Tasks \ {c})
      BY SMT, Z3, <1>t, FilteredList DEF TypeOK
    <3>2. \A p \in Tasks : Range(kids'[p]) \subseteq Range(kids[p])  BY <1>t, <2>4, <3>1 DEF TypeOK
    <3> QED  BY <2>2, <2>4, <3>2
  <2>5. CASE FirstZombie(t) = {} /\ st' = [st EXCEPT ![t] = "BLOCKED"] /\ UNCHANGED <<kids, pc, peer>>
    <3>1. st'[t] = "BLOCKED" /\ \A v \in Tasks \ {t} : st'[v] = st[v]  BY <1>t, <2>5 DEF TypeOK
    <3>2. \A c \in Range(kids[t]) : st[c] # "ZOMBIE"  BY <1>t, <2>5, FirstZombieFacts
    <3>3. \A p, c \in Tasks : st'[p] = "BLOCKED" /\ c \in Range(kids'[p]) /\ st'[c] = "ZOMBIE" =>
            pc'[c] = "poke" /\ peer'[c] = p
      BY SMT, Z3, <1>n, <2>5, <3>1, <3>2
    <3>4. \A v \in Tasks : st'[v] = "WAITING" /\ inbox'[v] > 0 => Poked(v)'
      BY SMT, Z3, <1>n, <2>1, <2>5, <3>1 DEF Poked
    <3>5. \A u, p \in Tasks : pc'[u] = "poke" /\ st'[u] = "ZOMBIE" /\ peer'[u] = p /\ Alive(p)' => parent'[u] = p
      BY SMT, Z3, <1>n, <2>1, <2>5, <3>1 DEF Alive
    <3> QED  BY <3>3, <3>4, <3>5 DEF NoticeInv
  <2> QED  BY <1>3, <2>3, <2>4, <2>5 DEF WaitTurn
<1>4. ASSUME NEW t \in Tasks, Reap(t) PROVE NoticeInv'
  <2> DEFINE c == peer[t]
  <2>1. pc[t] = "reap" /\ st' = [st EXCEPT ![c] = "none"] /\ parent' = [parent EXCEPT ![c] = None]
        /\ Goto(t, "user", None) /\ UNCHANGED <<kids, inbox>>
    BY <1>4 DEF Reap, Runs
  <2>2. st[t] = "RUN" /\ c \in Tasks /\ st[c] = "ZOMBIE" /\ parent[c] = t  BY <1>t, <2>1 DEF Reaping
  <2> HIDE DEF c
  <2>3. /\ st'[c] = "none" /\ \A v \in Tasks \ {c} : st'[v] = st[v] /\ parent'[v] = parent[v]
        /\ pc'[t] = "user" /\ \A v \in Tasks \ {t} : pc'[v] = pc[v] /\ peer'[v] = peer[v]
    BY <1>t, <2>1, <2>2 DEF Goto, TypeOK
  <2>4. ASSUME NEW p \in Tasks, NEW d \in Tasks, st'[p] = "BLOCKED", d \in Range(kids'[p]), st'[d] = "ZOMBIE"
        PROVE  pc'[d] = "poke" /\ peer'[d] = p
    <3>1. p # c /\ d # c /\ st[p] = "BLOCKED" /\ st[d] = "ZOMBIE" /\ d # t  BY <2>2, <2>3, <2>4
    <3> QED  BY SMT, Z3, <1>n, <2>1, <2>3, <2>4, <3>1
  <2>5. ASSUME NEW v \in Tasks, st'[v] = "WAITING", inbox'[v] > 0 PROVE Poked(v)'
    <3>1. v # c /\ st[v] = "WAITING" /\ inbox[v] > 0  BY <2>1, <2>3, <2>5
    <3>2. PICK w \in Tasks : pc[w] = "poke" /\ peer[w] = v /\ st[w] # "none"  BY <1>n, <3>1 DEF Poked
    <3>3. w # t  BY <2>1, <3>2
    <3>4. w # c
      <4> SUFFICES ASSUME w = c PROVE FALSE
        OBVIOUS
      <4>1. parent[c] = v  BY <1>n, <2>2, <3>1, <3>2 DEF Alive
      <4> QED  BY <2>2, <3>1, <4>1
    <3>5. pc'[w] = "poke" /\ peer'[w] = v /\ st'[w] # "none"  BY <2>3, <3>2, <3>3, <3>4
    <3> QED  BY <3>5 DEF Poked
  <2>6. ASSUME NEW v \in Tasks, NEW p \in Tasks, pc'[v] = "poke", st'[v] = "ZOMBIE", peer'[v] = p, Alive(p)'
        PROVE  parent'[v] = p
    <3>1. v # c /\ v # t /\ p # c  BY <2>3, <2>6 DEF Alive
    <3> QED  BY SMT, Z3, <1>n, <2>3, <2>6, <3>1 DEF Alive
  <2> QED  BY <2>4, <2>5, <2>6 DEF NoticeInv
<1>5. ASSUME NEW t \in Tasks, ReadTurn(t) PROVE NoticeInv'
  <2>1. pc[t] = "read" /\ st[t] = "RUN" /\ UNCHANGED <<parent, kids>>  BY <1>5 DEF ReadTurn, Runs
  <2>2. CASE /\ \E n \in 1..inbox[t] : inbox' = [inbox EXCEPT ![t] = @ - n]
             /\ Goto(t, "user", None) /\ UNCHANGED st
    <3>1. pc'[t] = "user" /\ \A v \in Tasks \ {t} : pc'[v] = pc[v] /\ peer'[v] = peer[v]
      BY <1>t, <2>2 DEF Goto, TypeOK
    <3>2. \A v \in Tasks : inbox'[v] > 0 => inbox[v] > 0
      <4>1. PICK n \in 1..inbox[t] : inbox' = [inbox EXCEPT ![t] = @ - n]  BY <2>2
      <4>2. inbox[t] > 0 /\ \A v \in Tasks \ {t} : inbox'[v] = inbox[v]  BY SMT, Z3, <1>t, <4>1 DEF TypeOK
      <4> QED  BY <4>2
    <3> QED  BY <2>1, <2>2, <3>1, <3>2, QuietNotice
  <2>3. CASE inbox[t] = 0 /\ st' = [st EXCEPT ![t] = "WAITING"] /\ UNCHANGED <<inbox, pc, peer>>
    <3>1. st'[t] = "WAITING" /\ \A v \in Tasks \ {t} : st'[v] = st[v]  BY <1>t, <2>3 DEF TypeOK
    <3>2. \A p, c \in Tasks : st'[p] = "BLOCKED" /\ c \in Range(kids'[p]) /\ st'[c] = "ZOMBIE" =>
            pc'[c] = "poke" /\ peer'[c] = p
      BY SMT, Z3, <1>n, <2>1, <2>3, <3>1
    <3>3. ASSUME NEW v \in Tasks, st'[v] = "WAITING", inbox'[v] > 0 PROVE Poked(v)'
      <4>1. v # t /\ st[v] = "WAITING" /\ inbox[v] > 0  BY SMT, Z3, <2>3, <3>1, <3>3
      <4>2. PICK w \in Tasks : pc[w] = "poke" /\ peer[w] = v /\ st[w] # "none"  BY <1>n, <4>1 DEF Poked
      <4>3. w # t  BY <2>1, <4>2
      <4> QED  BY <2>3, <3>1, <4>2, <4>3 DEF Poked
    <3>4. \A u, p \in Tasks : pc'[u] = "poke" /\ st'[u] = "ZOMBIE" /\ peer'[u] = p /\ Alive(p)' => parent'[u] = p
      BY SMT, Z3, <1>n, <2>1, <2>3, <3>1 DEF Alive
    <3> QED  BY <3>2, <3>3, <3>4 DEF NoticeInv
  <2> QED  BY <1>5, <2>2, <2>3 DEF ReadTurn
<1>6. ASSUME NEW t \in Tasks, Exec(t) PROVE NoticeInv'
  <2>1. UNCHANGED <<st, parent, kids, pc, peer>> /\ \A v \in Tasks : inbox'[v] > 0 => inbox[v] > 0
    BY SMT, Z3, <1>t, <1>6 DEF Exec, TypeOK
  <2> QED  BY <2>1, QuietNotice
<1>7. ASSUME NEW t \in Tasks, Exit(t) PROVE NoticeInv'
  BY <1>7, DiesMortal, WokenSleeps, TerminateNotice DEF Exit
<1>8. ASSUME NEW t \in Tasks, Fault(t) PROVE NoticeInv'
  BY <1>8, DiesMortal, TerminateNotice DEF Fault
<1>9. ASSUME NEW t \in Tasks, ApplyKill(t) PROVE NoticeInv'
  BY <1>9, DiesMortal, TerminateNotice DEF ApplyKill
<1>10. ASSUME NEW t \in Tasks, NEW c \in Tasks, Clone(t, c) PROVE NoticeInv'
  <2>1. /\ st[t] = "RUN" /\ st[c] = "none" /\ \A u \in Tasks : peer[u] # c
        /\ st' = [st EXCEPT ![c] = "RUN"] /\ parent' = [parent EXCEPT ![c] = t]
        /\ pc' = [pc EXCEPT ![c] = "user"] /\ inbox' = [inbox EXCEPT ![c] = 0] /\ UNCHANGED peer
    BY <1>10 DEF Clone, Runs, FamilyInv
  <2>2. /\ st'[c] = "RUN" /\ pc'[c] = "user" /\ inbox'[c] = 0 /\ t # c
        /\ \A v \in Tasks \ {c} : /\ st'[v] = st[v] /\ parent'[v] = parent[v]
                                  /\ pc'[v] = pc[v] /\ inbox'[v] = inbox[v]
    BY <1>t, <2>1 DEF TypeOK
  <2>3. \A p \in Tasks \ {t, c} : kids'[p] = kids[p]  BY <1>t, <1>10 DEF Clone, TypeOK
  <2>4. ASSUME NEW p \in Tasks, NEW d \in Tasks, st'[p] = "BLOCKED", d \in Range(kids'[p]), st'[d] = "ZOMBIE"
        PROVE  pc'[d] = "poke" /\ peer'[d] = p
    <3>1. p # c /\ p # t /\ d # c  BY SMT, Z3, <2>1, <2>2, <2>4
    <3> QED  BY SMT, Z3, <1>n, <2>1, <2>2, <2>3, <2>4, <3>1
  <2>5. ASSUME NEW v \in Tasks, st'[v] = "WAITING", inbox'[v] > 0 PROVE Poked(v)'
    <3>1. v # c /\ st[v] = "WAITING" /\ inbox[v] > 0  BY <2>2, <2>5
    <3>2. PICK w \in Tasks : pc[w] = "poke" /\ peer[w] = v /\ st[w] # "none"  BY <1>n, <3>1 DEF Poked
    <3>3. w # c  BY <2>1, <3>2
    <3>4. pc'[w] = "poke" /\ peer'[w] = v /\ st'[w] # "none"  BY <2>1, <2>2, <3>2, <3>3
    <3> QED  BY <3>4 DEF Poked
  <2>6. ASSUME NEW v \in Tasks, NEW p \in Tasks, pc'[v] = "poke", st'[v] = "ZOMBIE", peer'[v] = p, Alive(p)'
        PROVE  parent'[v] = p
    <3>1. v # c /\ p # c /\ peer[v] = p  BY <2>1, <2>2, <2>6
    <3> QED  BY SMT, Z3, <1>n, <2>2, <2>6, <3>1 DEF Alive
  <2> QED  BY <2>4, <2>5, <2>6 DEF NoticeInv
<1>11. ASSUME NEW t \in Tasks, NEW u \in Tasks, SendKill(t, u) PROVE NoticeInv'
  <2>1. /\ pc[t] = "user" /\ st[t] = "RUN" /\ UNCHANGED <<st, parent, kids, inbox>>
        /\ \A v \in Tasks \ {t} : pc'[v] = pc[v] /\ peer'[v] = peer[v]
    BY <1>t, <1>11 DEF SendKill, Runs, Goto, TypeOK
  <2> QED  BY <2>1, QuietNotice
<1>12. ASSUME NEW t \in Tasks, NEW u \in Tasks, SendEvent(t, u) PROVE NoticeInv'
  <2>1. /\ pc[t] = "user" /\ st[t] = "RUN" /\ UNCHANGED <<st, parent, kids>>
        /\ pc'[t] = "poke" /\ peer'[t] = u
        /\ \A v \in Tasks \ {t} : pc'[v] = pc[v] /\ peer'[v] = peer[v]
        /\ \A v \in Tasks \ {u} : inbox'[v] = inbox[v]
    BY <1>t, <1>12 DEF SendEvent, Runs, Goto, TypeOK
  <2>2. \A p, c \in Tasks : st'[p] = "BLOCKED" /\ c \in Range(kids'[p]) /\ st'[c] = "ZOMBIE" =>
            pc'[c] = "poke" /\ peer'[c] = p
    BY SMT, Z3, <1>n, <2>1
  <2>3. ASSUME NEW v \in Tasks, st'[v] = "WAITING", inbox'[v] > 0 PROVE Poked(v)'
    <3>1. CASE v = u  BY <2>1, <3>1 DEF Poked
    <3>2. CASE v # u
      <4>1. PICK w \in Tasks : pc[w] = "poke" /\ peer[w] = v /\ st[w] # "none"
        BY <1>n, <2>1, <2>3, <3>2 DEF Poked
      <4>2. w # t  BY <2>1, <4>1
      <4> QED  BY <2>1, <4>1, <4>2 DEF Poked
    <3> QED  BY <3>1, <3>2
  <2>4. \A v, p \in Tasks : pc'[v] = "poke" /\ st'[v] = "ZOMBIE" /\ peer'[v] = p /\ Alive(p)' => parent'[v] = p
    BY SMT, Z3, <1>n, <2>1 DEF Alive
  <2> QED  BY <2>2, <2>3, <2>4 DEF NoticeInv
<1> QED
  BY <1>0, <1>1, <1>2, <1>3, <1>4, <1>5, <1>6, <1>7, <1>8, <1>9, <1>10, <1>11, <1>12 DEF Next, Step

\* Only init lives at first, and it sleeps on nothing.
LEMMA FamilyInit == Init => FamilyInv /\ NoticeInv
<1> SUFFICES ASSUME Init PROVE FamilyInv /\ NoticeInv
  OBVIOUS
<1>1. /\ \A t \in Tasks : st[t] = (IF t = Init1 THEN "RUN" ELSE "none") /\ kids[t] = <<>> /\ pc[t] \in {"user", "gone"}
      /\ \A t \in Tasks : ~kill[t]
  BY DEF Init
<1>2. <<>> \in Seq(Tasks) /\ Range(<<>>) = {} /\ IsInjective(<<>>)  BY SMT, Z3, EmptySeq DEF Range, IsInjective
<1>3. TypeOK
  <2>1. kids \in [Tasks -> Seq(Tasks)]  BY <1>2 DEF Init
  <2>2. inbox \in [Tasks -> 0..QUEUE_SIZE]  BY SMT, Z3, ProcessAssumption DEF Init
  <2>3. st \in [Tasks -> {"none", "RUN", "BLOCKED", "WAITING", "ZOMBIE"}]  BY DEF Init
  <2>4. /\ pc \in [Tasks -> {"user", "wait", "read", "reap", "poke", "dead", "gone"}]
        /\ parent \in [Tasks -> Tasks \cup {None}] /\ peer \in [Tasks -> Tasks \cup {None}]
    BY DEF Init
  <2>5. kill \in [Tasks -> BOOLEAN]  BY DEF Init
  <2> QED  BY <2>1, <2>2, <2>3, <2>4, <2>5 DEF TypeOK
<1>4. \A p \in Tasks : Range(kids[p]) = {} /\ IsInjective(kids[p])  BY <1>1, <1>2
<1>5. TreeConsistent  BY <1>1, <1>4 DEF TreeConsistent
<1>6. Reaping /\ Alive(Init1)  BY <1>1, ProcessAssumption DEF Reaping, Alive
<1>7. FamilyInv  BY <1>1, <1>3, <1>4, <1>5, <1>6 DEF FamilyInv
<1>8. NoticeInv  BY <1>1, <1>4 DEF NoticeInv
<1> QED  BY <1>7, <1>8

\* So both hold for ever.
LEMMA FamilyInductive == Spec => [](FamilyInv /\ NoticeInv)
<1>1. FamilyInv /\ NoticeInv /\ [Next]_vars => (FamilyInv /\ NoticeInv)'
  BY FamilyStep, NoticeStep
<1> QED  BY <1>1, FamilyInit, PTL DEF Spec

\* A step of the kernel makes no dead task READY.
LEMMA DeadStep ==
    FamilyInv /\ [Next]_vars => [\A t \in Tasks : st[t] = "ZOMBIE" => st'[t] \in {"ZOMBIE", "none"}]_vars
<1> SUFFICES ASSUME FamilyInv, Next, NEW z \in Tasks, st[z] = "ZOMBIE" PROVE st'[z] \in {"ZOMBIE", "none"}
  BY DEF vars
<1>t. TypeOK  BY DEF FamilyInv
<1>1. ASSUME NEW t \in Tasks, Poke(t) PROVE st'[z] \in {"ZOMBIE", "none"}
  BY <1>t, <1>1 DEF Poke, Blocked, TypeOK
<1>2. ASSUME NEW t \in Tasks,
             \/ SwitchAway(t) \/ CallWait(t) \/ CallRead(t) \/ Exec(t)
             \/ \E u \in Tasks : SendKill(t, u) \/ SendEvent(t, u)
      PROVE  st'[z] \in {"ZOMBIE", "none"}
  BY <1>2 DEF SwitchAway, CallWait, CallRead, Exec, SendKill, SendEvent
<1>3. ASSUME NEW t \in Tasks, WaitTurn(t) PROVE st'[z] \in {"ZOMBIE", "none"}
  <2>1. st' = st \/ (st[t] = "RUN" /\ st' = [st EXCEPT ![t] = "BLOCKED"])  BY <1>3 DEF WaitTurn
  <2> QED  BY <1>t, <2>1 DEF TypeOK
<1>4. ASSUME NEW t \in Tasks, Reap(t) PROVE st'[z] \in {"ZOMBIE", "none"}
  BY <1>t, <1>4 DEF Reap, TypeOK
<1>5. ASSUME NEW t \in Tasks, ReadTurn(t) PROVE st'[z] \in {"ZOMBIE", "none"}
  <2>1. st' = st \/ (st[t] = "RUN" /\ st' = [st EXCEPT ![t] = "WAITING"])  BY <1>5 DEF ReadTurn
  <2> QED  BY <1>t, <2>1 DEF TypeOK
<1>6. ASSUME NEW t \in Tasks \ {Init1}, NEW woken, \A v \in Tasks : v \in woken => Blocked(v),
             Terminate(t, woken), NEW l, NEW u, Goto(t, l, u)
      PROVE  st'[z] \in {"ZOMBIE", "none"}
  <2>1. st'[t] = "ZOMBIE" /\ \A v \in Tasks \ {t} : st'[v] = st[v] \/ (Blocked(v) /\ st'[v] = "RUN")
    BY <1>6, TerminateEffect
  <2> QED  BY <2>1 DEF Blocked
<1>7. ASSUME NEW t \in Tasks, Exit(t) PROVE st'[z] \in {"ZOMBIE", "none"}
  BY <1>6, <1>7, DiesMortal, WokenSleeps DEF Exit
<1>8. ASSUME NEW t \in Tasks, Fault(t) \/ ApplyKill(t) PROVE st'[z] \in {"ZOMBIE", "none"}
  BY <1>6, <1>8, DiesMortal DEF Fault, ApplyKill
<1>9. ASSUME NEW t \in Tasks, NEW c \in Tasks, Clone(t, c) PROVE st'[z] \in {"ZOMBIE", "none"}
  BY <1>t, <1>9 DEF Clone, TypeOK
<1> QED
  BY <1>1, <1>2, <1>3, <1>4, <1>5, <1>7, <1>8, <1>9 DEF Next, Step

\* For any number of tasks, on one CPU or several: child lists and parents agree,
\* every task that is not reaped has a living parent in whose list it is, and
\* nothing makes a dead task READY (clone, reparent_children, wait, exit).
THEOREM TreeIsKept == Spec => TreeKept
<1>1. FamilyInv /\ NoticeInv => TypeOK /\ TreeConsistent  BY DEF FamilyInv
<1>2. FamilyInv /\ NoticeInv /\ [Next]_vars
        => [\A t \in Tasks : st[t] = "ZOMBIE" => st'[t] \in {"ZOMBIE", "none"}]_vars
  BY DeadStep
<1> QED  BY <1>1, <1>2, FamilyInductive, PTL DEF Spec, TreeKept, ZombieStaysDead

\* For any number of tasks, on one CPU or several, nobody sleeps in wait() beside
\* a dead child or in read_event on an event without a wake on its way.
THEOREM NoticeIsKept == Spec => []NoLostNotice
<1> QED  BY NoticeFollows, FamilyInductive, PTL

\* On one CPU no task is freed before the last switch away from its stack: its
\* parent does not run between the death and the yield.
THEOREM FreedAfterSwitch == ASSUME UP PROVE Spec => []FreedNotRunning
<1>1. Init => FreedNotRunning  BY DEF Init, FreedNotRunning
<1>2. FamilyInv /\ FreedNotRunning /\ [Next]_vars => FreedNotRunning'
  <2> SUFFICES ASSUME FamilyInv, FreedNotRunning, [Next]_vars, NEW f \in Tasks, st'[f] = "none" PROVE pc'[f] = "gone"
    BY DEF FreedNotRunning
  <2>t. TypeOK /\ Reaping  BY DEF FamilyInv
  <2>f. st[f] = "none" => pc[f] = "gone"  BY DEF FreedNotRunning
  <2>0. CASE UNCHANGED vars  BY <2>f, <2>0 DEF vars
  <2>1. ASSUME NEW t \in Tasks, Reap(t) PROVE pc'[f] = "gone"
    <3> DEFINE c == peer[t]
    <3>1. /\ pc[t] = "reap" /\ st[t] = "RUN" /\ c \in Tasks /\ st[c] = "ZOMBIE"
          /\ \A v \in Tasks \ {t} : pc[v] \notin Between
      BY <2>t, <2>1 DEF Reap, Runs, Reaping
    <3>2. pc[c] = "gone"  BY <3>1 DEF FamilyInv, Between
    <3> HIDE DEF c
    <3>3. f = c \/ st[f] = "none"  BY <2>t, <2>1, <3>1 DEF Reap, TypeOK, c
    <3>4. f # t  BY <2>f, <3>1, <3>3
    <3> QED  BY <2>t, <2>f, <2>1, <3>2, <3>3, <3>4 DEF Reap, Goto, TypeOK
  <2>2. ASSUME NEW t \in Tasks, st[t] \in {"RUN", "ZOMBIE"}, NEW l, NEW u, Goto(t, l, u),
               \A v \in Tasks : st'[v] = "none" => st[v] = "none"
        PROVE  pc'[f] = "gone"
    BY <2>t, <2>f, <2>2 DEF Goto, TypeOK
  <2>3. ASSUME NEW t \in Tasks, Poke(t) PROVE pc'[f] = "gone"
    <3>1. \A v \in Tasks : st'[v] = "none" => st[v] = "none"  BY <2>t, <2>3 DEF Poke, TypeOK
    <3> QED  BY <2>2, <2>3, <3>1 DEF Poke, Runs
  <2>4. ASSUME NEW t \in Tasks, SwitchAway(t) \/ CallWait(t) \/ CallRead(t) PROVE pc'[f] = "gone"
    BY <2>2, <2>4 DEF SwitchAway, CallWait, CallRead, Runs
  <2>5. ASSUME NEW t \in Tasks, WaitTurn(t) PROVE pc'[f] = "gone"
    <3>1. \/ st' = st /\ \E l, u : Goto(t, l, u)
          \/ st' = [st EXCEPT ![t] = "BLOCKED"] /\ pc' = pc
      BY <2>5 DEF WaitTurn
    <3>2. \A v \in Tasks : st'[v] = "none" => st[v] = "none"  BY <2>t, <3>1 DEF TypeOK
    <3>3. st[t] = "RUN"  BY <2>5 DEF WaitTurn
    <3> QED  BY <2>f, <2>2, <3>1, <3>2, <3>3
  <2>6. ASSUME NEW t \in Tasks, ReadTurn(t) PROVE pc'[f] = "gone"
    <3>1. \/ st' = st /\ \E l, u : Goto(t, l, u)
          \/ st' = [st EXCEPT ![t] = "WAITING"] /\ pc' = pc
      BY <2>6 DEF ReadTurn
    <3>2. \A v \in Tasks : st'[v] = "none" => st[v] = "none"  BY <2>t, <3>1 DEF TypeOK
    <3>3. st[t] = "RUN"  BY <2>6 DEF ReadTurn
    <3> QED  BY <2>f, <2>2, <3>1, <3>2, <3>3
  <2>7. ASSUME NEW t \in Tasks, Exec(t) PROVE pc'[f] = "gone"  BY <2>f, <2>7 DEF Exec
  <2>8. ASSUME NEW t \in Tasks, Exit(t) \/ Fault(t) \/ ApplyKill(t) PROVE pc'[f] = "gone"
    <3>1. \E woken : Terminate(t, woken)  BY <2>8 DEF Exit, Fault, ApplyKill
    <3>2. \A v \in Tasks : st'[v] = "none" => st[v] = "none"  BY <2>t, <3>1 DEF Terminate, TypeOK
    <3>3. st[t] = "RUN" /\ \E l, u : Goto(t, l, u)  BY <2>8 DEF Exit, Fault, ApplyKill
    <3> QED  BY <2>2, <3>2, <3>3
  <2>9. ASSUME NEW t \in Tasks, NEW c \in Tasks, Clone(t, c) PROVE pc'[f] = "gone"
    <3>1. f # c  BY <2>t, <2>9 DEF Clone, TypeOK
    <3> QED  BY <2>t, <2>f, <2>9, <3>1 DEF Clone, TypeOK
  <2>10. ASSUME NEW t \in Tasks, NEW u \in Tasks, SendKill(t, u) \/ SendEvent(t, u) PROVE pc'[f] = "gone"
    BY <2>2, <2>10 DEF SendKill, SendEvent
  <2> QED
    BY <2>0, <2>1, <2>3, <2>4, <2>5, <2>6, <2>7, <2>8, <2>9, <2>10 DEF Next, Step
<1> QED  BY <1>1, <1>2, FamilyInductive, PTL DEF Spec

=============================================================================
