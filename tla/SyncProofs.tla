----------------------------- MODULE SyncProofs -----------------------------
(***************************************************************************)
(* What the primitives that tasks sleep with promise, for any CPUs, tasks, *)
(* works and bounds: no wake-up is lost by a completion or a wait queue,   *)
(* on one CPU a task's state says where it is linked, and a work that was  *)
(* queued is kept until it is run or cancelled.                            *)
(***************************************************************************)
EXTENDS Completion, WaitQueue, WorkQueue, FiniteSetTheorems

-----------------------------------------------------------------------------
(* The work queue.                                                         *)

\* The place of a delayed work is a place of its list.
LEMMA DelayedPlace ==
    ASSUME WorkTypeOK, NEW w \in Works, NEW d \in 0..MaxDelay
    PROVE  \E p \in 1..(Len(delayed) + 1) : InsertDelayed(w, d) = InsertAt(delayed, p, w)
<1> DEFINE later == {i \in 1..Len(delayed) : due[delayed[i]] > d}
<1>1. Len(delayed) \in Nat  BY LenProperties DEF WorkTypeOK
<1>2. CASE later = {}
  <2>1. InsertDelayed(w, d) = InsertAt(delayed, Len(delayed) + 1, w)  BY <1>2 DEF InsertDelayed
  <2> QED  BY <1>1, <2>1
<1>3. CASE later # {}
  <2> DEFINE p == CHOOSE i \in later : \A j \in later : i <= j
  <2>1. InsertDelayed(w, d) = InsertAt(delayed, p, w)  BY <1>3 DEF InsertDelayed
  <2>2. later \in SUBSET Nat  BY <1>1
  <2>3. \E i \in later : \A j \in later : i <= j
    <3> HIDE DEF later
    <3> QED  BY <1>3, <2>2, LeastNumber
  <2>4. p \in later
    <3> HIDE DEF later
    <3> QED  BY <2>3
  <2>5. p \in 1..(Len(delayed) + 1)
    <3> HIDE DEF p
    <3> QED  BY <1>1, <2>4
  <2> HIDE DEF p
  <2> QED  BY <2>1, <2>5
<1> QED  BY <1>2, <1>3

\* Every step keeps the types.
LEMMA WorkTypeStep == WorkTypeOK /\ [WorkNext]_workVars => WorkTypeOK'
<1> SUFFICES ASSUME WorkTypeOK, [WorkNext]_workVars PROVE WorkTypeOK'
  OBVIOUS
<1> USE WorkAssumption DEF WorkTypeOK, Callers, Worker, Wakes
<1>1. CASE UNCHANGED workVars  BY <1>1 DEF workVars
<1>2. CASE StartSpawn  BY <1>2 DEF StartSpawn
<1>3. CASE StartPublish  BY <1>3 DEF StartPublish
<1>4. CASE StartWake  BY <1>4 DEF StartWake
<1>5. ASSUME NEW p \in Callers, NEW w \in Works, Queue(p, w) PROVE WorkTypeOK'
  <2>1. Append(queue, w) \in Seq(Works)  BY AppendToList
  <2> QED  BY <1>5, <2>1 DEF Queue, Link
<1>6. ASSUME NEW p \in Callers, NEW w \in Works, CancelDelayed(p, w) PROVE WorkTypeOK'
  <2>1. Only(delayed, Works \ {w}) \in Seq(Works)  BY FilteredList
  <2> QED  BY <1>6, <2>1 DEF CancelDelayed
<1>7. ASSUME NEW p \in Callers, NEW w \in Works, NEW d \in 0..MaxDelay, QueueDelayed(p, w, d) PROVE WorkTypeOK'
  <2>1. InsertDelayed(w, d) \in Seq(Works)
    <3>1. PICK i \in 1..(Len(delayed) + 1) : InsertDelayed(w, d) = InsertAt(delayed, i, w)  BY DelayedPlace
    <3> QED  BY <3>1, InsertedInList
  <2> QED  BY <1>7, <2>1 DEF QueueDelayed
<1>8. ASSUME NEW p \in Callers, WakeWorker(p) PROVE WorkTypeOK'
  BY <1>8 DEF WakeWorker
<1>9. CASE TimerTurn
  <2>1. \A S : Only(delayed, S) \in Seq(Works)  BY FilteredList
  <2>2. \A S : queue \o Only(delayed, S) \in Seq(Works)  BY <2>1, ConcatLists
  <2>3. queue' \in Seq(Works) /\ delayed' \in Seq(Works)  BY <1>9, <2>1, <2>2 DEF TimerTurn
  <2>4. flags' \in [Works -> {"0", "PENDING", "RUNNING"}]  BY <1>9 DEF TimerTurn
  <2>5. due' \in [Works -> 0..MaxDelay]  BY <1>9 DEF TimerTurn
  <2>6. dpending' \in SUBSET Works /\ wstate' \in {"none", "READY", "WAITING"}  BY <1>9 DEF TimerTurn
  <2> QED  BY <1>9, <2>3, <2>4, <2>5, <2>6 DEF TimerTurn
<1>10. CASE WorkTick  BY <1>10 DEF WorkTick
<1>11. CASE TakeOne
  <2>1. queue # <<>>  BY <1>11 DEF TakeOne
  <2>2. Head(queue) \in Works /\ Tail(queue) \in Seq(Works)  BY <2>1, HeadTailProperties
  <2> QED  BY <1>11, <2>2 DEF TakeOne
<1>12. CASE WorkerBlock  BY <1>12 DEF WorkerBlock
<1>13. CASE WorkDone  BY <1>13 DEF WorkDone
<1> QED
  BY <1>1, <1>2, <1>3, <1>4, <1>5, <1>6, <1>7, <1>8, <1>9, <1>10, <1>11, <1>12, <1>13 DEF WorkNext

\* Every step keeps flags and lists in agreement.
LEMMA WorkFlagsStep == WorkTypeOK /\ FlagsMatchLists /\ [WorkNext]_workVars => FlagsMatchLists'
<1> SUFFICES ASSUME WorkTypeOK, FlagsMatchLists, [WorkNext]_workVars PROVE FlagsMatchLists'
  OBVIOUS
<1>t. /\ queue \in Seq(Works) /\ delayed \in Seq(Works) /\ dpending \in SUBSET Works
      /\ flags \in [Works -> {"0", "PENDING", "RUNNING"}] /\ running \in Works \cup {NoWork}
  BY DEF WorkTypeOK
<1>f. /\ IsInjective(queue) /\ IsInjective(delayed)
      /\ \A w \in Works : /\ flags[w] = "PENDING" <=> w \in Range(queue)
                          /\ flags[w] = "RUNNING" <=> w = running
                          /\ w \in dpending <=> w \in Range(delayed)
  BY DEF FlagsMatchLists
<1>1. ASSUME UNCHANGED <<queue, flags, delayed, dpending, running>> PROVE FlagsMatchLists'
  BY <1>1, <1>f DEF FlagsMatchLists
<1>2. CASE UNCHANGED workVars \/ StartSpawn \/ StartPublish \/ StartWake \/ WorkTick \/ WorkerBlock
  BY <1>1, <1>2 DEF workVars, StartSpawn, StartPublish, StartWake, WorkTick, WorkerBlock
<1>3. ASSUME NEW p \in Callers, WakeWorker(p) PROVE FlagsMatchLists'
  BY <1>1, <1>3 DEF WakeWorker
<1>4. ASSUME NEW p \in Callers, NEW w \in Works, Queue(p, w) PROVE FlagsMatchLists'
  <2>1. /\ queue' = Append(queue, w) /\ flags' = [flags EXCEPT ![w] = "PENDING"] /\ flags[w] = "0"
        /\ UNCHANGED <<delayed, dpending, running>>
    BY <1>4 DEF Queue, Link
  <2>2. w \notin Range(queue) /\ w # running  BY <1>f, <2>1
  <2>3. Range(queue') = Range(queue) \cup {w} /\ IsInjective(queue')
    BY <1>t, <1>f, <2>1, <2>2, AppendToList
  <2>4. \A v \in Works : flags'[v] = IF v = w THEN "PENDING" ELSE flags[v]  BY <1>t, <2>1
  <2> QED  BY <1>f, <2>1, <2>2, <2>3, <2>4 DEF FlagsMatchLists
<1>5. ASSUME NEW p \in Callers, NEW w \in Works, CancelDelayed(p, w) PROVE FlagsMatchLists'
  <2>1. /\ delayed' = Only(delayed, Works \ {w}) /\ dpending' = dpending \ {w}
        /\ UNCHANGED <<queue, flags, running>>
    BY <1>5 DEF CancelDelayed
  <2>2. Range(delayed') = Range(delayed) \cap (Works \ {w}) /\ IsInjective(delayed')
    BY <1>t, <1>f, <2>1, FilteredList
  <2> QED  BY <1>f, <2>1, <2>2 DEF FlagsMatchLists
<1>6. ASSUME NEW p \in Callers, NEW w \in Works, NEW d \in 0..MaxDelay, QueueDelayed(p, w, d)
      PROVE  FlagsMatchLists'
  <2>1. /\ delayed' = InsertDelayed(w, d) /\ dpending' = dpending \cup {w} /\ w \notin dpending
        /\ UNCHANGED <<queue, flags, running>>
    BY <1>6 DEF QueueDelayed
  <2>2. PICK i \in 1..(Len(delayed) + 1) : InsertDelayed(w, d) = InsertAt(delayed, i, w)  BY DelayedPlace
  <2>3. Range(delayed') = Range(delayed) \cup {w} /\ IsInjective(delayed')
    BY <1>t, <1>f, <2>1, <2>2, InsertedInList
  <2> QED  BY <1>f, <2>1, <2>3 DEF FlagsMatchLists
<1>7. CASE TimerTurn
  <2> DEFINE moved == {w \in Range(delayed) : due[w] = 0 /\ flags[w] = "0"}
  <2>1. /\ queue' = queue \o Only(delayed, moved) /\ delayed' = Only(delayed, Works \ moved)
        /\ dpending' = dpending \ moved /\ UNCHANGED running
        /\ flags' = [w \in Works |-> IF w \in moved THEN "PENDING" ELSE flags[w]]
    BY <1>7 DEF TimerTurn
  <2>2. Range(delayed) \subseteq Works  BY <1>t, RangeOfSeq
  <2>3. moved \subseteq Range(delayed) /\ \A w \in moved : flags[w] = "0"  OBVIOUS
  <2> HIDE DEF moved
  <2>4. /\ Only(delayed, moved) \in Seq(Works) /\ IsInjective(Only(delayed, moved))
        /\ Range(Only(delayed, moved)) = Range(delayed) \cap moved
    BY <1>t, <1>f, FilteredList
  <2>5. IsInjective(delayed') /\ Range(delayed') = Range(delayed) \ moved
    BY <1>t, <1>f, <2>1, <2>2, FilteredList
  <2>6. moved \cap Range(queue) = {}  BY <1>f, <2>2, <2>3
  <2>7. IsInjective(queue') /\ Range(queue') = Range(queue) \cup moved
    <3>1. Range(Only(delayed, moved)) = moved  BY <2>3, <2>4
    <3> QED  BY <1>t, <1>f, <2>1, <2>4, <2>6, <3>1, ConcatLists
  <2>8. \A w \in Works : flags'[w] = IF w \in moved THEN "PENDING" ELSE flags[w]  BY <2>1
  <2> QED  BY <1>f, <2>1, <2>3, <2>5, <2>7, <2>8 DEF FlagsMatchLists
<1>8. CASE TakeOne
  <2>1. /\ queue # <<>> /\ running = NoWork /\ queue' = Tail(queue) /\ running' = Head(queue)
        /\ flags' = [flags EXCEPT ![Head(queue)] = "RUNNING"] /\ UNCHANGED <<delayed, dpending>>
    BY <1>8 DEF TakeOne
  <2>2. /\ Head(queue) \in Works /\ Head(queue) \in Range(queue)
        /\ Range(Tail(queue)) = Range(queue) \ {Head(queue)} /\ IsInjective(Tail(queue))
    BY <1>t, <1>f, <2>1, TailOfInjective
  <2>3. \A w \in Works : flags'[w] = IF w = Head(queue) THEN "RUNNING" ELSE flags[w]  BY <1>t, <2>1
  <2>4. \A w \in Works : flags[w] # "RUNNING"  BY <1>f, <2>1, WorkAssumption
  <2> QED  BY <1>f, <2>1, <2>2, <2>3, <2>4 DEF FlagsMatchLists
<1>9. CASE WorkDone
  <2>1. /\ running # NoWork /\ flags' = [flags EXCEPT ![running] = "0"] /\ running' = NoWork
        /\ UNCHANGED <<queue, delayed, dpending>>
    BY <1>9 DEF WorkDone
  <2>2. running \in Works  BY <1>t, <2>1
  <2>3. \A w \in Works : flags'[w] = IF w = running THEN "0" ELSE flags[w]  BY <1>t, <2>1
  <2> QED  BY <1>f, <2>1, <2>2, <2>3, WorkAssumption DEF FlagsMatchLists
<1> QED
  BY <1>2, <1>3, <1>4, <1>5, <1>6, <1>7, <1>8, <1>9 DEF WorkNext

\* Every step leaves a queued work to a worker that is awake or about to be
\* woken.
LEMMA WorkStrandedStep == WorkTypeOK /\ NoStrandedWork /\ [WorkNext]_workVars => NoStrandedWork'
<1> SUFFICES ASSUME WorkTypeOK, NoStrandedWork, [WorkNext]_workVars PROVE NoStrandedWork'
  OBVIOUS
<1>t. started \in 0..3 /\ pc \in [Callers -> {"idle", "wake"}]  BY DEF WorkTypeOK
<1>1. CASE UNCHANGED workVars  BY <1>1 DEF workVars, NoStrandedWork
<1>2. CASE StartSpawn \/ StartPublish \/ StartWake
  BY <1>t, <1>2 DEF StartSpawn, StartPublish, StartWake, Wakes, NoStrandedWork
<1>3. ASSUME NEW p \in Callers, NEW w \in Works, Queue(p, w) PROVE NoStrandedWork'
  <2>1. pc'[p] = (IF started >= 2 THEN "wake" ELSE "idle") /\ UNCHANGED started
    BY <1>t, <1>3 DEF Queue, Link
  <2> QED  BY <1>t, <2>1 DEF NoStrandedWork
<1>4. ASSUME NEW p \in Callers, NEW w \in Works,
             CancelDelayed(p, w) \/ \E d \in 0..MaxDelay : QueueDelayed(p, w, d)
      PROVE  NoStrandedWork'
  BY <1>4 DEF CancelDelayed, QueueDelayed, NoStrandedWork
<1>5. ASSUME NEW p \in Callers, WakeWorker(p) PROVE NoStrandedWork'
  BY <1>5 DEF WakeWorker, Wakes, NoStrandedWork
<1>6. CASE TimerTurn
  <2> DEFINE moved == {w \in Range(delayed) : due[w] = 0 /\ flags[w] = "0"}
  <2>1. /\ queue' = queue \o Only(delayed, moved) /\ UNCHANGED <<started, pc>>
        /\ wstate' = IF moved # {} /\ started >= 2 THEN Wakes(wstate) ELSE wstate
    BY <1>6 DEF TimerTurn
  <2> HIDE DEF moved
  <2>2. CASE moved = {}
    <3>1. queue \in Seq(Works) /\ delayed \in Seq(Works)  BY DEF WorkTypeOK
    <3>2. Only(delayed, moved) \in Seq(Works) /\ Range(Only(delayed, moved)) = {}
      BY <2>2, <3>1, FilteredList
    <3>3. queue' = queue  BY <2>1, <3>1, <3>2, EmptyList, ConcatEmptySeq
    <3> QED  BY <2>1, <2>2, <3>3 DEF NoStrandedWork
  <2>3. CASE moved # {} /\ started >= 2
    BY <2>1, <2>3 DEF Wakes, NoStrandedWork
  <2>4. CASE started < 2
    BY <1>t, <2>1, <2>4 DEF NoStrandedWork
  <2> QED  BY <1>t, <2>2, <2>3, <2>4
<1>7. CASE WorkTick  BY <1>7 DEF WorkTick, NoStrandedWork
<1>8. CASE TakeOne \/ WorkerBlock \/ WorkDone
  BY <1>8 DEF TakeOne, WorkerBlock, WorkDone, NoStrandedWork
<1> QED
  BY <1>1, <1>2, <1>3, <1>4, <1>5, <1>6, <1>7, <1>8 DEF WorkNext

\* For any number of works, threads and delays: the flags of a work say in which
\* list it is, and no work is left behind by a sleeping worker.
THEOREM WorkIsKept == WorkSpec => []WorkKept
<1>1. WorkInit => WorkKept
  <2> SUFFICES ASSUME WorkInit PROVE WorkKept
    OBVIOUS
  <2>1. <<>> \in Seq(Works) /\ Range(<<>>) = {} /\ IsInjective(<<>>)
    BY EmptySeq DEF Range, IsInjective
  <2>2. queue \in Seq(Works) /\ delayed \in Seq(Works)  BY <2>1 DEF WorkInit
  <2>3. due \in [Works -> 0..MaxDelay]  BY WorkAssumption DEF WorkInit
  <2>4. /\ flags \in [Works -> {"0", "PENDING", "RUNNING"}] /\ dpending \in SUBSET Works
        /\ wstate \in {"none", "READY", "WAITING"} /\ running \in Works \cup {NoWork}
        /\ tawake \in BOOLEAN /\ pc \in [Callers -> {"idle", "wake"}]
    BY Zenon DEF WorkInit
  <2>8. started \in 0..3  BY DEF WorkInit
  <2>5. WorkTypeOK  BY <2>2, <2>3, <2>4, <2>8 DEF WorkTypeOK
  <2>6. FlagsMatchLists  BY <2>1, WorkAssumption DEF WorkInit, FlagsMatchLists
  <2>7. NoStrandedWork  BY DEF WorkInit, NoStrandedWork
  <2> QED  BY <2>5, <2>6, <2>7 DEF WorkKept
<1>2. WorkKept /\ [WorkNext]_workVars => WorkKept'
  BY WorkTypeStep, WorkFlagsStep, WorkStrandedStep DEF WorkKept
<1> QED  BY <1>1, <1>2, PTL DEF WorkSpec

-----------------------------------------------------------------------------
(* Lists.                                                                  *)

\* From here on most steps are plain logic; those that need records, counting
\* or sequences name SMT, and Z3 for a second try.
USE Zenon

\* The tasks whose sleep ends at a tick are queued one after the other, each
\* once.
LEMMA ListOfSet ==
    ASSUME NEW S, IsFiniteSet(S)
    PROVE  SetToSeq(S) \in Seq(S) /\ Range(SetToSeq(S)) = S /\ IsInjective(SetToSeq(S))
<1> DEFINE n == Cardinality(S)
<1>1. n \in Nat /\ ExistsBijection(1..n, S)  BY FS_CardinalityType
<1>2. \E f \in [1..n -> S] : IsInjective(f)  BY <1>1 DEF ExistsBijection, Bijection, Injection
<1>3. SetToSeq(S) \in [1..n -> S] /\ IsInjective(SetToSeq(S))  BY <1>2 DEF SetToSeq
<1>4. SetToSeq(S) \in Injection(1..n, S)  BY <1>3 DEF Injection
<1>5. IsFiniteSet(1..n) /\ Cardinality(1..n) = n
  <2>1. 1 \in Int /\ n \in Int  BY SMT, Z3, <1>1
  <2>2. IsFiniteSet(1..n) /\ Cardinality(1..n) = IF 1 > n THEN 0 ELSE n - 1 + 1  BY <2>1, FS_Interval
  <2> HIDE DEF n
  <2> QED  BY SMT, Z3, <1>1, <2>2
<1>6. SetToSeq(S) \in Surjection(1..n, S)  BY <1>4, <1>5, FS_Injection
<1>7. Range(SetToSeq(S)) = S  BY <1>3, <1>6 DEF Surjection, Range
<1>8. SetToSeq(S) \in Seq(S)
  <2> HIDE DEF n
  <2> QED  BY SMT, Z3, <1>1, <1>3
<1> QED  BY <1>3, <1>7, <1>8

-----------------------------------------------------------------------------
(* The scheduler.                                                          *)

\* What schedule() on CPU c does: the tasks in Q, the running one among them if
\* it goes on, join c's queue, the current context is saved at r, and next,
\* taken from the queue of the CPU from, runs.
Switch(c, r, Q, next, from, q) ==
    /\ q \in [CPUs -> Seq(Tasks)] /\ \A d \in CPUs \ {c} : q[d] = rq[d]
    /\ Range(q[c]) = Range(rq[c]) \cup Q
    /\ IsInjective(rq[c]) /\ Range(rq[c]) \cap Q = {} /\ (cur[c] \in Q => cur[c] \notin sleepers[c])
          => IsInjective(q[c])
    /\ next \in Tasks \cup {Idle} /\ from \in CPUs
    /\ next \in Tasks => next \in Range(q[from])
    /\ next = Idle => from = c /\ q[c] = <<>>
    /\ rq' = [q EXCEPT ![from] = Only(@, Tasks \ {next})]
    /\ cur' = [cur EXCEPT ![c] = next]
    /\ ctx' = IF cur[c] = Idle THEN ctx ELSE [ctx EXCEPT ![cur[c]] = r]
    /\ at' = [at EXCEPT ![c] = IF next = Idle THEN "idle" ELSE ctx'[next]]
    /\ state' = [t \in Tasks |-> IF t = next THEN "RUNNING" ELSE IF t \in Q THEN "READY" ELSE state[t]]
    /\ last_cpu' = [t \in Tasks |-> IF t = next THEN c ELSE IF t \in Q THEN c ELSE last_cpu[t]]

\* The wakes a handler has to do are the first and the others.
LEMMA HeadAndTail ==
    ASSUME NEW X, NEW s \in Seq(X), s # <<>>
    PROVE  Range(s) = {Head(s)} \cup Range(Tail(s))
<1>1. /\ Len(s) \in Nat \ {0} /\ DOMAIN s = 1..Len(s) /\ Head(s) = s[1]
      /\ DOMAIN Tail(s) = 1..(Len(s) - 1) /\ \A i \in 1..(Len(s) - 1) : Tail(s)[i] = s[i + 1]
  BY SMT, Z3, HeadTailProperties, LenProperties, EmptySeq
<1>2. \A x : (\E i \in 1..Len(s) : x = s[i]) <=> (x = s[1] \/ \E i \in 1..(Len(s) - 1) : x = s[i + 1])
  <2>1. \A i \in 1..Len(s) : i = 1 \/ (i - 1 \in 1..(Len(s) - 1) /\ i = (i - 1) + 1)  BY SMT, Z3, <1>1
  <2>2. \A i \in 1..(Len(s) - 1) : i + 1 \in 1..Len(s)  BY SMT, Z3, <1>1
  <2>3. 1 \in 1..Len(s)  BY SMT, Z3, <1>1
  <2> QED  BY <2>1, <2>2, <2>3
<1>3. \A x : x \in Range(s) <=> \E i \in 1..Len(s) : x = s[i]  BY <1>1 DEF Range
<1>4. \A x : x \in Range(Tail(s)) <=> \E i \in 1..(Len(s) - 1) : x = s[i + 1]  BY <1>1 DEF Range
<1> QED  BY <1>1, <1>2, <1>3, <1>4

\* Subsets of the tasks can be listed.
LEMMA SleepersListed ==
    ASSUME NEW S \in SUBSET Tasks
    PROVE  SetToSeq(S) \in Seq(Tasks) /\ Range(SetToSeq(S)) = S /\ IsInjective(SetToSeq(S))
<1>1. IsFiniteSet(S)  BY SchedAssumption, FS_Subset
<1>2. SetToSeq(S) \in Seq(S) /\ Range(SetToSeq(S)) = S /\ IsInjective(SetToSeq(S))  BY <1>1, ListOfSet
<1>3. SetToSeq(S) \in Seq(Tasks)  BY SMT, Z3, <1>2
<1> QED  BY <1>2, <1>3

\* Every call of schedule() does that.
LEMMA Switched ==
    ASSUME TypeOK, NEW c \in CPUs, NEW r, NEW requeue \in BOOLEAN, NEW woken \in SUBSET sleepers[c],
           requeue => cur[c] \in Tasks,
           SwitchFrom(c, r, requeue, woken)
    PROVE  \E next, from, q : Switch(c, r, IF requeue THEN woken \cup {cur[c]} ELSE woken, next, from, q)
<1> DEFINE Q    == IF requeue THEN woken \cup {cur[c]} ELSE woken
           own  == IF requeue THEN <<cur[c]>> ELSE <<>>
           list == rq[c] \o SetToSeq(woken) \o own
           q    == [rq EXCEPT ![c] = list]
           cx   == IF cur[c] = Idle THEN ctx ELSE [ctx EXCEPT ![cur[c]] = r]
           st   == [u \in Tasks |-> IF u \in Q THEN "READY" ELSE state[u]]
           lc   == [u \in Tasks |-> IF u \in Q THEN c ELSE last_cpu[u]]
<1>1. rq \in [CPUs -> Seq(Tasks)] /\ rq[c] \in Seq(Tasks)  BY DEF TypeOK
<1>2. SetToSeq(woken) \in Seq(Tasks) /\ Range(SetToSeq(woken)) = woken /\ IsInjective(SetToSeq(woken))
  <2>1. woken \in SUBSET Tasks  BY DEF TypeOK
  <2> QED  BY <2>1, SleepersListed
<1>3. own \in Seq(Tasks) /\ Range(own) = (IF requeue THEN {cur[c]} ELSE {}) /\ IsInjective(own)
  <2>1. CASE requeue
    <3>1. own = <<cur[c]>> /\ cur[c] \in Tasks  BY <2>1
    <3> HIDE DEF own
    <3> QED  BY SMT, Z3, <2>1, <3>1 DEF Range, IsInjective
  <2>2. CASE ~requeue
    <3>1. own = <<>>  BY <2>2
    <3> HIDE DEF own
    <3> QED  BY SMT, Z3, <2>2, <3>1 DEF Range, IsInjective
  <2> QED  BY <2>1, <2>2
<1> HIDE DEF own
<1>4. /\ list \in Seq(Tasks) /\ Range(list) = Range(rq[c]) \cup Q
      /\ IsInjective(rq[c]) /\ Range(rq[c]) \cap Q = {} /\ (cur[c] \in Q => cur[c] \notin sleepers[c])
            => IsInjective(list)
  <2> DEFINE half == rq[c] \o SetToSeq(woken)
  <2>1. /\ half \in Seq(Tasks) /\ Range(half) = Range(rq[c]) \cup woken
        /\ IsInjective(rq[c]) /\ Range(rq[c]) \cap woken = {} => IsInjective(half)
    BY SMT, Z3, <1>1, <1>2, ConcatLists
  <2>2. list = half \o own  OBVIOUS
  <2> HIDE DEF half, list
  <2>3. /\ list \in Seq(Tasks) /\ Range(list) = Range(half) \cup Range(own)
        /\ IsInjective(half) /\ IsInjective(own) /\ Range(half) \cap Range(own) = {} => IsInjective(list)
    BY SMT, Z3, <1>3, <2>1, <2>2, ConcatLists
  <2> QED  BY <1>3, <2>1, <2>3
<1>5. PickNext(c, st, q, lc, cx)  BY DEF SwitchFrom, own
<1> HIDE DEF list
<1>6. q \in [CPUs -> Seq(Tasks)] /\ q[c] = list /\ \A d \in CPUs \ {c} : q[d] = rq[d]  BY <1>1, <1>4
<1> HIDE DEF q, cx
<1>7. PICK choice \in Dequeue(c, q) :
         /\ rq' = [q EXCEPT ![choice[2]] = Only(@, Tasks \ {choice[1]})]
         /\ cur' = [cur EXCEPT ![c] = choice[1]]
         /\ ctx' = cx
         /\ at' = [at EXCEPT ![c] = IF choice[1] = Idle THEN "idle" ELSE cx[choice[1]]]
         /\ state' = [t \in Tasks |-> IF t = choice[1] THEN "RUNNING" ELSE st[t]]
         /\ last_cpu' = [t \in Tasks |-> IF t = choice[1] THEN c ELSE lc[t]]
  BY <1>5 DEF PickNext
<1> DEFINE next == choice[1]
           from == choice[2]
<1>8. /\ next \in Tasks \cup {Idle} /\ from \in CPUs
      /\ next \in Tasks => next \in Range(q[from])
      /\ next = Idle => from = c /\ q[c] = <<>>
  <2>1. Range(q[c]) \subseteq Tasks  BY <1>6, RangeOfSeq
  <2>2. CASE q[c] # <<>>
    <3>1. next \in Range(q[c]) /\ from = c  BY SMT, Z3, <1>7, <2>2 DEF Dequeue
    <3> QED  BY <2>1, <3>1, SchedAssumption
  <2>3. CASE q[c] = <<>>
    <3>1. \/ next \in Tasks /\ from \in CPUs /\ next \in Range(q[from])
          \/ next = Idle /\ from = c
      BY SMT, Z3, <1>7, <2>3 DEF Dequeue
    <3> QED  BY <2>3, <3>1, SchedAssumption
  <2> QED  BY <2>2, <2>3
<1> HIDE DEF next, from
<1>9. state' = [t \in Tasks |-> IF t = next THEN "RUNNING" ELSE IF t \in Q THEN "READY" ELSE state[t]]
  BY <1>7 DEF next
<1>10. last_cpu' = [t \in Tasks |-> IF t = next THEN c ELSE IF t \in Q THEN c ELSE last_cpu[t]]
  BY <1>7 DEF next
<1>11. rq' = [q EXCEPT ![from] = Only(@, Tasks \ {next})] /\ cur' = [cur EXCEPT ![c] = next]
  BY <1>7 DEF next, from
<1>12. ctx' = cx /\ at' = [at EXCEPT ![c] = IF next = Idle THEN "idle" ELSE ctx'[next]]
  BY <1>7 DEF next
<1>13. Switch(c, r, Q, next, from, q)
  BY <1>4, <1>6, <1>8, <1>9, <1>10, <1>11, <1>12 DEF Switch, cx
<1> QED  BY <1>13

\* A tick after which the running task goes on.
Continue(c, woken) ==
    /\ StillRunning(c)
    /\ state' = [u \in Tasks |-> IF u \in woken THEN "READY" ELSE state[u]]
    /\ last_cpu' = [u \in Tasks |-> IF u \in woken THEN c ELSE last_cpu[u]]
    /\ rq' = [rq EXCEPT ![c] = @ \o SetToSeq(woken)]
    /\ ctx' = [ctx EXCEPT ![cur[c]] = "run"]
    /\ UNCHANGED <<cur, at>>

Running(c) == IF StillRunning(c) THEN {cur[c]} ELSE {}

\* A call of schedule() either switches or continues, after it has ended some
\* sleeps, and touches no handler.
LEMMA Scheduled ==
    ASSUME TypeOK, NEW c \in CPUs, Yield(c) \/ Reschedule(c) \/ Tick(c)
    PROVE  /\ UNCHANGED <<irq, waking>> /\ Foreground(c) /\ at[c] \in {"idle", "run", "yield"}
           /\ \E woken \in SUBSET sleepers[c] :
                 /\ sleepers' = [sleepers EXCEPT ![c] = @ \ woken] /\ (at[c] = "yield" => woken = {})
                 /\ \/ Continue(c, woken)
                    \/ \E r, next, from, q : /\ r = IF at[c] = "yield" THEN "wait" ELSE "run"
                                            /\ Switch(c, r, woken \cup Running(c), next, from, q)
<1>0. sleepers \in [CPUs -> SUBSET Tasks] /\ cur[c] \in Tasks \cup {Idle}  BY DEF TypeOK
<1>1. StillRunning(c) \in BOOLEAN /\ (StillRunning(c) => cur[c] \in Tasks)  BY <1>0 DEF StillRunning
<1>2. ASSUME NEW r, NEW woken \in SUBSET sleepers[c], SwitchFrom(c, r, StillRunning(c), woken)
      PROVE  \E next, from, q : Switch(c, r, woken \cup Running(c), next, from, q)
  <2>1. (IF StillRunning(c) THEN woken \cup {cur[c]} ELSE woken) = woken \cup Running(c)  BY DEF Running
  <2>2. \E next, from, q : Switch(c, r, IF StillRunning(c) THEN woken \cup {cur[c]} ELSE woken, next, from, q)
    BY <1>1, <1>2, Switched
  <2> QED  BY <2>1, <2>2
<1>3. {} \in SUBSET sleepers[c] /\ sleepers = [sleepers EXCEPT ![c] = @ \ {}]  BY SMT, Z3, <1>0
<1>4. CASE Yield(c)
  <2>1. SwitchFrom(c, "wait", StillRunning(c), {}) /\ UNCHANGED <<sleepers, irq, waking>>
        /\ at[c] = "yield" /\ Foreground(c)
    BY <1>4 DEF Yield
  <2> QED  BY <1>2, <1>3, <2>1
<1>5. CASE Reschedule(c)
  <2>1. SwitchFrom(c, "run", StillRunning(c), {}) /\ UNCHANGED <<sleepers, irq, waking>>
        /\ at[c] \in {"idle", "run"} /\ Foreground(c)
    BY <1>5 DEF Reschedule
  <2>2. at[c] # "yield"  BY <2>1
  <2> QED  BY <1>2, <1>3, <2>1, <2>2
<1>6. CASE Tick(c)
  <2>1. at[c] \in {"idle", "run"} /\ Foreground(c) /\ UNCHANGED <<irq, waking>>  BY <1>6 DEF Tick
  <2>2. at[c] # "yield"  BY <2>1
  <2>3. PICK woken \in SUBSET sleepers[c] :
          /\ sleepers' = [sleepers EXCEPT ![c] = @ \ woken]
          /\ SwitchFrom(c, "run", StillRunning(c), woken) \/ Continue(c, woken)
    BY <1>6 DEF Tick, Continue
  <2> QED  BY <1>2, <2>1, <2>2, <2>3
<1> QED  BY <1>4, <1>5, <1>6

\* A CPU that is not idle runs a task.
Busy == \A c \in CPUs : at[c] # "idle" => cur[c] \in Tasks

\* A switch keeps the types.
LEMMA SwitchTypes ==
    ASSUME TypeOK, Busy, NEW c \in CPUs, NEW r \in Labels, NEW Q \in SUBSET Tasks, NEW next, NEW from, NEW q,
           Switch(c, r, Q, next, from, q), UNCHANGED <<irq, waking>>, sleepers' \in [CPUs -> SUBSET Tasks]
    PROVE  TypeOK' /\ Busy'
<1>1. /\ q \in [CPUs -> Seq(Tasks)] /\ next \in Tasks \cup {Idle} /\ from \in CPUs
      /\ rq' = [q EXCEPT ![from] = Only(@, Tasks \ {next})] /\ cur' = [cur EXCEPT ![c] = next]
      /\ ctx' = (IF cur[c] = Idle THEN ctx ELSE [ctx EXCEPT ![cur[c]] = r])
      /\ at' = [at EXCEPT ![c] = IF next = Idle THEN "idle" ELSE ctx'[next]]
      /\ state' = [t \in Tasks |-> IF t = next THEN "RUNNING" ELSE IF t \in Q THEN "READY" ELSE state[t]]
      /\ last_cpu' = [t \in Tasks |-> IF t = next THEN c ELSE IF t \in Q THEN c ELSE last_cpu[t]]
  BY DEF Switch
<1>2. Only(q[from], Tasks \ {next}) \in Seq(Tasks)  BY <1>1, FilteredList
<1>3. rq' \in [CPUs -> Seq(Tasks)]  BY <1>1, <1>2
<1>4. ctx' \in [Tasks -> Labels]  BY <1>1 DEF TypeOK
<1>5. at' \in [CPUs -> Labels] /\ cur' \in [CPUs -> Tasks \cup {Idle}]
  <2>1. (IF next = Idle THEN "idle" ELSE ctx'[next]) \in Labels  BY <1>1, <1>4 DEF Labels
  <2> QED  BY <1>1, <2>1 DEF TypeOK
<1>6. state' \in [Tasks -> {"READY", "RUNNING", "WAITING", "SLEEPING"}] /\ last_cpu' \in [Tasks -> CPUs]
  BY <1>1 DEF TypeOK
<1>7. Busy'  BY <1>1 DEF Busy, TypeOK
<1> QED  BY <1>3, <1>4, <1>5, <1>6, <1>7 DEF TypeOK

\* Every step of the scheduler keeps the types.
LEMMA SchedTypes ==
    ASSUME TypeOK, Busy, SchedNext
    PROVE  TypeOK' /\ Busy'
<1>1. PICK c \in CPUs : \/ WakeBegin(c) \/ WakeEnd(c) \/ WakeByOthers(c)
                        \/ Yield(c) \/ Reschedule(c) \/ Tick(c)
  BY DEF SchedNext
<1>2. CASE WakeBegin(c)
  <2>1. /\ irq[c] \in Seq(Tasks) /\ irq[c] # <<>> /\ irq' = [irq EXCEPT ![c] = Tail(@)]
        /\ UNCHANGED <<state, last_cpu, rq, sleepers, cur, at, ctx>>
    BY <1>2 DEF WakeBegin, TypeOK
  <2>2. Head(irq[c]) \in Tasks /\ Tail(irq[c]) \in Seq(Tasks)  BY <2>1, HeadTailProperties
  <2>3. irq' \in [CPUs -> Seq(Tasks)]  BY <2>1, <2>2 DEF TypeOK
  <2>4. waking' \in [CPUs -> [task : Tasks, cpu : CPUs] \cup {None}]
    <3>1. \/ waking' = waking
          \/ waking' = [waking EXCEPT ![c] = [task |-> Head(irq[c]), cpu |-> last_cpu[Head(irq[c])]]]
      BY <1>2 DEF WakeBegin
    <3>2. last_cpu[Head(irq[c])] \in CPUs  BY <2>2 DEF TypeOK
    <3>3. [task |-> Head(irq[c]), cpu |-> last_cpu[Head(irq[c])]] \in [task : Tasks, cpu : CPUs]
      BY SMT, Z3, <2>2, <3>2
    <3> QED  BY <3>1, <3>3 DEF TypeOK
  <2> QED  BY <2>1, <2>3, <2>4 DEF TypeOK, Busy
<1>3. CASE WakeEnd(c)
  <2>1. /\ waking' = [waking EXCEPT ![c] = None] /\ waking[c] # None
        /\ UNCHANGED <<sleepers, cur, at, ctx, irq>>
    BY <1>3 DEF WakeEnd
  <2>2. waking[c] \in [task : Tasks, cpu : CPUs]  BY <2>1 DEF TypeOK
  <2> DEFINE t == waking[c].task
  <2>3. t \in Tasks /\ waking[c].cpu \in CPUs  BY SMT, Z3, <2>2
  <2>4. \/ UNCHANGED <<state, last_cpu, rq>>
        \/ /\ state' = [state EXCEPT ![t] = "READY"]
           /\ \E target \in EnqueueTargets(waking[c].cpu) :
                 /\ rq' = [rq EXCEPT ![target] = Append(@, t)]
                 /\ last_cpu' = [last_cpu EXCEPT ![t] = target]
    BY <1>3 DEF WakeEnd
  <2> HIDE DEF t
  <2>5. CASE UNCHANGED <<state, last_cpu, rq>>
    BY <2>1, <2>5 DEF TypeOK, Busy
  <2>6. ASSUME NEW target \in EnqueueTargets(waking[c].cpu), state' = [state EXCEPT ![t] = "READY"],
               rq' = [rq EXCEPT ![target] = Append(@, t)], last_cpu' = [last_cpu EXCEPT ![t] = target]
        PROVE  TypeOK' /\ Busy'
    <3>1. target \in CPUs /\ rq[target] \in Seq(Tasks)  BY <2>3, <2>6 DEF EnqueueTargets, TypeOK
    <3>2. Append(rq[target], t) \in Seq(Tasks)  BY <2>3, <3>1, AppendToList
    <3>3. rq' \in [CPUs -> Seq(Tasks)]  BY <2>6, <3>1, <3>2 DEF TypeOK
    <3> QED  BY <2>1, <2>3, <2>6, <3>1, <3>3 DEF TypeOK, Busy
  <2> QED  BY <2>4, <2>5, <2>6
<1>4. CASE WakeByOthers(c)
  <2>1. PICK t \in Tasks : irq' = [irq EXCEPT ![c] = <<t>>]  BY <1>4 DEF WakeByOthers
  <2>2. <<t>> \in Seq(Tasks)  BY SMT, Z3
  <2> QED  BY <1>4, <2>1, <2>2 DEF WakeByOthers, TypeOK, Busy
<1>5. CASE Yield(c) \/ Reschedule(c) \/ Tick(c)
  <2>1. UNCHANGED <<irq, waking>>  BY <1>5, Scheduled
  <2>2. PICK woken \in SUBSET sleepers[c] :
          /\ sleepers' = [sleepers EXCEPT ![c] = @ \ woken]
          /\ \/ Continue(c, woken)
             \/ \E r, next, from, q : /\ r = IF at[c] = "yield" THEN "wait" ELSE "run"
                                      /\ Switch(c, r, woken \cup Running(c), next, from, q)
    BY <1>5, Scheduled
  <2>3. sleepers' \in [CPUs -> SUBSET Tasks] /\ woken \in SUBSET Tasks  BY <2>2 DEF TypeOK
  <2>4. cur[c] \in Tasks \cup {Idle} /\ (StillRunning(c) => cur[c] \in Tasks)  BY DEF TypeOK, StillRunning
  <2>5. CASE Continue(c, woken)
    <3>1. SetToSeq(woken) \in Seq(Tasks)  BY <2>3, SleepersListed
    <3>2. rq[c] \o SetToSeq(woken) \in Seq(Tasks)  BY <3>1, ConcatLists DEF TypeOK
    <3>3. rq' \in [CPUs -> Seq(Tasks)]  BY <2>5, <3>2 DEF Continue, TypeOK
    <3>4. ctx' \in [Tasks -> Labels]  BY <2>5 DEF Continue, TypeOK, Labels
    <3> QED  BY <2>1, <2>3, <2>5, <3>3, <3>4 DEF Continue, TypeOK, Busy
  <2>6. ASSUME NEW r, NEW next, NEW from, NEW q, r = IF at[c] = "yield" THEN "wait" ELSE "run",
               Switch(c, r, woken \cup Running(c), next, from, q)
        PROVE  TypeOK' /\ Busy'
    <3>1. r \in Labels  BY <2>6 DEF Labels
    <3>2. woken \cup Running(c) \in SUBSET Tasks  BY <2>3, <2>4 DEF Running
    <3> QED  BY <2>1, <2>3, <2>6, <3>1, <3>2, SwitchTypes
  <2> QED  BY <2>2, <2>5, <2>6
<1> QED  BY <1>1, <1>2, <1>3, <1>4, <1>5

\* No step of the scheduler makes a task WAITING, and none drops a wake of a
\* task that stays WAITING: wake() lets go of a task only once it is READY.
LEMMA WakesKept ==
    ASSUME TypeOK, SchedNext, NEW t \in Tasks, state'[t] = "WAITING"
    PROVE  state[t] = "WAITING" /\ (Woken(t) => Woken(t)')
<1>1. PICK c \in CPUs : \/ WakeBegin(c) \/ WakeEnd(c) \/ WakeByOthers(c)
                        \/ Yield(c) \/ Reschedule(c) \/ Tick(c)
  BY DEF SchedNext
<1>2. CASE WakeBegin(c)
  <2>1. /\ irq[c] \in Seq(Tasks) /\ irq[c] # <<>> /\ irq' = [irq EXCEPT ![c] = Tail(@)]
        /\ state' = state /\ waking[c] = None
    BY <1>2 DEF WakeBegin, TypeOK
  <2>2. irq \in [CPUs -> Seq(Tasks)] /\ waking \in [CPUs -> [task : Tasks, cpu : CPUs] \cup {None}]
    BY DEF TypeOK
  <2>3. Range(irq[c]) = {Head(irq[c])} \cup Range(Tail(irq[c]))  BY <2>1, HeadAndTail
  <2>4. \A d \in CPUs \ {c} : waking'[d] = waking[d] /\ irq'[d] = irq[d]
    BY <1>2, <2>1, <2>2 DEF WakeBegin
  <2>5. ASSUME NEW d \in CPUs, t \in Range(irq[d]) \/ (waking[d] # None /\ waking[d].task = t)
        PROVE  Woken(t)'
    <3>1. CASE d # c  BY <2>4, <2>5, <3>1 DEF Woken
    <3>2. CASE d = c /\ t \in Range(Tail(irq[c]))
      BY <2>1, <2>2, <3>2 DEF Woken
    <3>3. CASE d = c /\ t = Head(irq[c])
      <4>1. waking' = [waking EXCEPT ![c] = [task |-> t, cpu |-> last_cpu[t]]]
        BY <1>2, <2>1, <3>3 DEF WakeBegin
      <4>2. last_cpu[t] \in CPUs  BY DEF TypeOK
      <4>3. waking'[c] \in [task : Tasks, cpu : CPUs] /\ waking'[c].task = t  BY SMT, Z3, <2>2, <4>1, <4>2
      <4> QED  BY <4>3, SchedAssumption DEF Woken
    <3> QED  BY <2>1, <2>3, <2>5, <3>1, <3>2, <3>3
  <2> QED  BY <2>1, <2>5 DEF Woken
<1>3. CASE WakeEnd(c)
  <2>1. waking' = [waking EXCEPT ![c] = None] /\ waking[c] # None /\ irq' = irq  BY <1>3 DEF WakeEnd
  <2>2. waking \in [CPUs -> [task : Tasks, cpu : CPUs] \cup {None}]
        /\ state \in [Tasks -> {"READY", "RUNNING", "WAITING", "SLEEPING"}]
    BY DEF TypeOK
  <2>3. waking[c].task \in Tasks  BY SMT, Z3, <2>1, <2>2
  <2>4. \/ state[waking[c].task] # "WAITING" /\ state' = state
        \/ state' = [state EXCEPT ![waking[c].task] = "READY"]
    BY <1>3 DEF WakeEnd
  <2>5. waking[c].task # t /\ state[t] = "WAITING"  BY <2>2, <2>3, <2>4
  <2>6. \A d \in CPUs \ {c} : waking'[d] = waking[d]  BY <2>1, <2>2
  <2> QED  BY <2>1, <2>5, <2>6 DEF Woken
<1>4. CASE WakeByOthers(c)
  <2>1. state' = state /\ waking' = waking /\ irq[c] = <<>> /\ \A d \in CPUs \ {c} : irq'[d] = irq[d]
    BY <1>4 DEF WakeByOthers, Foreground, TypeOK
  <2>2. Range(irq[c]) = {}  BY <2>1, EmptyList DEF TypeOK
  <2> QED  BY <2>1, <2>2 DEF Woken
<1>5. CASE Yield(c) \/ Reschedule(c) \/ Tick(c)
  <2>1. UNCHANGED <<irq, waking>>  BY <1>5, Scheduled
  <2>2. PICK woken \in SUBSET sleepers[c] :
             \/ Continue(c, woken)
             \/ \E r, next, from, q : Switch(c, r, woken \cup Running(c), next, from, q)
    BY <1>5, Scheduled
  <2>3. state[t] = "WAITING"  BY <2>2 DEF Continue, Switch
  <2> QED  BY <2>1, <2>3 DEF Woken
<1> QED  BY <1>1, <1>2, <1>3, <1>4, <1>5

\* A handler that starts on c with wakes to do takes the place of none.
LEMMA HandlerStarts ==
    ASSUME TypeOK, NEW c \in CPUs, Foreground(c), NEW l \in Seq(Tasks), irq' = [irq EXCEPT ![c] = l],
           waking' = waking, NEW t \in Tasks
    PROVE  Woken(t)' <=> Woken(t) \/ t \in Range(l)
<1>1. irq \in [CPUs -> Seq(Tasks)] /\ irq[c] = <<>> /\ waking[c] = None  BY DEF TypeOK, Foreground
<1>2. Range(irq[c]) = {}  BY <1>1, EmptyList
<1>3. irq'[c] = l /\ \A d \in CPUs \ {c} : irq'[d] = irq[d]  BY <1>1
<1> QED  BY <1>1, <1>2, <1>3 DEF Woken

\* block_current, and sleep, change the state of the current task only.
LEMMA Blocked ==
    ASSUME TypeOK, Busy, NEW c \in CPUs, cur[c] \in Tasks, BlockCurrent(c) \/ Sleep(c)
    PROVE  /\ TypeOK' /\ Busy'
           /\ \A t \in Tasks \ {cur[c]} : state'[t] = state[t]
           /\ UNCHANGED <<irq, waking, cur, ctx, rq>>
<1>1. CASE BlockCurrent(c)  BY <1>1 DEF BlockCurrent, TypeOK, Busy, Labels
<1>2. CASE Sleep(c)
  <2>1. sleepers' \in [CPUs -> SUBSET Tasks]  BY <1>2 DEF Sleep, TypeOK
  <2> QED  BY <1>2, <2>1 DEF Sleep, TypeOK, Busy, Labels
<1> QED  BY <1>1, <1>2

-----------------------------------------------------------------------------
(* The wait queue.                                                         *)

WaitInv == QueueTypeOK /\ Busy /\ NoLostChange

\* Every step keeps the types, and every WAITING task registered or about to be
\* woken.
LEMMA WaitStep == WaitInv /\ [WaitNext]_waitVars => WaitInv'
<1> SUFFICES ASSUME WaitInv, [WaitNext]_waitVars PROVE WaitInv'
  OBVIOUS
<1>0. /\ TypeOK /\ Busy /\ seq \in 0..MaxSeq /\ waiters \in Seq(Tasks) /\ Len(waiters) <= MaxWaiters
      /\ snap \in [Tasks -> 0..MaxSeq]
      /\ \A t \in Tasks : state[t] = "WAITING" => (t \in Range(waiters) /\ snap[t] = seq) \/ Woken(t)
  BY DEF WaitInv, QueueTypeOK, NoLostChange
<1>1. ASSUME TypeOK', Busy', UNCHANGED <<seq, waiters, snap>>,
             \A t \in Tasks : state'[t] = "WAITING" => state[t] = "WAITING" /\ (Woken(t) => Woken(t)')
      PROVE  WaitInv'
  BY <1>0, <1>1 DEF WaitInv, QueueTypeOK, NoLostChange
<1>2. ASSUME UNCHANGED <<irq, waking>>, NEW t \in Tasks PROVE Woken(t)' <=> Woken(t)
  BY <1>2 DEF Woken
<1>3. CASE UNCHANGED waitVars
  <2>1. UNCHANGED <<state, last_cpu, rq, sleepers, cur, at, ctx, irq, waking, seq, waiters, snap>>
    BY <1>3 DEF waitVars, schedVars
  <2>2. TypeOK' /\ Busy'  BY <1>0, <2>1 DEF TypeOK, Busy
  <2> QED  BY <1>1, <1>2, <2>1, <2>2
<1>4. CASE WaitSys(SchedNext)
  <2>1. SchedNext /\ UNCHANGED <<seq, waiters, snap>>  BY <1>4 DEF WaitSys
  <2>2. TypeOK' /\ Busy'  BY <1>0, <2>1, SchedTypes
  <2> QED  BY <1>0, <1>1, <2>1, <2>2, WakesKept
<1>5. ASSUME NEW c \in CPUs, ReadSeq(c) PROVE WaitInv'
  <2>1. /\ snap' = [snap EXCEPT ![cur[c]] = seq] /\ at' = [at EXCEPT ![c] = "wait"] /\ cur[c] # Idle
        /\ UNCHANGED <<state, last_cpu, rq, sleepers, cur, ctx, irq, waking, seq, waiters>>
    BY <1>5 DEF ReadSeq
  <2>2. TypeOK' /\ Busy'  BY <1>0, <2>1 DEF TypeOK, Busy, Labels
  <2>3. snap' \in [Tasks -> 0..MaxSeq] /\ \A t \in Tasks : snap'[t] = snap[t] \/ snap'[t] = seq  BY <1>0, <2>1
  <2> QED  BY <1>0, <1>2, <2>1, <2>2, <2>3 DEF WaitInv, QueueTypeOK, NoLostChange
<1>6. ASSUME NEW c \in CPUs, WaitReturn(c) \/ ReleaseQueue(c) PROVE WaitInv'
  <2>1. /\ at[c] # "idle" /\ \E l \in Labels : at' = [at EXCEPT ![c] = l]
        /\ UNCHANGED <<state, last_cpu, rq, sleepers, cur, ctx, irq, waking, seq, waiters, snap>>
    BY <1>6 DEF WaitReturn, ReleaseQueue, ReleaseLock, Labels
  <2>2. TypeOK' /\ Busy'
    <3>1. PICK l \in Labels : at' = [at EXCEPT ![c] = l]  BY <2>1
    <3>2. at' \in [CPUs -> Labels] /\ \A d \in CPUs \ {c} : at'[d] = at[d]  BY <1>0, <3>1 DEF TypeOK
    <3>3. TypeOK'  BY <1>0, <2>1, <3>2 DEF TypeOK
    <3> QED  BY <1>0, <2>1, <3>2, <3>3 DEF Busy
  <2> QED  BY <1>1, <1>2, <2>1, <2>2
<1>7. ASSUME NEW c \in CPUs, WaitRegister(c) PROVE WaitInv'
  <2>1. /\ at[c] = "wait" /\ seq = snap[cur[c]] /\ BlockCurrent(c) /\ UNCHANGED <<seq, snap>>
        /\ \/ cur[c] \in Range(waiters) /\ waiters' = waiters
           \/ waiters' = Append(waiters, cur[c]) /\ Len(waiters) < MaxWaiters
    BY <1>7 DEF WaitRegister
  <2>2. cur[c] \in Tasks  BY <1>0, <2>1 DEF Busy
  <2>3. /\ TypeOK' /\ Busy' /\ \A t \in Tasks \ {cur[c]} : state'[t] = state[t]
        /\ UNCHANGED <<irq, waking>>
    BY <1>0, <2>1, <2>2, Blocked
  <2>4. waiters' \in Seq(Tasks) /\ Range(waiters') = Range(waiters) \cup {cur[c]}
    <3>1. CASE waiters' = Append(waiters, cur[c])  BY SMT, Z3, <1>0, <2>2, <3>1, AppendToList
    <3>2. CASE cur[c] \in Range(waiters) /\ waiters' = waiters  BY <1>0, <3>2
    <3> QED  BY <2>1, <3>1, <3>2
  <2>5. Len(waiters') <= MaxWaiters  BY SMT, Z3, <1>0, <2>1, WaitQueueAssumption
  <2> QED  BY <1>0, <1>2, <2>1, <2>3, <2>4, <2>5 DEF WaitInv, QueueTypeOK, NoLostChange
<1>8. ASSUME NEW c \in CPUs, WaitOverflow(c) PROVE WaitInv'
  <2>1. at[c] = "wait" /\ Sleep(c) /\ UNCHANGED <<seq, waiters, snap>>  BY <1>8 DEF WaitOverflow
  <2>2. cur[c] \in Tasks  BY <1>0, <2>1 DEF Busy
  <2>3. /\ TypeOK' /\ Busy' /\ \A t \in Tasks \ {cur[c]} : state'[t] = state[t]
        /\ UNCHANGED <<irq, waking>>
    BY <1>0, <2>1, <2>2, Blocked
  <2>4. state'[cur[c]] = "SLEEPING"  BY <1>0, <2>1, <2>2 DEF Sleep, TypeOK
  <2> QED  BY <1>1, <1>2, <2>1, <2>3, <2>4
<1>9. ASSUME NEW c \in CPUs, WakeAll(c) PROVE WaitInv'
  <2>1. /\ Foreground(c) /\ seq < MaxSeq /\ seq' = seq + 1 /\ waiters' = <<>>
        /\ irq' = [irq EXCEPT ![c] = waiters]
        /\ UNCHANGED <<state, last_cpu, rq, sleepers, cur, at, ctx, waking, snap>>
    BY <1>9 DEF WakeAll
  <2>2. \A t \in Tasks : Woken(t)' <=> Woken(t) \/ t \in Range(waiters)  BY <1>0, <2>1, HandlerStarts
  <2>3. TypeOK' /\ Busy'  BY <1>0, <2>1 DEF TypeOK, Busy
  <2>4. seq' \in 0..MaxSeq /\ waiters' \in Seq(Tasks) /\ Len(waiters') <= MaxWaiters
    BY SMT, Z3, <1>0, <2>1, WaitQueueAssumption
  <2> QED  BY <1>0, <2>1, <2>2, <2>3, <2>4 DEF WaitInv, QueueTypeOK, NoLostChange
<1> QED  BY <1>3, <1>4, <1>5, <1>6, <1>7, <1>8, <1>9 DEF WaitNext

\* The first state of the scheduler.
LEMMA SchedStarts ==
    ASSUME NEW home \in [Tasks -> CPUs], InitSched(home)
    PROVE  TypeOK /\ Busy /\ \A t \in Tasks : state[t] = "READY" /\ ctx[t] = "run"
<1>1. rq \in [CPUs -> Seq(Tasks)]
  <2>1. /\ rq \in [CPUs -> {s \in UNION {[1..n -> Tasks] : n \in 0..Cardinality(Tasks)} : IsInjective(s)}]
        /\ Cardinality(Tasks) \in Nat
    BY SchedAssumption, FS_CardinalityType DEF InitSched
  <2>2. ASSUME NEW c \in CPUs PROVE rq[c] \in Seq(Tasks)
    <3>1. rq[c] \in UNION {[1..n -> Tasks] : n \in 0..Cardinality(Tasks)}  BY <2>1
    <3>2. PICK n \in 0..Cardinality(Tasks) : rq[c] \in [1..n -> Tasks]  BY <3>1
    <3> QED  BY SMT, Z3, <2>1, <3>2
  <2> QED  BY <2>1, <2>2
<1>2. <<>> \in Seq(Tasks)  BY SMT, Z3
<1>3. irq \in [CPUs -> Seq(Tasks)]  BY <1>2 DEF InitSched
<1> QED  BY <1>1, <1>3 DEF InitSched, TypeOK, Busy, Labels

\* The first state.
LEMMA WaitStarts == WaitInit => WaitInv
<1> SUFFICES ASSUME WaitInit PROVE WaitInv
  OBVIOUS
<1>1. PICK home \in [Tasks -> CPUs] : InitSched(home)  BY DEF WaitInit
<1>2. TypeOK /\ Busy /\ \A t \in Tasks : state[t] = "READY"  BY <1>1, SchedStarts
<1>3. /\ seq \in 0..MaxSeq /\ waiters \in Seq(Tasks) /\ Len(waiters) <= MaxWaiters
      /\ snap \in [Tasks -> 0..MaxSeq]
  BY SMT, Z3, WaitQueueAssumption DEF WaitInit, InitQueue
<1> QED  BY <1>2, <1>3 DEF WaitInv, QueueTypeOK, NoLostChange

\* For any number of CPUs, tasks, places in the array and changes: no change
\* that a task waits for falls between its look at the number and its sleep
\* (kernel_wait_queue_wait_changed, kernel_wait_queue_wake_all, wake).
THEOREM ChangesAreKept == WaitSpec => []NoLostChange
<1>1. WaitInv => NoLostChange  BY DEF WaitInv
<1> QED  BY <1>1, WaitStarts, WaitStep, PTL DEF WaitSpec

-----------------------------------------------------------------------------
(* One CPU.                                                                *)

OneCpu == \A c, d \in CPUs : c = d

\* On one CPU a task's state says more: it is RUNNING just while the CPU
\* executes it outside block_current and sleep, and no handler runs on top of a
\* task that holds the primitive's lock.
Placed ==
    /\ StatePlacesTask
    /\ \A c \in CPUs :
          /\ at[c] = "idle" <=> cur[c] = Idle
          /\ cur[c] # Idle => (state[cur[c]] = "RUNNING" <=> at[c] \in {"run", "wait"})
          /\ at[c] = "locked" => state[cur[c]] = "WAITING" /\ Foreground(c)
    /\ \A t \in Tasks : ctx[t] \in {"run", "wait"} /\ (state[t] = "RUNNING" => \E c \in CPUs : cur[c] = t)

\* The same of the one CPU.
Linked(c) ==
    /\ IsInjective(rq[c])
    /\ \A t \in Tasks : (t \in Range(rq[c]) <=> state[t] = "READY") /\ (t \in sleepers[c] <=> state[t] = "SLEEPING")
At(c) ==
    /\ at[c] = "idle" <=> cur[c] = Idle
    /\ cur[c] # Idle => (state[cur[c]] = "RUNNING" <=> at[c] \in {"run", "wait"})
    /\ at[c] = "locked" => state[cur[c]] = "WAITING" /\ Foreground(c)
Saved(c) ==
    \A t \in Tasks : ctx[t] \in {"run", "wait"} /\ (state[t] = "RUNNING" => cur[c] = t)

\* What Placed says of the one CPU, before and after a step.
LEMMA PlacedParts ==
    ASSUME OneCpu, NEW c \in CPUs
    PROVE  /\ Placed <=> Linked(c) /\ At(c) /\ Saved(c)
           /\ Placed' <=> Linked(c)' /\ At(c)' /\ Saved(c)'
<1>1. \A d \in CPUs : d = c  BY DEF OneCpu
<1>2. StatePlacesTask <=> Linked(c)  BY <1>1 DEF StatePlacesTask, EnqueueUnlinked, Linked, Queued
<1>3. StatePlacesTask' <=> Linked(c)'  BY <1>1 DEF StatePlacesTask, EnqueueUnlinked, Linked, Queued
<1> QED  BY <1>1, <1>2, <1>3 DEF Placed, At, Saved

\* A switch on the one CPU keeps it.
LEMMA SwitchPlaces ==
    ASSUME OneCpu, TypeOK, NEW c \in CPUs, Linked(c), At(c), Saved(c), at[c] \in {"idle", "run", "yield"},
           NEW woken \in SUBSET sleepers[c], at[c] = "yield" => woken = {},
           sleepers' = [sleepers EXCEPT ![c] = @ \ woken],
           NEW r \in {"run", "wait"}, NEW next, NEW from, NEW q, Switch(c, r, woken \cup Running(c), next, from, q)
    PROVE  Linked(c)' /\ At(c)' /\ Saved(c)'
<1> DEFINE Q == woken \cup Running(c)
<1>1. /\ cur \in [CPUs -> Tasks \cup {Idle}] /\ at \in [CPUs -> Labels] /\ ctx \in [Tasks -> Labels]
      /\ sleepers \in [CPUs -> SUBSET Tasks] /\ rq[c] \in Seq(Tasks) /\ Idle \notin Tasks
  BY SchedAssumption DEF TypeOK
<1>2. \A t : t \in Running(c) <=> t = cur[c] /\ cur[c] # Idle /\ state[cur[c]] = "RUNNING"
  BY DEF Running, StillRunning
<1>3. Q \in SUBSET Tasks /\ \A t \in Q : state[t] # "READY"
  <2>1. woken \in SUBSET Tasks /\ cur[c] \in Tasks \cup {Idle}  BY <1>1
  <2>2. ASSUME NEW t \in Running(c) PROVE t \in Tasks /\ state[t] = "RUNNING"
    <3>1. t = cur[c] /\ cur[c] # Idle /\ state[cur[c]] = "RUNNING"  BY <1>2
    <3> QED  BY <2>1, <3>1
  <2>3. \A t \in woken : state[t] = "SLEEPING"  BY <2>1 DEF Linked
  <2> QED  BY <2>1, <2>2, <2>3
<1>4. \A t \in Q : t = cur[c] => t \notin sleepers[c]
  <2> SUFFICES ASSUME cur[c] \in Q, cur[c] \in sleepers[c] PROVE FALSE
    OBVIOUS
  <2>1. cur[c] \in Tasks /\ state[cur[c]] = "SLEEPING"  BY <1>1 DEF Linked
  <2>2. cur[c] \notin Running(c)  BY <1>2, <2>1
  <2>3. cur[c] \in woken  BY <2>2
  <2>4. at[c] # "idle" /\ at[c] # "run"  BY <1>1, <2>1 DEF At
  <2> QED  BY <2>3, <2>4
<1> HIDE DEF Q
<1>5. /\ q[c] \in Seq(Tasks) /\ Range(q[c]) = Range(rq[c]) \cup Q /\ from = c
      /\ next \in Tasks \cup {Idle} /\ (next \in Tasks => next \in Range(q[c]))
      /\ q \in [CPUs -> Seq(Tasks)] /\ rq' = [q EXCEPT ![from] = Only(@, Tasks \ {next})]
      /\ cur' = [cur EXCEPT ![c] = next]
      /\ ctx' = (IF cur[c] = Idle THEN ctx ELSE [ctx EXCEPT ![cur[c]] = r])
      /\ at' = [at EXCEPT ![c] = IF next = Idle THEN "idle" ELSE ctx'[next]]
      /\ state' = [t \in Tasks |-> IF t = next THEN "RUNNING" ELSE IF t \in Q THEN "READY" ELSE state[t]]
  BY DEF Switch, OneCpu, Q
<1>6. IsInjective(q[c])
  <2>1. Range(rq[c]) \cap Q = {}  BY <1>3 DEF Linked
  <2>2. IsInjective(rq[c])  BY DEF Linked
  <2> QED  BY <1>4, <2>1, <2>2 DEF Switch, Q
<1>7. rq'[c] = Only(q[c], Tasks \ {next})  BY <1>5
<1>8. IsInjective(rq'[c]) /\ Range(rq'[c]) = Range(q[c]) \cap (Tasks \ {next})  BY <1>5, <1>6, <1>7, FilteredList
<1>9. sleepers'[c] = sleepers[c] \ woken  BY <1>1
<1>10. \A t \in Tasks : state'[t] = IF t = next THEN "RUNNING" ELSE IF t \in Q THEN "READY" ELSE state[t]  BY <1>5
<1>11. Linked(c)'
  <2> SUFFICES ASSUME NEW t \in Tasks
               PROVE  (t \in Range(rq'[c]) <=> state'[t] = "READY") /\ (t \in sleepers'[c] <=> state'[t] = "SLEEPING")
    BY <1>8 DEF Linked
  <2>1. (t \in Range(rq[c]) <=> state[t] = "READY") /\ (t \in sleepers[c] <=> state[t] = "SLEEPING")  BY DEF Linked
  <2>2. t \in Range(rq'[c]) <=> (t \in Range(rq[c]) \/ t \in Q) /\ t # next  BY <1>5, <1>8
  <2>3. CASE t = next
    <3>1. t \in Range(rq[c]) \/ t \in Q  BY <1>5, <2>3
    <3>2. t \notin sleepers'[c]  BY <1>2, <1>9, <2>1, <3>1 DEF Q
    <3> QED  BY <1>10, <2>2, <2>3, <3>2
  <2>4. CASE t # next /\ t \in Q
    <3>1. t \notin sleepers'[c]  BY <1>2, <1>9, <2>1, <2>4 DEF Q
    <3> QED  BY <1>10, <2>2, <2>4, <3>1
  <2>5. CASE t # next /\ t \notin Q
    <3>1. t \in sleepers'[c] <=> t \in sleepers[c]  BY <1>9, <2>5 DEF Q
    <3> QED  BY <1>10, <2>1, <2>2, <2>5, <3>1
  <2> QED  BY <2>3, <2>4, <2>5
<1>12. \A t \in Tasks : ctx'[t] \in {"run", "wait"}  BY <1>1, <1>5 DEF Saved
<1>13. cur'[c] = next /\ at'[c] = IF next = Idle THEN "idle" ELSE ctx'[next]  BY <1>1, <1>5
<1>14. Saved(c)'
  <2> SUFFICES ASSUME NEW t \in Tasks, state'[t] = "RUNNING" PROVE cur'[c] = t
    BY <1>12 DEF Saved
  <2> SUFFICES ASSUME t # next PROVE FALSE
    BY <1>13
  <2>1. t \notin Q /\ state[t] = "RUNNING"  BY <1>10
  <2>2. cur[c] = t  BY <2>1 DEF Saved
  <2> QED  BY <1>1, <1>2, <2>1, <2>2 DEF Q
<1>15. At(c)'
  <2>1. CASE next = Idle  BY <1>13, <2>1 DEF At
  <2>2. CASE next \in Tasks
    <3>1. at'[c] \in {"run", "wait"} /\ cur'[c] = next /\ next # Idle  BY <1>1, <1>12, <1>13, <2>2
    <3>2. state'[next] = "RUNNING"  BY <1>10, <2>2
    <3> QED  BY <3>1, <3>2 DEF At
  <2> QED  BY <1>5, <2>1, <2>2
<1> QED  BY <1>11, <1>14, <1>15

\* Nothing changes while nothing happens in the scheduler.
LEMMA StillPlaced ==
    ASSUME Placed, UNCHANGED <<state, rq, sleepers, cur, at, ctx, irq, waking>>
    PROVE  Placed'
<1>1. StatePlacesTask'  BY DEF Placed, StatePlacesTask, EnqueueUnlinked, Queued
<1>2. \A c \in CPUs : /\ at'[c] = "idle" <=> cur'[c] = Idle
                      /\ cur'[c] # Idle => (state'[cur'[c]] = "RUNNING" <=> at'[c] \in {"run", "wait"})
                      /\ at'[c] = "locked" => state'[cur'[c]] = "WAITING" /\ Foreground(c)'
  BY DEF Placed, Foreground
<1>3. \A t \in Tasks : ctx'[t] \in {"run", "wait"} /\ (state'[t] = "RUNNING" => \E c \in CPUs : cur'[c] = t)
  BY DEF Placed
<1> QED  BY <1>1, <1>2, <1>3 DEF Placed

\* The scheduler's steps keep it.
LEMMA SchedPlaces ==
    ASSUME OneCpu, TypeOK, Placed, SchedNext
    PROVE  Placed'
<1>1. PICK c \in CPUs : \/ WakeBegin(c) \/ WakeEnd(c) \/ WakeByOthers(c)
                        \/ Yield(c) \/ Reschedule(c) \/ Tick(c)
  BY DEF SchedNext
<1>2. Linked(c) /\ At(c) /\ Saved(c)  BY PlacedParts
<1> SUFFICES Linked(c)' /\ At(c)' /\ Saved(c)'
  BY PlacedParts
<1>3. CASE WakeBegin(c) \/ WakeByOthers(c)
  <2>1. UNCHANGED <<state, rq, sleepers, cur, at, ctx>> /\ at[c] # "locked"
    BY <1>2, <1>3 DEF WakeBegin, WakeByOthers, InterruptsOn, At, Foreground
  <2> QED  BY <1>2, <2>1 DEF Linked, At, Saved
<1>4. CASE WakeEnd(c)
  <2>1. waking[c] # None /\ waking[c] \in [task : Tasks, cpu : CPUs] /\ UNCHANGED <<sleepers, cur, at, ctx>>
    BY <1>4 DEF WakeEnd, TypeOK
  <2>2. at[c] # "locked"  BY <1>2, <2>1 DEF At, Foreground
  <2> DEFINE t == waking[c].task
  <2>3. t \in Tasks /\ waking[c].cpu \in CPUs  BY SMT, Z3, <2>1
  <2>4. \/ UNCHANGED <<state, rq>>
        \/ /\ state[t] = "WAITING" /\ state' = [state EXCEPT ![t] = "READY"]
           /\ \E target \in EnqueueTargets(waking[c].cpu) : rq' = [rq EXCEPT ![target] = Append(@, t)]
    BY <1>4 DEF WakeEnd
  <2> HIDE DEF t
  <2>5. CASE UNCHANGED <<state, rq>>  BY <1>2, <2>1, <2>2, <2>5 DEF Linked, At, Saved
  <2>6. CASE /\ state[t] = "WAITING" /\ state' = [state EXCEPT ![t] = "READY"]
             /\ \E target \in EnqueueTargets(waking[c].cpu) : rq' = [rq EXCEPT ![target] = Append(@, t)]
    <3>1. EnqueueTargets(waking[c].cpu) \subseteq CPUs  BY <2>3 DEF EnqueueTargets
    <3>2. rq' = [rq EXCEPT ![c] = Append(@, t)]  BY <2>6, <3>1 DEF OneCpu
    <3>3. rq[c] \in Seq(Tasks) /\ rq'[c] = Append(rq[c], t)  BY <3>2 DEF TypeOK
    <3>4. t \notin Range(rq[c]) /\ IsInjective(rq[c])  BY <1>2, <2>3, <2>6 DEF Linked
    <3>5. IsInjective(rq'[c]) /\ Range(rq'[c]) = Range(rq[c]) \cup {t}
      <4>1. IsInjective(Append(rq[c], t)) /\ Range(Append(rq[c], t)) = Range(rq[c]) \cup {t}
        BY SMT, Z3, <2>3, <3>3, <3>4, AppendToList
      <4> QED  BY <3>3, <4>1
    <3>6. state'[t] = "READY" /\ \A u \in Tasks \ {t} : state'[u] = state[u]  BY <2>3, <2>6 DEF TypeOK
    <3>7. Linked(c)'  BY <1>2, <2>1, <2>3, <2>6, <3>5, <3>6 DEF Linked
    <3>8. Saved(c)'  BY <1>2, <2>1, <2>3, <3>6 DEF Saved
    <3>9. At(c)'
      <4>1. (at'[c] = "idle" <=> cur'[c] = Idle) /\ at'[c] # "locked"  BY <1>2, <2>1, <2>2 DEF At
      <4>2. CASE cur[c] = t  BY <1>2, <2>1, <2>6, <3>6, <4>1, <4>2 DEF At
      <4>3. CASE cur[c] # t
        <5>1. cur[c] # Idle => state'[cur[c]] = state[cur[c]]  BY <3>6, <4>3 DEF TypeOK
        <5> QED  BY <1>2, <2>1, <4>1, <5>1 DEF At
      <4> QED  BY <4>2, <4>3
    <3> QED  BY <3>7, <3>8, <3>9
  <2> QED  BY <2>4, <2>5, <2>6
<1>5. CASE Yield(c) \/ Reschedule(c) \/ Tick(c)
  <2>1. Foreground(c) /\ at[c] \in {"idle", "run", "yield"}  BY <1>5, Scheduled
  <2>2. PICK woken \in SUBSET sleepers[c] :
          /\ sleepers' = [sleepers EXCEPT ![c] = @ \ woken] /\ (at[c] = "yield" => woken = {})
          /\ \/ Continue(c, woken)
             \/ \E r, next, from, q : /\ r = IF at[c] = "yield" THEN "wait" ELSE "run"
                                      /\ Switch(c, r, woken \cup Running(c), next, from, q)
    BY <1>5, Scheduled
  <2>3. CASE Continue(c, woken)
    <3>1. /\ StillRunning(c) /\ rq' = [rq EXCEPT ![c] = @ \o SetToSeq(woken)] /\ UNCHANGED <<cur, at>>
          /\ state' = [u \in Tasks |-> IF u \in woken THEN "READY" ELSE state[u]]
          /\ ctx' = [ctx EXCEPT ![cur[c]] = "run"]
      BY <2>3 DEF Continue
    <3>2. /\ woken \in SUBSET Tasks /\ rq \in [CPUs -> Seq(Tasks)] /\ rq[c] \in Seq(Tasks)
          /\ cur[c] \in Tasks \cup {Idle}
      BY DEF TypeOK
    <3>3. SetToSeq(woken) \in Seq(Tasks) /\ Range(SetToSeq(woken)) = woken /\ IsInjective(SetToSeq(woken))
      BY <3>2, SleepersListed
    <3>4. rq'[c] = rq[c] \o SetToSeq(woken) /\ sleepers'[c] = sleepers[c] \ woken  BY <2>2, <3>1, <3>2 DEF TypeOK
    <3>5. \A t \in woken : state[t] = "SLEEPING"  BY <1>2, <3>2 DEF Linked
    <3>6. Range(rq[c]) \cap woken = {} /\ IsInjective(rq[c])  BY <1>2, <3>2, <3>5 DEF Linked
    <3>7. IsInjective(rq'[c]) /\ Range(rq'[c]) = Range(rq[c]) \cup woken
      <4> DEFINE l == SetToSeq(woken)
      <4> HIDE DEF l
      <4>1. l \in Seq(Tasks) /\ Range(l) = woken /\ IsInjective(l)  BY <3>3 DEF l
      <4>2. /\ Range(rq[c] \o l) = Range(rq[c]) \cup Range(l)
            /\ IsInjective(rq[c]) /\ IsInjective(l) /\ Range(rq[c]) \cap Range(l) = {} => IsInjective(rq[c] \o l)
        BY SMT, Z3, <3>2, <4>1, ConcatLists
      <4>3. IsInjective(rq[c] \o l) /\ Range(rq[c] \o l) = Range(rq[c]) \cup woken  BY <3>6, <4>1, <4>2
      <4> QED  BY <3>4, <4>3 DEF l
    <3>8. \A t \in Tasks : state'[t] = IF t \in woken THEN "READY" ELSE state[t]  BY <3>1
    <3>9. Linked(c)'  BY <1>2, <3>4, <3>5, <3>7, <3>8 DEF Linked
    <3>10. cur[c] \in Tasks /\ state'[cur[c]] = "RUNNING" /\ state[cur[c]] = "RUNNING"
      BY <3>1, <3>2, <3>5, <3>8 DEF StillRunning
    <3>11. At(c)'  BY <1>2, <3>1, <3>10 DEF At
    <3>12. \A t \in Tasks : ctx'[t] \in {"run", "wait"}  BY <1>2, <3>1 DEF Saved, TypeOK
    <3>13. Saved(c)'  BY <1>2, <3>1, <3>8, <3>12 DEF Saved
    <3> QED  BY <3>9, <3>11, <3>13
  <2>4. ASSUME NEW r, NEW next, NEW from, NEW q, r = IF at[c] = "yield" THEN "wait" ELSE "run",
               Switch(c, r, woken \cup Running(c), next, from, q)
        PROVE  Linked(c)' /\ At(c)' /\ Saved(c)'
    <3>1. r \in {"run", "wait"}  BY <2>4
    <3> QED  BY <1>2, <2>1, <2>2, <2>4, <3>1, SwitchPlaces
  <2> QED  BY <2>2, <2>3, <2>4
<1> QED  BY <1>1, <1>3, <1>4, <1>5

\* A step of a primitive in its loop, outside it, or out of block_current.
LEMMA LoopPlaces ==
    ASSUME OneCpu, TypeOK, Placed, NEW c \in CPUs, NEW l, at' = [at EXCEPT ![c] = l],
           \/ at[c] \in {"run", "wait"} /\ l \in {"run", "wait"}
           \/ at[c] = "locked" /\ l = "yield",
           UNCHANGED <<state, rq, sleepers, cur, ctx, irq, waking>>
    PROVE  Placed'
<1>1. Linked(c) /\ At(c) /\ Saved(c)  BY PlacedParts
<1>2. at'[c] = l  BY DEF TypeOK
<1>3. Linked(c)' /\ Saved(c)'  BY <1>1 DEF Linked, Saved
<1>4. At(c)'  BY <1>1, <1>2 DEF At, Foreground
<1> QED  BY <1>3, <1>4, PlacedParts

\* A handler that starts with wakes to do.
LEMMA HandlerPlaces ==
    ASSUME OneCpu, TypeOK, Placed, NEW c \in CPUs, InterruptsOn(c),
           UNCHANGED <<state, rq, sleepers, cur, ctx, at, waking>>
    PROVE  Placed'
<1>1. Linked(c) /\ At(c) /\ Saved(c)  BY PlacedParts
<1>2. at'[c] # "locked"  BY DEF InterruptsOn
<1>3. Linked(c)' /\ Saved(c)'  BY <1>1 DEF Linked, Saved
<1>4. At(c)'  BY <1>1, <1>2 DEF At
<1> QED  BY <1>3, <1>4, PlacedParts

\* A task that blocks or sleeps in the loop of a primitive.
LEMMA BlockPlaces ==
    ASSUME OneCpu, TypeOK, Placed, NEW c \in CPUs, at[c] = "wait", Foreground(c), BlockCurrent(c) \/ Sleep(c)
    PROVE  Placed'
<1>1. Linked(c) /\ At(c) /\ Saved(c)  BY PlacedParts
<1>2. cur[c] # Idle /\ cur[c] \in Tasks /\ state[cur[c]] = "RUNNING"  BY <1>1 DEF At, TypeOK
<1>3. UNCHANGED <<rq, cur, ctx, irq, waking>>  BY DEF BlockCurrent, Sleep
<1>4. CASE BlockCurrent(c)
  <2>1. state'[cur[c]] = "WAITING" /\ \A t \in Tasks \ {cur[c]} : state'[t] = state[t]
    BY <1>2, <1>4 DEF BlockCurrent, TypeOK
  <2>2. at'[c] = "locked" /\ sleepers' = sleepers  BY <1>4 DEF BlockCurrent, TypeOK
  <2>3. Linked(c)'
    <3>1. IsInjective(rq'[c])  BY <1>1, <1>3 DEF Linked
    <3>2. ASSUME NEW t \in Tasks
          PROVE (t \in Range(rq[c]) <=> state'[t] = "READY") /\ (t \in sleepers[c] <=> state'[t] = "SLEEPING")
      <4>1. CASE t = cur[c]  BY <1>1, <1>2, <2>1, <4>1 DEF Linked
      <4>2. CASE t # cur[c]  BY <1>1, <2>1, <4>2 DEF Linked
      <4> QED  BY <4>1, <4>2
    <3> QED  BY <1>3, <2>2, <3>1, <3>2 DEF Linked
  <2>4. Saved(c)'  BY <1>1, <1>2, <1>3, <2>1 DEF Saved
  <2>5. At(c)'  BY <1>2, <1>3, <2>1, <2>2 DEF At, Foreground
  <2> QED  BY <2>3, <2>4, <2>5, PlacedParts
<1>5. CASE Sleep(c)
  <2>1. state'[cur[c]] = "SLEEPING" /\ \A t \in Tasks \ {cur[c]} : state'[t] = state[t]
    BY <1>2, <1>5 DEF Sleep, TypeOK
  <2>2. at'[c] = "yield" /\ sleepers'[c] = sleepers[c] \cup {cur[c]}  BY <1>5 DEF Sleep, TypeOK
  <2>3. Linked(c)'
    <3>1. IsInjective(rq'[c])  BY <1>1, <1>3 DEF Linked
    <3>2. ASSUME NEW t \in Tasks
          PROVE (t \in Range(rq[c]) <=> state'[t] = "READY") /\ (t \in sleepers'[c] <=> state'[t] = "SLEEPING")
      <4>1. CASE t = cur[c]  BY <1>1, <1>2, <2>1, <2>2, <4>1 DEF Linked
      <4>2. CASE t # cur[c]  BY <1>1, <2>1, <2>2, <4>2 DEF Linked
      <4> QED  BY <4>1, <4>2
    <3> QED  BY <1>3, <3>1, <3>2 DEF Linked
  <2>4. Saved(c)'  BY <1>1, <1>2, <1>3, <2>1 DEF Saved
  <2>5. At(c)'  BY <1>2, <1>3, <2>1, <2>2 DEF At
  <2> QED  BY <2>3, <2>4, <2>5, PlacedParts
<1> QED  BY <1>4, <1>5

\* The first state.
LEMMA StartPlaces ==
    ASSUME OneCpu, NEW home \in [Tasks -> CPUs], InitSched(home)
    PROVE  Placed
<1> SUFFICES ASSUME NEW c \in CPUs PROVE Placed
  BY DEF Placed, InitSched, StatePlacesTask, EnqueueUnlinked
<1>1. IsInjective(rq[c]) /\ Range(rq[c]) = {t \in Tasks : home[t] = c}  BY DEF InitSched
<1>2. \A t \in Tasks : home[t] = c  BY DEF OneCpu
<1>3. sleepers[c] = {} /\ cur[c] = Idle /\ at[c] = "idle" /\ \A t \in Tasks : state[t] = "READY" /\ ctx[t] = "run"
  BY DEF InitSched
<1>4. Linked(c) /\ At(c) /\ Saved(c)  BY <1>1, <1>2, <1>3 DEF Linked, At, Saved
<1> QED  BY <1>4, PlacedParts

\* No step of the scheduler takes a task out of the wait call it is in: it is
\* switched away from and resumed there.
LEMMA WaitGoesOn ==
    ASSUME OneCpu, TypeOK, Placed, SchedNext, NEW t \in Tasks, InWait(t)
    PROVE  InWait(t)'
<1>1. PICK c \in CPUs : \/ WakeBegin(c) \/ WakeEnd(c) \/ WakeByOthers(c)
                        \/ Yield(c) \/ Reschedule(c) \/ Tick(c)
  BY DEF SchedNext
<1>2. \A d \in CPUs : d = c  BY DEF OneCpu
<1>3. At(c)  BY PlacedParts
<1>4. CASE WakeBegin(c) \/ WakeEnd(c) \/ WakeByOthers(c)
  <2>1. UNCHANGED <<cur, at, ctx>>  BY <1>4 DEF WakeBegin, WakeEnd, WakeByOthers
  <2> QED  BY <2>1 DEF InWait
<1>5. CASE Yield(c) \/ Reschedule(c) \/ Tick(c)
  <2>1. at[c] \in {"idle", "run", "yield"}  BY <1>5, Scheduled
  <2>2. cur[c] \in Tasks \cup {Idle} /\ ctx \in [Tasks -> Labels] /\ t # Idle
        /\ cur \in [CPUs -> Tasks \cup {Idle}] /\ at \in [CPUs -> Labels]
    BY SchedAssumption DEF TypeOK
  <2>3. PICK woken \in SUBSET sleepers[c] :
          \/ Continue(c, woken)
          \/ \E r, next, from, q : /\ r = IF at[c] = "yield" THEN "wait" ELSE "run"
                                   /\ Switch(c, r, woken \cup Running(c), next, from, q)
    BY <1>5, Scheduled
  <2>4. (cur[c] = t /\ at[c] = "yield") \/ (cur[c] # t /\ ctx[t] = "wait")  BY <1>2, <2>1 DEF InWait
  <2>5. CASE Continue(c, woken)
    <3>1. /\ cur[c] # Idle /\ state[cur[c]] = "RUNNING" /\ ctx' = [ctx EXCEPT ![cur[c]] = "run"]
          /\ UNCHANGED <<cur, at>>
      BY <2>5 DEF Continue, StillRunning
    <3>2. at[c] \in {"run", "wait"}  BY <1>3, <3>1 DEF At
    <3>3. cur[c] # t /\ ctx[t] = "wait"  BY <2>4, <3>2
    <3>4. ctx'[t] = "wait"  BY <2>2, <3>1, <3>3
    <3> QED  BY <1>2, <3>1, <3>3, <3>4 DEF InWait
  <2>6. ASSUME NEW r, NEW next, NEW from, NEW q, r = IF at[c] = "yield" THEN "wait" ELSE "run",
               Switch(c, r, woken \cup Running(c), next, from, q)
        PROVE  InWait(t)'
    <3>1. /\ cur' = [cur EXCEPT ![c] = next]
          /\ ctx' = (IF cur[c] = Idle THEN ctx ELSE [ctx EXCEPT ![cur[c]] = r])
          /\ at' = [at EXCEPT ![c] = IF next = Idle THEN "idle" ELSE ctx'[next]]
      BY <2>6 DEF Switch
    <3>2. ctx'[t] = "wait"
      <4>1. CASE cur[c] = t /\ at[c] = "yield"
        <5>1. r = "wait" /\ ctx' = [ctx EXCEPT ![t] = r]  BY <2>2, <2>6, <3>1, <4>1
        <5> QED  BY <2>2, <5>1
      <4>2. CASE cur[c] # t /\ ctx[t] = "wait"  BY <2>2, <3>1, <4>2
      <4> QED  BY <2>4, <4>1, <4>2
    <3>3. cur'[c] = next /\ at'[c] = IF next = Idle THEN "idle" ELSE ctx'[next]  BY <2>2, <3>1
    <3>4. CASE next = t
      <4>1. at'[c] = "wait" /\ cur'[c] = t  BY <2>2, <3>2, <3>3, <3>4
      <4> QED  BY <4>1 DEF InWait
    <3>5. CASE next # t  BY <1>2, <3>2, <3>3, <3>5 DEF InWait
    <3> QED  BY <3>4, <3>5
  <2> QED  BY <2>3, <2>5, <2>6
<1> QED  BY <1>1, <1>4, <1>5

OneCpuInv == WaitInv /\ Placed /\ WaitersCurrent

\* On one CPU every step of the wait queue keeps what the states say, and the
\* array free of tasks that are not waiting for the next change.
LEMMA OneCpuStep ==
    ASSUME OneCpu, OneCpuInv, [WaitNext]_waitVars
    PROVE  OneCpuInv'
<1>0. /\ TypeOK /\ Busy /\ Placed /\ waiters \in Seq(Tasks) /\ IsInjective(waiters)
      /\ snap \in [Tasks -> 0..MaxSeq] /\ at \in [CPUs -> Labels] /\ Range(waiters) \subseteq Tasks
      /\ \A t \in Range(waiters) : snap[t] = seq /\ InWait(t)
  BY RangeOfSeq DEF OneCpuInv, WaitInv, QueueTypeOK, WaitersCurrent, TypeOK
<1>1. WaitInv'  BY WaitStep DEF OneCpuInv
<1> SUFFICES Placed' /\ WaitersCurrent'
  BY <1>1 DEF OneCpuInv
<1>2. CASE UNCHANGED waitVars
  <2>1. UNCHANGED <<state, last_cpu, rq, sleepers, cur, at, ctx, irq, waking, seq, waiters, snap>>
    BY <1>2 DEF waitVars, schedVars
  <2>2. WaitersCurrent'  BY <2>1 DEF OneCpuInv, WaitersCurrent, InWait
  <2>3. Placed'  BY <1>0, <2>1, StillPlaced
  <2> QED  BY <2>2, <2>3
<1>3. CASE WaitSys(SchedNext)
  <2>1. SchedNext /\ UNCHANGED <<seq, waiters, snap>>  BY <1>3 DEF WaitSys
  <2>2. Placed'  BY <1>0, <2>1, SchedPlaces
  <2>3. \A t \in Range(waiters) : InWait(t)'  BY <1>0, <2>1, WaitGoesOn
  <2> QED  BY <1>0, <2>1, <2>2, <2>3 DEF WaitersCurrent
<1>4. ASSUME NEW c \in CPUs, NEW l, at' = [at EXCEPT ![c] = l],
             \A t \in Range(waiters) : cur[c] = t /\ at[c] \in {"wait", "locked", "yield"} =>
                 l \in {"wait", "locked", "yield"},
             UNCHANGED <<cur, ctx>>
      PROVE  \A t \in Range(waiters) : InWait(t)'
  <2> SUFFICES ASSUME NEW t \in Range(waiters) PROVE InWait(t)'
    OBVIOUS
  <2>1. at'[c] = l /\ \A d \in CPUs : d = c  BY <1>0, <1>4 DEF OneCpu
  <2>2. InWait(t)  BY <1>0
  <2> QED  BY <1>4, <2>1, <2>2 DEF InWait
<1>5. ASSUME NEW c \in CPUs, ReadSeq(c) PROVE Placed' /\ WaitersCurrent'
  <2>1. /\ at[c] = "run" /\ at' = [at EXCEPT ![c] = "wait"] /\ snap' = [snap EXCEPT ![cur[c]] = seq]
        /\ UNCHANGED <<state, last_cpu, rq, sleepers, cur, ctx, irq, waking, seq, waiters>>
    BY <1>5 DEF ReadSeq
  <2>2. Placed'  BY <1>0, <2>1, LoopPlaces
  <2>3. \A t \in Range(waiters) : InWait(t)'  BY <1>4, <2>1
  <2>4. \A t \in Range(waiters) : snap'[t] = seq  BY <1>0, <2>1
  <2> QED  BY <1>0, <2>1, <2>2, <2>3, <2>4 DEF WaitersCurrent
<1>6. ASSUME NEW c \in CPUs, WaitReturn(c) PROVE Placed' /\ WaitersCurrent'
  <2>1. /\ at[c] = "wait" /\ at' = [at EXCEPT ![c] = "run"] /\ seq # snap[cur[c]]
        /\ UNCHANGED <<state, last_cpu, rq, sleepers, cur, ctx, irq, waking, seq, waiters, snap>>
    BY <1>6 DEF WaitReturn
  <2>2. Placed'  BY <1>0, <2>1, LoopPlaces
  <2>3. \A t \in Range(waiters) : cur[c] # t  BY <1>0, <2>1
  <2>4. \A t \in Range(waiters) : InWait(t)'  BY <1>4, <2>1, <2>3
  <2> QED  BY <1>0, <2>1, <2>2, <2>4 DEF WaitersCurrent
<1>7. ASSUME NEW c \in CPUs, WaitRegister(c) PROVE Placed' /\ WaitersCurrent'
  <2>1. /\ at[c] = "wait" /\ Foreground(c) /\ BlockCurrent(c) /\ UNCHANGED <<seq, snap>> /\ seq = snap[cur[c]]
        /\ \/ cur[c] \in Range(waiters) /\ waiters' = waiters
           \/ waiters' = Append(waiters, cur[c]) /\ cur[c] \notin Range(waiters)
    BY <1>7 DEF WaitRegister
  <2>2. Placed'  BY <1>0, <2>1, BlockPlaces
  <2>3. cur[c] \in Tasks  BY <1>0, <2>1 DEF Busy
  <2>4. at' = [at EXCEPT ![c] = "locked"] /\ UNCHANGED <<cur, ctx>>  BY <2>1 DEF BlockCurrent
  <2>5. \A t \in Range(waiters) : InWait(t)'  BY <1>4, <2>4
  <2>6. InWait(cur[c])'
    <3>1. at'[c] = "locked" /\ cur'[c] = cur[c]  BY <1>0, <2>4
    <3>2. \E d \in CPUs : cur'[d] = cur[c] /\ at'[d] \in {"wait", "locked", "yield"}  BY <3>1
    <3> QED  BY <2>4, <3>2 DEF InWait
  <2>7. IsInjective(waiters') /\ Range(waiters') = Range(waiters) \cup {cur[c]}
    <3>1. CASE waiters' = Append(waiters, cur[c]) /\ cur[c] \notin Range(waiters)
      BY SMT, Z3, <1>0, <2>3, <3>1, AppendToList
    <3>2. CASE cur[c] \in Range(waiters) /\ waiters' = waiters  BY <1>0, <3>2
    <3> QED  BY <2>1, <3>1, <3>2
  <2> QED  BY <1>0, <2>1, <2>2, <2>4, <2>5, <2>6, <2>7 DEF WaitersCurrent
<1>8. ASSUME NEW c \in CPUs, WaitOverflow(c) PROVE Placed' /\ WaitersCurrent'
  <2>1. at[c] = "wait" /\ Foreground(c) /\ Sleep(c) /\ UNCHANGED <<seq, waiters, snap>>  BY <1>8 DEF WaitOverflow
  <2>2. Placed'  BY <1>0, <2>1, BlockPlaces
  <2>3. at' = [at EXCEPT ![c] = "yield"] /\ UNCHANGED <<cur, ctx>>  BY <2>1 DEF Sleep
  <2>4. \A t \in Range(waiters) : InWait(t)'  BY <1>4, <2>3
  <2> QED  BY <1>0, <2>1, <2>2, <2>4 DEF WaitersCurrent
<1>9. ASSUME NEW c \in CPUs, ReleaseQueue(c) PROVE Placed' /\ WaitersCurrent'
  <2>1. /\ at[c] = "locked" /\ at' = [at EXCEPT ![c] = "yield"]
        /\ UNCHANGED <<state, last_cpu, rq, sleepers, cur, ctx, irq, waking, seq, waiters, snap>>
    BY <1>9 DEF ReleaseQueue, ReleaseLock
  <2>2. Placed'  BY <1>0, <2>1, LoopPlaces
  <2>3. \A t \in Range(waiters) : InWait(t)'  BY <1>4, <2>1
  <2> QED  BY <1>0, <2>1, <2>2, <2>3 DEF WaitersCurrent
<1>10. ASSUME NEW c \in CPUs, WakeAll(c) PROVE Placed' /\ WaitersCurrent'
  <2>1. /\ InterruptsOn(c) /\ waiters' = <<>>
        /\ UNCHANGED <<state, last_cpu, rq, sleepers, cur, at, ctx, waking, snap>>
    BY <1>10 DEF WakeAll
  <2>2. Placed'  BY <1>0, <2>1, HandlerPlaces
  <2>3. Range(waiters') = {} /\ IsInjective(waiters')  BY SMT, Z3, <2>1 DEF Range, IsInjective
  <2> QED  BY <2>2, <2>3 DEF WaitersCurrent
<1> QED  BY <1>2, <1>3, <1>5, <1>6, <1>7, <1>8, <1>9, <1>10 DEF WaitNext

\* On one CPU, for any tasks, places in the array and changes: a task's state
\* says in which list of the scheduler it is (block_current, wake, schedule,
\* sleep), and the array of the wait queue holds each waiting task once, with
\* the number it waits to see changed (kernel_wait_queue_wait_changed).
THEOREM OneCpuQueueSound == OneCpu => (WaitSpec => [](StatePlacesTask /\ WaitersCurrent))
<1> SUFFICES ASSUME OneCpu PROVE WaitSpec => [](StatePlacesTask /\ WaitersCurrent)
  OBVIOUS
<1>1. WaitInit => OneCpuInv
  <2> SUFFICES ASSUME WaitInit PROVE OneCpuInv
    OBVIOUS
  <2>1. PICK home \in [Tasks -> CPUs] : InitSched(home)  BY DEF WaitInit
  <2>2. WaitInv /\ Placed  BY <2>1, WaitStarts, StartPlaces
  <2>3. waiters = <<>>  BY DEF WaitInit, InitQueue
  <2>4. Range(waiters) = {} /\ IsInjective(waiters)  BY SMT, Z3, <2>3 DEF Range, IsInjective
  <2> QED  BY <2>2, <2>4 DEF OneCpuInv, WaitersCurrent
<1>2. OneCpuInv /\ [WaitNext]_waitVars => OneCpuInv'  BY OneCpuStep
<1>3. OneCpuInv => StatePlacesTask /\ WaitersCurrent  BY DEF OneCpuInv, Placed
<1> QED  BY <1>1, <1>2, <1>3, PTL DEF WaitSpec

-----------------------------------------------------------------------------
(* The completion.                                                         *)

\* Only a waiter is inside the wait call, or WAITING.
InCall ==
    /\ \A c \in CPUs : at[c] \in {"wait", "locked", "yield"} => cur[c] \in Waiters
    /\ \A t \in Tasks : /\ ctx[t] \in {"run", "wait"} /\ (ctx[t] = "wait" => t \in Waiters)
                        /\ state[t] = "WAITING" => t \in Waiters

CompletionInv == CompletionTypeOK /\ Busy /\ InCall /\ NoLostWakeup /\ (OneCpu => Placed)

\* The scheduler's steps keep the waiters' call to them.
LEMMA CallKept ==
    ASSUME TypeOK, Busy, InCall, SchedNext
    PROVE  InCall'
<1>1. PICK c \in CPUs : \/ WakeBegin(c) \/ WakeEnd(c) \/ WakeByOthers(c)
                        \/ Yield(c) \/ Reschedule(c) \/ Tick(c)
  BY DEF SchedNext
<1>2. \A t \in Tasks : state'[t] = "WAITING" => t \in Waiters  BY WakesKept DEF InCall
<1>3. CASE WakeBegin(c) \/ WakeEnd(c) \/ WakeByOthers(c)
  <2>1. UNCHANGED <<cur, at, ctx>>  BY <1>3 DEF WakeBegin, WakeEnd, WakeByOthers
  <2> QED  BY <1>2, <2>1 DEF InCall
<1>4. CASE Yield(c) \/ Reschedule(c) \/ Tick(c)
  <2>1. at[c] \in {"idle", "run", "yield"}  BY <1>4, Scheduled
  <2>2. cur[c] \in Tasks \cup {Idle} /\ ctx \in [Tasks -> Labels] /\ Idle \notin Tasks
        /\ cur \in [CPUs -> Tasks \cup {Idle}] /\ at \in [CPUs -> Labels]
    BY SchedAssumption DEF TypeOK
  <2>3. PICK woken \in SUBSET sleepers[c] :
          \/ Continue(c, woken)
          \/ \E r, next, from, q : /\ r = IF at[c] = "yield" THEN "wait" ELSE "run"
                                   /\ Switch(c, r, woken \cup Running(c), next, from, q)
    BY <1>4, Scheduled
  <2>4. CASE Continue(c, woken)
    <3>1. ctx' = [ctx EXCEPT ![cur[c]] = "run"] /\ UNCHANGED <<cur, at>>  BY <2>4 DEF Continue
    <3>2. \A t \in Tasks : ctx'[t] = ctx[t] \/ ctx'[t] = "run"  BY <2>2, <3>1
    <3>3. \A t \in Tasks : ctx'[t] \in {"run", "wait"} /\ (ctx'[t] = "wait" => t \in Waiters)  BY <3>2 DEF InCall
    <3> QED  BY <1>2, <3>1, <3>3 DEF InCall
  <2>5. ASSUME NEW r, NEW next, NEW from, NEW q, r = IF at[c] = "yield" THEN "wait" ELSE "run",
               Switch(c, r, woken \cup Running(c), next, from, q)
        PROVE  InCall'
    <3>1. /\ cur' = [cur EXCEPT ![c] = next] /\ next \in Tasks \cup {Idle}
          /\ ctx' = (IF cur[c] = Idle THEN ctx ELSE [ctx EXCEPT ![cur[c]] = r])
          /\ at' = [at EXCEPT ![c] = IF next = Idle THEN "idle" ELSE ctx'[next]]
      BY <2>5 DEF Switch
    <3>2. r \in {"run", "wait"} /\ (r = "wait" => cur[c] \in Waiters)
      <4>1. CASE at[c] = "yield"  BY <2>5, <4>1 DEF InCall
      <4>2. CASE at[c] # "yield"
        <5>1. r = "run"  BY <2>5, <4>2
        <5> QED  BY <5>1
      <4> QED  BY <4>1, <4>2
    <3>3. ASSUME NEW t \in Tasks PROVE ctx'[t] \in {"run", "wait"} /\ (ctx'[t] = "wait" => t \in Waiters)
      <4>1. CASE ctx'[t] = ctx[t]  BY <4>1 DEF InCall
      <4>2. CASE t = cur[c] /\ ctx'[t] = r  BY <3>2, <4>2
      <4>3. ctx'[t] = ctx[t] \/ (t = cur[c] /\ ctx'[t] = r)  BY <2>2, <3>1
      <4> QED  BY <4>1, <4>2, <4>3
    <3>4. ASSUME NEW d \in CPUs, at'[d] \in {"wait", "locked", "yield"} PROVE cur'[d] \in Waiters
      <4>1. CASE d # c  BY <2>2, <3>1, <3>4, <4>1 DEF InCall
      <4>2. CASE d = c
        <5>1. cur'[c] = next /\ at'[c] = IF next = Idle THEN "idle" ELSE ctx'[next]  BY <2>2, <3>1
        <5>2. next # Idle  BY <3>4, <4>2, <5>1
        <5>3. next \in Tasks /\ at'[c] = ctx'[next]  BY <3>1, <5>1, <5>2
        <5>4. ctx'[next] \in {"run", "wait"}  BY <3>3, <5>3
        <5>5. ctx'[next] = "wait"  BY <3>4, <4>2, <5>3, <5>4
        <5> QED  BY <3>3, <4>2, <5>1, <5>3, <5>5
      <4> QED  BY <4>1, <4>2
    <3> QED  BY <1>2, <3>3, <3>4 DEF InCall
  <2> QED  BY <2>3, <2>4, <2>5
<1> QED  BY <1>1, <1>3, <1>4

\* Every step of a completion with one waiter keeps it in its slot or about to
\* be woken.
LEMMA CompletionStep ==
    ASSUME \A t, u \in Waiters : t = u, Resetters = {} \/ OneCpu,
           CompletionInv, [Next]_vars
    PROVE  CompletionInv'
<1>0. /\ TypeOK /\ Busy /\ InCall /\ done \in BOOLEAN /\ waiter \in Tasks \cup {None} /\ (OneCpu => Placed)
      /\ at \in [CPUs -> Labels] /\ None \notin Tasks /\ Waiters \subseteq Tasks
      /\ \A t \in Tasks : state[t] = "WAITING" => (waiter = t /\ ~done) \/ Woken(t)
  BY SchedAssumption, CompletionAssumption DEF CompletionInv, CompletionTypeOK, NoLostWakeup, TypeOK
<1>1. ASSUME TypeOK', Busy', InCall', OneCpu => Placed', UNCHANGED <<done, waiter>>,
             \A t \in Tasks : state'[t] = "WAITING" => state[t] = "WAITING" /\ (Woken(t) => Woken(t)')
      PROVE  CompletionInv'
  BY <1>0, <1>1 DEF CompletionInv, CompletionTypeOK, NoLostWakeup
<1>2. ASSUME UNCHANGED <<irq, waking>>, NEW t \in Tasks PROVE Woken(t)' <=> Woken(t)
  BY <1>2 DEF Woken
<1>3. CASE UNCHANGED vars
  <2>1. UNCHANGED <<state, last_cpu, rq, sleepers, cur, at, ctx, irq, waking, done, waiter>>
    BY <1>3 DEF vars, schedVars
  <2>2. TypeOK' /\ Busy' /\ InCall'  BY <1>0, <2>1 DEF TypeOK, Busy, InCall
  <2>3. OneCpu => Placed'  BY <1>0, <2>1, StillPlaced
  <2> QED  BY <1>1, <1>2, <2>1, <2>2, <2>3
<1>4. CASE Sys(SchedNext)
  <2>1. SchedNext /\ UNCHANGED <<done, waiter>>  BY <1>4 DEF Sys
  <2>2. TypeOK' /\ Busy' /\ InCall'  BY <1>0, <2>1, SchedTypes, CallKept
  <2>3. OneCpu => Placed'  BY <1>0, <2>1, SchedPlaces
  <2> QED  BY <1>0, <1>1, <2>1, <2>2, <2>3, WakesKept
<1>5. ASSUME NEW c \in CPUs, NEW l \in {"run", "wait", "yield"}, at' = [at EXCEPT ![c] = l],
             \/ at[c] \in {"run", "wait"} /\ l \in {"run", "wait"}
             \/ at[c] = "locked" /\ l = "yield",
             l # "run" => cur[c] \in Waiters,
             UNCHANGED <<state, last_cpu, rq, sleepers, cur, ctx, irq, waking>>
      PROVE  TypeOK' /\ Busy' /\ InCall' /\ (OneCpu => Placed')
  <2>1. l \in Labels /\ at[c] # "idle"  BY <1>5 DEF Labels
  <2>2. TypeOK' /\ Busy'  BY <1>0, <1>5, <2>1 DEF TypeOK, Busy
  <2>3. OneCpu => Placed'  BY <1>0, <1>5, LoopPlaces
  <2>4. InCall'
    <3>1. ASSUME NEW d \in CPUs, at'[d] \in {"wait", "locked", "yield"} PROVE cur'[d] \in Waiters
      <4>1. CASE d # c  BY <1>0, <1>5, <3>1, <4>1 DEF InCall
      <4>2. CASE d = c
        <5>1. at'[c] = l  BY <1>0, <1>5
        <5>2. l # "run"  BY <3>1, <4>2, <5>1
        <5> QED  BY <1>5, <4>2, <5>2
      <4> QED  BY <4>1, <4>2
    <3> QED  BY <1>0, <1>5, <3>1 DEF InCall
  <2> QED  BY <2>2, <2>3, <2>4
<1>6. ASSUME NEW c \in CPUs, CallWait(c) PROVE CompletionInv'
  <2>1. /\ at[c] = "run" /\ at' = [at EXCEPT ![c] = "wait"] /\ cur[c] \in Waiters
        /\ UNCHANGED <<state, last_cpu, rq, sleepers, cur, ctx, irq, waking>> /\ UNCHANGED <<done, waiter>>
    BY <1>6 DEF CallWait
  <2>2. TypeOK' /\ Busy' /\ InCall' /\ (OneCpu => Placed')  BY <1>5, <2>1
  <2> QED  BY <1>1, <1>2, <2>1, <2>2
<1>7. ASSUME NEW c \in CPUs, Release(c) PROVE CompletionInv'
  <2>1. /\ at[c] = "locked" /\ at' = [at EXCEPT ![c] = "yield"]
        /\ UNCHANGED <<state, last_cpu, rq, sleepers, cur, ctx, irq, waking>> /\ UNCHANGED <<done, waiter>>
    BY <1>7 DEF Release, ReleaseLock
  <2>2. cur[c] \in Waiters  BY <1>0, <2>1 DEF InCall
  <2>3. TypeOK' /\ Busy' /\ InCall' /\ (OneCpu => Placed')  BY <1>5, <2>1, <2>2
  <2> QED  BY <1>1, <1>2, <2>1, <2>3
<1>8. ASSUME NEW c \in CPUs, WaitDone(c) PROVE CompletionInv'
  <2>1. /\ at[c] = "wait" /\ at' = [at EXCEPT ![c] = "run"] /\ done /\ done' = FALSE /\ waiter' = None
        /\ UNCHANGED <<state, last_cpu, rq, sleepers, cur, ctx, irq, waking>>
    BY <1>8 DEF WaitDone
  <2>2. TypeOK' /\ Busy' /\ InCall' /\ (OneCpu => Placed')  BY <1>5, <2>1
  <2>3. \A t \in Tasks : state'[t] = "WAITING" => Woken(t)'  BY <1>0, <1>2, <2>1
  <2> QED  BY <2>1, <2>2, <2>3 DEF CompletionInv, CompletionTypeOK, NoLostWakeup
<1>9. ASSUME NEW c \in CPUs, Reset(c) PROVE CompletionInv'
  <2>1. /\ at[c] = "run" /\ cur[c] \in Resetters /\ done' = FALSE /\ waiter' = None
        /\ UNCHANGED <<state, last_cpu, rq, sleepers, cur, at, ctx, irq, waking>>
    BY <1>9 DEF Reset, schedVars
  <2>2. OneCpu /\ Placed /\ cur[c] \in Waiters /\ cur[c] \in Tasks  BY <1>0, <2>1, CompletionAssumption
  <2>3. Placed'  BY <2>1, <2>2, StillPlaced
  <2>4. TypeOK' /\ Busy' /\ InCall'  BY <1>0, <2>1 DEF TypeOK, Busy, InCall
  <2>5. At(c)  BY <2>2, PlacedParts
  <2>6. state[cur[c]] = "RUNNING"  BY <2>1, <2>2, <2>5, SchedAssumption DEF At
  <2>7. \A t \in Tasks : state[t] = "WAITING" => t \in Waiters  BY <1>0 DEF InCall
  <2>8. \A t \in Tasks : state[t] # "WAITING"
    <3> SUFFICES ASSUME NEW t \in Tasks, state[t] = "WAITING" PROVE FALSE
      OBVIOUS
    <3>1. t = cur[c]  BY <2>2, <2>7
    <3> QED  BY <2>6, <3>1
  <2> QED  BY <2>1, <2>3, <2>4, <2>8 DEF CompletionInv, CompletionTypeOK, NoLostWakeup
<1>10. ASSUME NEW c \in CPUs, WaitBlock(c) PROVE CompletionInv'
  <2>1. /\ at[c] = "wait" /\ Foreground(c) /\ ~done /\ waiter' = cur[c] /\ BlockCurrent(c) /\ done' = done
    BY <1>10 DEF WaitBlock
  <2>2. cur[c] \in Waiters /\ cur[c] \in Tasks  BY <1>0, <2>1 DEF InCall
  <2>3. /\ TypeOK' /\ Busy' /\ \A t \in Tasks \ {cur[c]} : state'[t] = state[t]
        /\ UNCHANGED <<irq, waking, cur, ctx>>
    BY <1>0, <2>1, <2>2, Blocked
  <2>4. OneCpu => Placed'  BY <1>0, <2>1, BlockPlaces
  <2>5. at' = [at EXCEPT ![c] = "locked"]  BY <2>1 DEF BlockCurrent
  <2>6. \A t \in Tasks : state'[t] = "WAITING" => t \in Waiters /\ t = cur[c]
    <3> SUFFICES ASSUME NEW t \in Tasks, state'[t] = "WAITING", t # cur[c] PROVE FALSE
      BY <2>2
    <3>1. t \in Waiters  BY <1>0, <2>3 DEF InCall
    <3> QED  BY <2>2, <3>1
  <2>7. \A d \in CPUs : at'[d] \in {"wait", "locked", "yield"} => cur[d] \in Waiters
    BY <1>0, <2>1, <2>2, <2>5 DEF InCall
  <2>8. InCall'  BY <1>0, <2>3, <2>6, <2>7 DEF InCall
  <2> QED  BY <1>0, <2>1, <2>2, <2>3, <2>4, <2>6, <2>8 DEF CompletionInv, CompletionTypeOK, NoLostWakeup
<1>11. ASSUME NEW c \in CPUs, Signal(c) PROVE CompletionInv'
  <2> DEFINE l == IF waiter = None THEN <<>> ELSE <<waiter>>
  <2>1. /\ InterruptsOn(c) /\ Foreground(c) /\ done' = TRUE /\ waiter' = None /\ irq' = [irq EXCEPT ![c] = l]
        /\ UNCHANGED <<state, last_cpu, rq, sleepers, cur, at, ctx, waking>>
    BY <1>11 DEF Signal
  <2>2. l \in Seq(Tasks) /\ (waiter # None => waiter \in Range(l))
    <3>1. CASE waiter = None
      <4>1. l = <<>>  BY <3>1
      <4> QED  BY SMT, Z3, <3>1, <4>1
    <3>2. CASE waiter # None
      <4>1. l = <<waiter>> /\ waiter \in Tasks  BY <1>0, <3>2
      <4> HIDE DEF l
      <4> QED  BY SMT, Z3, <4>1 DEF Range
    <3> QED  BY <3>1, <3>2
  <2> HIDE DEF l
  <2>3. \A t \in Tasks : Woken(t)' <=> Woken(t) \/ t \in Range(l)  BY <1>0, <2>1, <2>2, HandlerStarts
  <2>4. TypeOK' /\ Busy' /\ InCall'
    <3>1. irq' \in [CPUs -> Seq(Tasks)]  BY <1>0, <2>1, <2>2 DEF TypeOK
    <3> QED  BY <1>0, <2>1, <3>1 DEF TypeOK, Busy, InCall
  <2>5. OneCpu => Placed'  BY <1>0, <2>1, HandlerPlaces
  <2>6. \A t \in Tasks : state'[t] = "WAITING" => Woken(t)'  BY <1>0, <2>1, <2>2, <2>3
  <2> QED  BY <2>1, <2>4, <2>5, <2>6 DEF CompletionInv, CompletionTypeOK, NoLostWakeup
<1> QED  BY <1>3, <1>4, <1>6, <1>7, <1>8, <1>9, <1>10, <1>11 DEF Next

\* A completion that one task waits for, on any number of CPUs, loses no
\* wake-up between the test of done and the switch away; on one CPU not even
\* when the task resets it before each operation (kernel_completion_wait,
\* kernel_completion_signal, kernel_completion_reset, block_current, wake).
THEOREM WakeupsAreKept ==
    ASSUME \A t, u \in Waiters : t = u, Resetters = {} \/ OneCpu
    PROVE  Spec => []NoLostWakeup
<1>1. Init => CompletionInv
  <2> SUFFICES ASSUME Init PROVE CompletionInv
    OBVIOUS
  <2>1. PICK home \in [Tasks -> CPUs] : InitSched(home)  BY DEF Init
  <2>2. TypeOK /\ Busy /\ \A t \in Tasks : state[t] = "READY" /\ ctx[t] = "run"  BY <2>1, SchedStarts
  <2>3. OneCpu => Placed  BY <2>1, StartPlaces
  <2>4. \A c \in CPUs : at[c] = "idle"  BY <2>1 DEF InitSched
  <2>5. InCall  BY <2>2, <2>4 DEF InCall
  <2> QED  BY <2>2, <2>3, <2>5 DEF Init, CompletionInv, CompletionTypeOK, NoLostWakeup
<1>2. CompletionInv /\ [Next]_vars => CompletionInv'  BY CompletionStep
<1>3. CompletionInv => NoLostWakeup  BY DEF CompletionInv
<1> QED  BY <1>1, <1>2, <1>3, PTL DEF Spec
=============================================================================
