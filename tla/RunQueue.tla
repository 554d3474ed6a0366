------------------------------ MODULE RunQueue ------------------------------
(***************************************************************************)
(* The multi-level feedback queues of smp/scheduler.cpp: priorities,       *)
(* quanta, aging, load balancing on enqueue and work stealing.  Each       *)
(* section under a sched_lock is one step; block_current and wake, whose   *)
(* steps Sched tells apart, are atomic here.  The result of a try_acquire  *)
(* on another CPU's sched_lock is arbitrary.                               *)
(*                                                                         *)
(* Times are kept as ages: age[t] is cpu->ticks - t->enqueue_tick of a     *)
(* queued task and oldest[c][p] the same for task_queue_oldest_tick.  Ages *)
(* above AGING_THRESHOLD are not told apart.                               *)
(***************************************************************************)
EXTENDS Integers, Sequences, FiniteSets, SequencesExt

CONSTANTS CPUs, Tasks,
          MAX_QUEUES,        \* number of levels; 0 is served first
          TIME_QUANTUMS,     \* ticks a task may run at each level
          AGING_THRESHOLD,
          Idle               \* cpu->idle_task

Levels == 0..(MAX_QUEUES - 1)
OLD == AGING_THRESHOLD + 1

VARIABLES state,      \* READY, RUNNING or WAITING; NEW for no task
          priority, quantum, last_cpu,
          q,          \* task_queues_head .. tail, per CPU and level
          age,        \* ticks since the task was queued
          oldest,     \* task_queue_oldest_tick, as an age
          load,       \* runnable_count
          cur         \* current_task

vars == <<state, priority, quantum, last_cpu, q, age, oldest, load, cur>>

TypeOK ==
    /\ state \in [Tasks -> {"NEW", "READY", "RUNNING", "WAITING"}]
    /\ priority \in [Tasks -> Levels]
    /\ last_cpu \in [Tasks -> CPUs]
    /\ q \in [CPUs -> [Levels -> Seq(Tasks)]]
    /\ age \in [Tasks -> 0..OLD]
    /\ oldest \in [CPUs -> [Levels -> 0..OLD]]
    /\ load \in [CPUs -> Nat]
    /\ cur \in [CPUs -> Tasks \cup {Idle}]

\* The scheduler's data before the next section: the record the operators
\* below transform.
Now == [state |-> state, priority |-> priority, quantum |-> quantum, last_cpu |-> last_cpu,
        q |-> q, age |-> age, oldest |-> oldest, load |-> load]

Becomes(s) ==
    /\ state' = s.state /\ priority' = s.priority /\ quantum' = s.quantum
    /\ last_cpu' = s.last_cpu /\ q' = s.q /\ age' = s.age /\ oldest' = s.oldest
    /\ load' = s.load

Init ==
    /\ state = [t \in Tasks |-> "NEW"]
    /\ priority = [t \in Tasks |-> 0]
    /\ quantum = [t \in Tasks |-> TIME_QUANTUMS[0]]
    /\ last_cpu = [t \in Tasks |-> CHOOSE c \in CPUs : TRUE]
    /\ q = [c \in CPUs |-> [p \in Levels |-> <<>>]]
    /\ age = [t \in Tasks |-> 0]
    /\ oldest = [c \in CPUs |-> [p \in Levels |-> 0]]
    /\ load = [c \in CPUs |-> 0]
    /\ cur = [c \in CPUs |-> Idle]

\* Mutant: the tick of the oldest task is set with every task.
EnqueueOldest(s, c, t) ==
    [s EXCEPT !.state[t] = "READY", !.age[t] = 0, !.last_cpu[t] = c,
              !.q[c][s.priority[t]] = Append(@, t),
              !.oldest[c][s.priority[t]] = 0,
              !.load[c] = @ + 1]

\* enqueue: at the tail of its level.
Enqueue(s, c, t) ==
    LET p == s.priority[t] IN
    [s EXCEPT !.state[t] = "READY", !.age[t] = 0, !.last_cpu[t] = c,
              !.q[c][p] = Append(@, t),
              !.oldest[c][p] = IF s.q[c][p] = <<>> THEN 0 ELSE @,
              !.load[c] = @ + 1]

\* queue_oldest_tick of a level that holds the tasks l.
OldestOf(s, l) == IF l = <<>> THEN 0 ELSE s.age[Head(l)]

\* unlink_queued.
Unlink(s, c, t, p) ==
    LET l == SelectSeq(s.q[c][p], LAMBDA u : u # t) IN
    [s EXCEPT !.q[c][p] = l, !.oldest[c][p] = OldestOf(s, l), !.load[c] = @ - 1]

\* How many tasks at the head of level p have aged: the loop tests the cached
\* tick for the first and, unlink_queued having refreshed it, their own for
\* the others.
Expired(s, c, p) ==
    LET l == s.q[c][p]
        aged(n) == n = 0 \/ /\ s.oldest[c][p] > AGING_THRESHOLD
                            /\ \A i \in 2..n : s.age[l[i]] > AGING_THRESHOLD
    IN  IF p = 0 THEN 0
        ELSE CHOOSE n \in 0..Len(l) : aged(n) /\ \A m \in 0..Len(l) : aged(m) => m <= n

\* Mutant: no aging.
NoPromotion(s, c) == s

\* promote_expired_tasks: the aged tasks of each level go to the tail of the
\* next better one, with a fresh quantum and age.
Promote(s, c) ==
    LET n(p) == IF p < MAX_QUEUES THEN Expired(s, c, p) ELSE 0
        rise(p) == SubSeq(s.q[c][p], 1, n(p))
        risen == UNION {Range(rise(p)) : p \in Levels}
        list(p) == SubSeq(s.q[c][p], n(p) + 1, Len(s.q[c][p]))
                   \o (IF p + 1 < MAX_QUEUES THEN rise(p + 1) ELSE <<>>)
        ages == [t \in Tasks |-> IF t \in risen THEN 0 ELSE s.age[t]]
    IN  [s EXCEPT !.q[c] = [p \in Levels |-> list(p)],
                  !.priority = [t \in Tasks |-> IF t \in risen THEN @[t] - 1 ELSE @[t]],
                  !.quantum = [t \in Tasks |-> IF t \in risen THEN TIME_QUANTUMS[s.priority[t] - 1]
                                                              ELSE @[t]],
                  !.age = ages,
                  !.oldest[c] = [p \in Levels |->
                      IF n(p) = 0 /\ s.q[c][p] # <<>> THEN @[p]
                      ELSE IF list(p) = <<>> THEN 0 ELSE ages[Head(list(p))]]]

\* The CPUs select_enqueue_cpu may answer, given the ones whose lock it got.
SelectCpu(s, preferred, free) ==
    LET better == {c \in free \ {preferred} : s.load[c] + 1 < s.load[preferred]}
        least  == {c \in better : \A d \in better : s.load[c] <= s.load[d]}
    IN  IF better = {} THEN {preferred} ELSE least

\* steal_task: the tail of the worst level of the most loaded CPU.
Steal(s, c, free) ==
    LET victims == {v \in free \ {c} : s.load[v] > 0}
        most    == {v \in victims : \A w \in victims : s.load[v] >= s.load[w]}
        worst(v) == CHOOSE p \in Levels : /\ s.q[v][p] # <<>>
                                          /\ \A r \in Levels : s.q[v][r] # <<>> => r <= p
    IN  {<<v, worst(v), Last(s.q[v][worst(v)])>> : v \in most}

\* dequeue and the rest of schedule().
PickNext(s, c) ==
    LET m == Promote(s, c)
        own == {p \in Levels : m.q[c][p] # <<>>}
        run(r, t) == /\ Becomes([r EXCEPT !.state[t] = "RUNNING"])
                     /\ cur' = [cur EXCEPT ![c] = t]
    IN  \/ \E p \in own : /\ \A r \in own : p <= r
                          /\ run(Unlink(m, c, Head(m.q[c][p]), p), Head(m.q[c][p]))
        \/ /\ own = {}
           /\ \E free \in SUBSET CPUs :
                 \/ \E x \in Steal(m, c, free) :
                       run([Unlink(m, x[1], x[3], x[2]) EXCEPT !.last_cpu[x[3]] = c, !.age[x[3]] = 0], x[3])
                 \/ /\ Steal(m, c, free) = {}
                    /\ Becomes(m) /\ cur' = [cur EXCEPT ![c] = Idle]

\* cpu->ticks advances.
Older(s, c) ==
    LET older(a) == IF a < OLD THEN a + 1 ELSE OLD
        here(t)  == \E p \in Levels : t \in Range(s.q[c][p])
    IN  [s EXCEPT !.age = [t \in Tasks |-> IF here(t) THEN older(@[t]) ELSE @[t]],
                  !.oldest[c] = [p \in Levels |-> IF s.q[c][p] = <<>> THEN 0 ELSE older(@[p])]]

\* The running task has used another tick: at the end of its quantum it is
\* demoted.
UseTick(s, t) ==
    IF s.quantum[t] - 1 > 0 THEN [s EXCEPT !.quantum[t] = @ - 1]
    ELSE LET p == IF s.priority[t] < MAX_QUEUES - 1 THEN s.priority[t] + 1 ELSE s.priority[t]
         IN  [s EXCEPT !.priority[t] = p, !.quantum[t] = TIME_QUANTUMS[p]]

\* A timer tick from user mode or idle: schedule(true).
Tick(c) ==
    LET t == cur[c]
        s == Older(Now, c)
        u == UseTick(s, t)
        expired == s.quantum[t] = 1
        preempted == \E p \in Levels : p < s.priority[t] /\ s.q[c][p] # <<>>
    IN  \/ t = Idle /\ PickNext(s, c)
        \/ t # Idle /\ (expired \/ preempted) /\ PickNext(Enqueue(u, c, t), c)
        \/ t # Idle /\ ~expired /\ ~preempted /\ Becomes(u) /\ UNCHANGED cur

\* A timer tick that interrupts kernel code does not schedule.
KernelTick(c) ==
    /\ cur[c] # Idle
    /\ Becomes(Older(Now, c))
    /\ UNCHANGED cur

\* yield, or a reschedule request: schedule(false) of a RUNNING task.
Yield(c) ==
    /\ cur[c] # Idle
    /\ PickNext(Enqueue(Now, c, cur[c]), c)

\* block_current and the switch away.
Block(c) ==
    /\ cur[c] # Idle
    /\ PickNext([Now EXCEPT !.state[cur[c]] = "WAITING"], c)

\* exit and the switch away; the task structure is free for another spawn.
Exit(c) ==
    /\ cur[c] # Idle
    /\ PickNext([Now EXCEPT !.state[cur[c]] = "NEW"], c)

\* The reschedule mail that reaches an idle CPU.
IdleReschedule(c) ==
    /\ cur[c] = Idle
    /\ PickNext(Now, c)

\* enqueue_ready_on_best_cpu, where the second try_acquire may fail too.
EnqueueBest(s, preferred, t) ==
    \E free \in SUBSET CPUs, got \in BOOLEAN :
       \E target \in SelectCpu(s, preferred, free) :
          /\ Becomes(Enqueue(s, IF got THEN target ELSE preferred, t))
          /\ UNCHANGED cur

Wake(t) ==
    /\ state[t] = "WAITING"
    /\ EnqueueBest(Now, last_cpu[t], t)

\* spawn, called on CPU c.
Spawn(c, t) ==
    /\ state[t] = "NEW"
    /\ EnqueueBest([Now EXCEPT !.priority[t] = 0, !.quantum[t] = TIME_QUANTUMS[0]], c, t)

Next ==
    \/ \E c \in CPUs : Tick(c) \/ KernelTick(c) \/ Yield(c) \/ Block(c) \/ Exit(c)
                       \/ IdleReschedule(c)
    \/ \E t \in Tasks : Wake(t) \/ \E c \in CPUs : Spawn(c, t)

Spec == Init /\ [][Next]_vars

\* Every CPU takes a timer tick from user mode or idle again and again, unless
\* it idles with nothing queued anywhere, when a tick changes nothing.  (This
\* is weak fairness of Tick, with its enabling condition written out.)
NothingToDo(c) == cur[c] = Idle /\ \A t \in Tasks : state[t] # "READY"

-----------------------------------------------------------------------------
\* The cached tick of every non-empty level is that of its head, and within a
\* level no task is older than one before it: without either, aging would
\* test the wrong task (enqueue, unlink_queued, promote_expired_tasks).
OldestIsHead ==
    \A c \in CPUs, p \in Levels :
       /\ q[c][p] # <<>> => oldest[c][p] = age[Head(q[c][p])]
       /\ \A i, j \in 1..Len(q[c][p]) : i < j => age[q[c][p][i]] >= age[q[c][p][j]]

\* A queued task is READY, in the one level of the one CPU its priority and
\* last_cpu_index name, and runnable_count counts the queued tasks: the
\* balancing and stealing loops work on true loads, and the assertion
\* "scheduler queue count underflow" cannot fail.
QueuedWhereNamed ==
    /\ \A t \in Tasks, c \in CPUs, p \in Levels :
          t \in Range(q[c][p]) <=> state[t] = "READY" /\ priority[t] = p /\ last_cpu[t] = c
    /\ \A c \in CPUs : load[c] = Cardinality({t \in Tasks : state[t] = "READY" /\ last_cpu[t] = c})

\* No task runs with a used-up quantum, which the unsigned decrement of the
\* next tick would turn into an endless one, or with more than its level's.
QuantumInRange == \A t \in Tasks : quantum[t] \in 1..TIME_QUANTUMS[priority[t]]

=============================================================================
