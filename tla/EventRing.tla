----------------------------- MODULE EventRing -----------------------------
(***************************************************************************)
(* The event inbox as it is built (struct event_queue in smp/scheduler.h,  *)
(* enqueue_event_locked, read_event, exec, terminate_current_locked): a    *)
(* ring of N entries with head and count, and a saturating count of the    *)
(* events refused.  All of it happens under process_lock, except that exec *)
(* clears the ring without it; nothing else runs then on one CPU.          *)
(***************************************************************************)
EXTENDS Naturals, Sequences

CONSTANTS N,             \* TASK_EVENT_QUEUE_SIZE
          MAX_DROPPED,   \* UINT32_MAX
          Events,        \* the events, TASK_EVENT_F_DROPPED aside
          Zero           \* an entry cleared by memset

ASSUME SizeAssumption == N \in Nat \ {0} /\ MAX_DROPPED \in Nat \ {0}

VARIABLES entries, head, count, dropped, dead, out

ringVars == <<entries, head, count, dropped, dead, out>>

Entry == [ev : Events \cup {Zero}, mark : BOOLEAN]

Cleared == [ev |-> Zero, mark |-> FALSE]

RingTypeOK ==
    /\ entries \in [0..(N - 1) -> Entry]
    /\ head \in 0..(N - 1)
    /\ count \in 0..N
    /\ dropped \in 0..MAX_DROPPED
    /\ dead \in BOOLEAN
    /\ out \in Seq(Entry)

RingInit ==
    /\ entries = [i \in 0..(N - 1) |-> Cleared]
    /\ head = 0 /\ count = 0 /\ dropped = 0
    /\ dead = FALSE
    /\ out = <<>>

\* Mutant: the count of lost events wraps.
CountLostWrapping == (dropped + 1) % (MAX_DROPPED + 1)

CountLost == IF dropped # MAX_DROPPED THEN dropped + 1 ELSE dropped

\* The i-th entry from the head, counted from 0.
Slot(i) == (head + i) % N

Full == count >= N

\* enqueue_event_locked
Enqueue(e) ==
    /\ ~dead
    /\ IF Full
       THEN dropped' = CountLost /\ UNCHANGED <<entries, count>>
       ELSE /\ entries' = [entries EXCEPT ![Slot(count)] = [ev |-> e, mark |-> dropped # 0]]
            /\ dropped' = 0
            /\ count' = count + 1
    /\ UNCHANGED <<head, dead, out>>

\* read_event takes n events, at most as many as there are.
Dequeue(n) ==
    /\ ~dead /\ n <= count
    /\ out' = [i \in 1..n |-> entries[Slot(i - 1)]]
    /\ head' = Slot(n)
    /\ count' = count - n
    /\ UNCHANGED <<entries, dropped, dead>>

\* exec: memset of the whole structure.
RingExec ==
    /\ ~dead
    /\ entries' = [i \in 0..(N - 1) |-> Cleared]
    /\ head' = 0 /\ count' = 0 /\ dropped' = 0
    /\ UNCHANGED <<dead, out>>

\* terminate_current_locked
RingTerminate == dead' = TRUE /\ UNCHANGED <<entries, head, count, dropped, out>>

RingNext ==
    \/ \E e \in Events : Enqueue(e)
    \/ \E n \in 1..N : Dequeue(n)
    \/ RingExec \/ RingTerminate

RingSpec == RingInit /\ [][RingNext]_ringVars
-----------------------------------------------------------------------------
\* The refinement: the count entries from the head on are the queue.
Contents == [i \in 1..count |-> entries[(head + i - 1) % N]]

Inbox == INSTANCE EventQueue WITH Capacity <- N, queue <- Contents, lost <- dropped # 0

\* The ring is the lossy FIFO: order kept across the wrap, nothing read twice
\* or skipped, and the mark on exactly the first event after a loss, even when
\* the count of lost events has saturated (enqueue_event_locked, read_event).
InboxSpec == Inbox!Spec
=============================================================================
