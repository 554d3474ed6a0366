----------------------------- MODULE EventQueue -----------------------------
(***************************************************************************)
(* What the event inbox of a task promises: a FIFO of at most Capacity     *)
(* events; an event sent to a full inbox is lost, and the next one that    *)
(* gets in carries the mark TASK_EVENT_F_DROPPED, however many were lost.  *)
(***************************************************************************)
EXTENDS Naturals, Sequences

CONSTANTS Capacity, Events

VARIABLES queue,   \* the events inside, each with its mark
          lost,    \* an event was lost since the last one got in
          dead,    \* the task has ended
          out      \* what the last read returned

vars == <<queue, lost, dead, out>>

Init == queue = <<>> /\ lost = FALSE /\ dead = FALSE /\ out = <<>>

Send(e) ==
    /\ ~dead
    /\ IF Len(queue) < Capacity
       THEN queue' = Append(queue, [ev |-> e, mark |-> lost]) /\ lost' = FALSE
       ELSE lost' = TRUE /\ UNCHANGED queue
    /\ UNCHANGED <<dead, out>>

Read(n) ==
    /\ ~dead
    /\ out' = SubSeq(queue, 1, n)
    /\ queue' = SubSeq(queue, n + 1, Len(queue))
    /\ UNCHANGED <<lost, dead>>

Clear == ~dead /\ queue' = <<>> /\ lost' = FALSE /\ UNCHANGED <<dead, out>>

End == dead' = TRUE /\ UNCHANGED <<queue, lost, out>>

Next ==
    \/ \E e \in Events : Send(e)
    \/ \E n \in 1..Len(queue) : Read(n)
    \/ Clear \/ End

Spec == Init /\ [][Next]_vars
=============================================================================
