--------------------------- MODULE PrivateMemory ---------------------------
(***************************************************************************)
(* What clone() without CLONE_VM and the page-fault handler promise a user *)
(* program: every task has memory of its own.  A fork gives the child a    *)
(* copy of its parent's memory as it is at that moment; from then on a     *)
(* store is seen by the task that made it and by nobody else.  There are   *)
(* no page frames, reference counts or page tables here.                   *)
(***************************************************************************)
CONSTANTS Tasks, VPages, Values, Zero, Unmapped

VARIABLE view       \* view[t][v]: what task t reads at virtual page v

Nothing == [v \in VPages |-> Unmapped]

Init ==
  \E t \in Tasks, img \in [VPages -> {Zero, Unmapped}] :
    view = [u \in Tasks |-> IF u = t THEN img ELSE Nothing]

Store(t, v, x) ==
  /\ view[t][v] # Unmapped
  /\ view' = [view EXCEPT ![t][v] = x]

Map(t, v) ==
  /\ view[t][v] = Unmapped
  /\ view' = [view EXCEPT ![t][v] = Zero]

Unmap(t, v) == view' = [view EXCEPT ![t][v] = Unmapped]

Fork(t, u) ==
  /\ view[u] = Nothing
  /\ view' = [view EXCEPT ![u] = view[t]]

Replace(t, img) ==
  /\ view[t] # Nothing
  /\ view' = [view EXCEPT ![t] = img]

Next ==
  \E t \in Tasks :
    \/ \E v \in VPages : Map(t, v) \/ Unmap(t, v) \/ \E x \in Values : Store(t, v, x)
    \/ \E u \in Tasks : Fork(t, u)
    \/ \E img \in [VPages -> {Zero, Unmapped}] : Replace(t, img)

Spec == Init /\ [][Next]_view
=============================================================================
