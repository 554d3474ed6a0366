----------------------------- MODULE FileStore -----------------------------
(***************************************************************************)
(* What every file system driver promises below fs.h: a set of named byte  *)
(* sequences.  A write replaces the bytes it covers, zeroes what lies       *)
(* between the old end and its offset, and may stop early when the volume  *)
(* is full; no other call changes a byte of any file.                      *)
(***************************************************************************)
EXTENDS Naturals, Sequences, FiniteSetsExt

CONSTANTS Names, MaxSize

VARIABLE files   \* the files there are, and what each holds

\* What a write of len units at off leaves of t.  The unit written at the p-th
\* place is p, so that a unit tells where it was meant to go; 0 is a zero.
Overwritten(t, off, len) ==
    [p \in 1..Max({Len(t), off + len}) |->
        IF p > off /\ p <= off + len THEN p ELSE IF p <= Len(t) THEN t[p] ELSE 0]

Create(n) ==
    /\ n \notin DOMAIN files
    /\ files' = [m \in DOMAIN files \cup {n} |-> IF m = n THEN <<>> ELSE files[m]]

\* A write that got as far as done units; one that got nowhere may have left
\* the file grown up to its offset.
Write(n, off, done) == files' = [files EXCEPT ![n] = Overwritten(@, off, done)]

Truncate(n) == files' = [files EXCEPT ![n] = <<>>]

Unlink(n) == files' = [m \in DOMAIN files \ {n} |-> files[m]]

\* The file m that may be there is replaced.
Rename(n, m) ==
    /\ n # m
    /\ files' = [k \in (DOMAIN files \ {n}) \cup {m} |-> IF k = m THEN files[n] ELSE files[k]]

Next ==
    \/ \E n \in Names : Create(n)
    \/ \E n \in DOMAIN files : \/ Truncate(n) \/ Unlink(n)
                               \/ \E m \in Names : Rename(n, m)
                               \/ \E off \in 0..MaxSize : \E done \in 0..MaxSize - off : Write(n, off, done)

Spec == [][Next]_files
=============================================================================
