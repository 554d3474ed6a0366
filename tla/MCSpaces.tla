------------------------------ MODULE MCSpaces ------------------------------
(***************************************************************************)
(* Address spaces in two settings.  "forks": two CPUs, programs that fork, *)
(* exec and exit but share no address space; the page frames run out.      *)
(* "threads": one CPU, where clone(CLONE_VM) and pkey_mprotect are used as *)
(* well.  The variables of the setting that is not chosen stand still, as  *)
(* before the first program.  Tasks, page tables and frames are            *)
(* interchangeable.                                                        *)
(***************************************************************************)
EXTENDS AddressSpace, TLC

CONSTANTS t1, t2, s1, s2, s3, p1, p2, p3

VARIABLES subject, tcr3, tvma, tpte, tref, tmem, top, tlost

threads == <<tcr3, tvma, tpte, tref, tmem, top, tlost>>

\* Page 1 is the program's, 2 free for mmap.
T == INSTANCE AddressSpace WITH
       Tasks <- {t1, t2}, Spaces <- {s1, s2, s3}, VPages <- {1, 2}, Phys <- {p1, p2, p3},
       Image <- {1}, Stack <- {}, Guard <- {}, Values <- {0}, Zero <- 0,
       CloneModes <- {"cow", "vm"}, MAX_REF <- 4, PKU <- TRUE, UP <- TRUE,
       cr3 <- tcr3, vma <- tvma, pte <- tpte, ref <- tref, mem <- tmem, op <- top, lost <- tlost

Sym == Permutations({t1, t2}) \cup Permutations({s1, s2, s3}) \cup Permutations({p1, p2, p3})

NoProgram ==
    /\ cr3 = [t \in Tasks |-> None] /\ vma = [t \in Tasks |-> [v \in VPages |-> "none"]]
    /\ pte = [s \in Spaces |-> Empty] /\ ref = [p \in Phys |-> 0] /\ mem = [p \in Phys |-> Zero]
    /\ op = [t \in Tasks |-> Idle] /\ lost = {}
NoThread ==
    /\ tcr3 = <<>> /\ tvma = <<>> /\ tpte = <<>> /\ tref = <<>> /\ tmem = <<>>
    /\ top = <<>> /\ tlost = {}

MCInit ==
    \/ subject = "forks" /\ Init /\ NoThread
    \/ subject = "threads" /\ NoProgram /\ T!Init

MCNext ==
    /\ UNCHANGED subject
    /\ \/ subject = "forks" /\ Next /\ UNCHANGED threads
       \/ subject = "threads" /\ T!Next /\ UNCHANGED vars

MCSpec == MCInit /\ [][MCNext]_<<subject, vars, threads>>
-----------------------------------------------------------------------------
\* With threads, on one CPU, a table that some task runs on is never being torn
\* down, whichever of the threads that share it leave it by exit or exec and in
\* whichever order, and no entry a task can use maps a frame that is free:
\* unref_page is called once for each mapping dropped
\* (address_space_used_by_other, free_task_resources, unref_page).
ThreadsKept ==
    subject = "threads" => T!TypeOK /\ T!UsedTableKept /\ T!NoMappedFree
=============================================================================
