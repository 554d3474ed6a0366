------------------------------ MODULE MCTasks -------------------------------
(***************************************************************************)
(* Safety of what a task owns: its place in the process tree, its inbox of *)
(* events, its descriptors, its fault handler and the lease of the         *)
(* display.  The subject is chosen at the start; the others stay in their  *)
(* initial state.                                                          *)
(***************************************************************************)
EXTENDS EventRing, Process, TLC

CONSTANTS i1, t1, t2, t3, f1, f2, g1, g2, root, n1, Handler

VARIABLES subject,
          st1, parent1, kids1, pc1, peer1, kill1, inbox1,                              \* Process, one CPU
          tab, op, dying, ref, node, nref, linked, cwd, lost,                          \* FdTable
          status, fb_lease_owner, fb_lease_refs, state, holders, console_claimed, todo, \* FbLease
          ip, ctl, active, pending, depth, saved, origin, fentries                     \* FaultHandler

process1 == <<st1, parent1, kids1, pc1, peer1, kill1, inbox1>>
fd == <<tab, op, dying, ref, node, nref, linked, cwd, lost>>
fb == <<status, fb_lease_owner, fb_lease_refs, state, holders, console_claimed, todo>>
fault == <<ip, ctl, active, pending, depth, saved, origin, fentries>>
allVars == <<subject, ringVars, vars, process1, fd, fb, fault>>

\* The process tree is the one of two CPUs; this one has one, and one more
\* task, that is never killed.
P1 == INSTANCE Process WITH Tasks <- {i1, t1, t2, t3}, Init1 <- i1, Mortal <- {t1, t2},
                            Readers <- {}, QUEUE_SIZE <- 1, UP <- TRUE,
                            st <- st1, parent <- parent1, kids <- kids1, pc <- pc1, peer <- peer1,
                            kill <- kill1, inbox <- inbox1
\* One task and a table that grows; two tasks that share a file and change
\* their directory; two that share two files, of which clones fail.
D1 == INSTANCE FdTable WITH Tasks <- {i1}, First <- i1, Files <- {f1, f2}, Nodes <- {root}, Root <- root,
                            W <- 2, INITIAL <- 3, DUP_LIMIT <- 6, MAX_CAP <- 6, MAX_LOST <- 0
D2 == INSTANCE FdTable WITH Tasks <- {i1, g1}, First <- i1, Files <- {f1}, Nodes <- {root, n1}, Root <- root,
                            W <- 2, INITIAL <- 3, DUP_LIMIT <- 3, MAX_CAP <- 3, MAX_LOST <- 0
D3 == INSTANCE FdTable WITH Tasks <- {i1, g1}, First <- i1, Files <- {f1, f2}, Nodes <- {root}, Root <- root,
                            W <- 2, INITIAL <- 3, DUP_LIMIT <- 3, MAX_CAP <- 3, MAX_LOST <- 1
L1 == INSTANCE FbLease WITH Tasks <- {i1, g1, g2}, First <- i1, Files <- {f1, f2}, UP <- TRUE, INHERIT <- FALSE
L2 == INSTANCE FbLease WITH Tasks <- {i1, g1, g2}, First <- i1, Files <- {f1, f2}, UP <- FALSE, INHERIT <- TRUE
\* Two threads and two points of their program.
H == INSTANCE FaultHandler WITH Threads <- {t1, t2}, Points <- {f1, f2}, MaxDepths <- {0, 2, 9}, NoPoint <- None,
                                entries <- fentries

Sym == Permutations({t1, t2}) \cup Permutations({f1, f2})

NoFault == /\ ip = None /\ ctl = None /\ active = None /\ pending = None
           /\ depth = None /\ saved = None /\ origin = None /\ fentries = None

MCInit ==
    /\ subject \in {"inbox", "tree, one CPU", "tree, two CPUs", "growing table", "shared files",
                    "failing clones", "lease", "inherited lease", "fault handler"}
    /\ RingInit /\ Init /\ P1!Init
    /\ IF subject = "growing table" THEN D1!Init
       ELSE IF subject = "shared files" THEN D2!Init ELSE D3!Init
    /\ L1!Init
    /\ IF subject = "fault handler" THEN H!Init ELSE NoFault

MCNext ==
    /\ UNCHANGED subject
    /\ \/ subject = "inbox" /\ RingNext /\ UNCHANGED <<vars, process1, fd, fb, fault>>
       \/ subject = "tree, one CPU" /\ P1!Next /\ UNCHANGED <<ringVars, vars, fd, fb, fault>>
       \/ subject = "tree, two CPUs" /\ Next /\ UNCHANGED <<ringVars, process1, fd, fb, fault>>
       \/ subject = "growing table" /\ D1!Next /\ UNCHANGED <<ringVars, vars, process1, fb, fault>>
       \/ subject = "shared files" /\ D2!Next /\ UNCHANGED <<ringVars, vars, process1, fb, fault>>
       \/ subject = "failing clones" /\ D3!Next /\ UNCHANGED <<ringVars, vars, process1, fb, fault>>
       \/ subject = "lease" /\ L1!Next /\ UNCHANGED <<ringVars, vars, process1, fd, fault>>
       \/ subject = "inherited lease" /\ L2!Next /\ UNCHANGED <<ringVars, vars, process1, fd, fault>>
       \/ subject = "fault handler" /\ H!Next /\ UNCHANGED <<ringVars, vars, process1, fd, fb>>

MCSpec == MCInit /\ [][MCNext]_allVars
-----------------------------------------------------------------------------
\* On one CPU the process tree is kept as well, with one more task in it, and a
\* task is freed only after the last switch away from its stack, though exit
\* makes its parent READY before it yields (exit, wait, free_task_resources).
TreeOnOneCpu == P1!TypeOK /\ P1!TreeConsistent /\ P1!NoLostNotice /\ P1!FreedNotRunning

\* Nothing is leaked or freed early through descriptors: an open_file's count is
\* the number of slots that point to it; a node's is what tree, open files and
\* working directories hold, and what failed clones have left behind; the bitmap
\* marks exactly the slots in use.  And sys_open() never takes a descriptor that
\* is in use, and lets the table grow only when every descriptor of it is
\* (fd.cpp, alloc_fd, sys_open, sys_chdir, clone).
DescriptorsExact ==
    /\ [](/\ subject = "growing table" => D1!TypeOK /\ D1!BitmapAgrees
          /\ subject = "shared files" => D2!RefExact /\ D2!NodeExact /\ D2!BitmapAgrees
          /\ subject = "failing clones" => D3!RefExact /\ D3!NodeExact /\ D3!BitmapAgrees)
    /\ [][subject = "growing table" => D1!TakesFree]_fd

\* The lease of the display counts the open files of its owner that acquired
\* it, so that it is always given back, also when its owner was killed and
\* its children hold the file; and between commands the console leaves the
\* screen alone exactly while the lease is held (device.cpp).
LeaseExact ==
    /\ subject = "lease" => L1!LeaseCounted /\ L1!ConsoleFollowsLease
    /\ subject = "inherited lease" => L2!TypeOK /\ L2!LeaseNotStranded

\* No handler is entered while one is running, the registers saved are those
\* of the one fault being handled, and a one-shot handler runs at most once
\* for each time it is armed (handle_user_exception); and a task resumes at
\* the faulting point or where its handler said
\* (complete_fault_return_if_pending).
FaultsInTurn ==
    /\ [](subject = "fault handler" => H!TypeOK /\ H!OneHandlerAtATime /\ H!OneShotOnce)
    /\ [][subject = "fault handler" => H!ResumeKnown]_fault
=============================================================================
