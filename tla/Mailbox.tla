------------------------------ MODULE Mailbox ------------------------------
(***************************************************************************)
(* Inter-processor mail (smp/smp.cpp, the MAILBOX_VECTOR handler of        *)
(* idt.cpp) and the two protocols built on it: the TLB shootdown of        *)
(* vmm::flush_tlb and the reschedule request of the scheduler.             *)
(*                                                                         *)
(* Every CPU owns three mail objects, one per kind, so a mail is named by  *)
(* its owner and kind.  Sections under a mail_lock or a sched_lock are     *)
(* single steps; the flag handled, the IPI and everything flush_tlb does   *)
(* outside the mail_lock are steps of their own.                           *)
(***************************************************************************)
EXTENDS Naturals, FiniteSets, Lists

CONSTANTS CPUs,        \* the booted cores
          Spaces,      \* address spaces (values of CR3)
          Initiators,  \* CPUs that call flush_tlb
          Panickers,   \* CPUs that may panic
          None

ASSUME CpuAssumption == /\ Initiators \subseteq CPUs
                        /\ Panickers \subseteq CPUs
                        /\ None \notin CPUs

Kinds == {"HALT", "TLB", "RESCHED"}

VARIABLES
    mail,        \* cpu->mail_head ..: the kinds queued at each CPU
    queued,      \* the kinds whose mail object has queued set
    unhandled,   \* the kinds whose mail object has handled clear
    payload,     \* tlb.cr3 and sender of each CPU's tlb_shootdown_mail
    pending,     \* cpu->reschedule_pending
    ipi,         \* MAILBOX_VECTOR is pending at the CPU
    mode,        \* what the CPU runs below the handler: user, kernel or idle
    at,          \* label of the CPU
    taken,       \* msg in handle_mailbox_ipi
    resched,     \* reschedule in handle_mailbox_ipi
    lock,        \* holder of tlb_shootdown_lock
    work,        \* pagemap in flush_tlb
    todo,        \* targets the loop of the CPU has still to visit
    sent,        \* targets flush_tlb has sent mail to (its counter pending)
    space,       \* cpu->current_task->cr3
    cr3,         \* the CR3 register
    stale,       \* the flushes of other CPUs a CPU's TLB has not followed yet
    need,        \* a remote CPU has queued a task, no schedule() since
    panicked     \* panic_owner

vars == <<mail, queued, unhandled, payload, pending, ipi, mode, at, taken, resched,
          lock, work, todo, sent, space, cr3, stale, need, panicked>>

mailVars   == <<mail, queued, unhandled, payload, pending>>
flushVars  == <<lock, work, todo, sent>>
spaceVars  == <<space, cr3, stale>>
handleVars == <<taken, resched>>

Labels == {"run", "lock", "send", "await", "resched", "ipi",
           "handle", "apply", "tail", "schedule", "load", "halted"}

TypeOK ==
    /\ mail \in [CPUs -> Seq(Kinds)]
    /\ queued \in [CPUs -> SUBSET Kinds] /\ unhandled \in [CPUs -> SUBSET Kinds]
    /\ payload \in [CPUs -> [cr3 : Spaces \cup {None}, from : CPUs \cup {None}]]
    /\ pending \in [CPUs -> BOOLEAN] /\ ipi \in [CPUs -> BOOLEAN]
    /\ mode \in [CPUs -> {"user", "kernel", "idle"}]
    /\ at \in [CPUs -> Labels]
    /\ taken \in [CPUs -> Kinds \cup {None}] /\ resched \in [CPUs -> BOOLEAN]
    /\ lock \in CPUs \cup {None} /\ work \in [CPUs -> Spaces \cup {None}]
    /\ todo \in [CPUs -> SUBSET CPUs] /\ sent \in [CPUs -> SUBSET CPUs]
    /\ space \in [CPUs -> Spaces] /\ cr3 \in [CPUs -> Spaces]
    /\ stale \in [CPUs -> SUBSET CPUs]
    /\ need \in [CPUs -> BOOLEAN]
    /\ panicked \in CPUs \cup {None}

\* boot_core and init_bsp: the three mails start out handled.
Init ==
    /\ mail = [c \in CPUs |-> <<>>]
    /\ queued = [c \in CPUs |-> {}] /\ unhandled = [c \in CPUs |-> {}]
    /\ payload = [c \in CPUs |-> [cr3 |-> None, from |-> None]]
    /\ pending = [c \in CPUs |-> FALSE] /\ ipi = [c \in CPUs |-> FALSE]
    /\ mode = [c \in CPUs |-> "idle"]
    /\ at = [c \in CPUs |-> "run"]
    /\ taken = [c \in CPUs |-> None] /\ resched = [c \in CPUs |-> FALSE]
    /\ lock = None /\ work = [c \in CPUs |-> None]
    /\ todo = [c \in CPUs |-> {}] /\ sent = [c \in CPUs |-> {}]
    /\ \E s \in Spaces : space = [c \in CPUs |-> s] /\ cr3 = [c \in CPUs |-> s]
    /\ stale = [c \in CPUs |-> {}]
    /\ need = [c \in CPUs |-> FALSE]
    /\ panicked = None

Goto(c, label) == at' = [at EXCEPT ![c] = label]

(***************************************************************************)
(* enqueue_mail_locked, once its tests have passed.                        *)
(***************************************************************************)
Busy(d, kind) == kind \in queued[d] \/ kind \in unhandled[d]

Post(d, kind) ==
    /\ mail' = [mail EXCEPT ![d] = Append(@, kind)]
    /\ queued' = [queued EXCEPT ![d] = @ \cup {kind}]
    /\ unhandled' = [unhandled EXCEPT ![d] = @ \cup {kind}]

(***************************************************************************)
(* flush_tlb: a page-table entry of space s has been changed; the CPU      *)
(* invalidates its own TLB and shoots down the others'.                    *)
(***************************************************************************)
BeginFlush(c, s) ==
    /\ c \in Initiators /\ at[c] = "run" /\ mode[c] = "kernel"
    /\ stale' = [d \in CPUs |-> IF d # c /\ cr3[d] = s THEN stale[d] \cup {c} ELSE stale[d]]
    /\ work' = [work EXCEPT ![c] = s]
    /\ Goto(c, "lock")
    /\ UNCHANGED <<mailVars, ipi, mode, handleVars, lock, todo, sent, space, cr3, need, panicked>>

\* Mutant: the loop does not skip the CPU itself.
AcquireForAll(c) ==
    /\ at[c] = "lock" /\ lock = None
    /\ lock' = c
    /\ todo' = [todo EXCEPT ![c] = CPUs]
    /\ Goto(c, "send")
    /\ UNCHANGED <<mailVars, ipi, mode, handleVars, work, sent, spaceVars, need, panicked>>

AcquireTlbLock(c) ==
    /\ at[c] = "lock" /\ lock = None
    /\ lock' = c
    /\ todo' = [todo EXCEPT ![c] = CPUs \ {c}]
    /\ Goto(c, "send")
    /\ UNCHANGED <<mailVars, ipi, mode, handleVars, work, sent, spaceVars, need, panicked>>

\* One turn of the send loop.  The assertions on the mail object ("stale TLB
\* shootdown mail", "failed to enqueue TLB shootdown") are ShootdownFree.
SendTlb(c, d) ==
    /\ at[c] = "send" /\ d \in todo[c]
    /\ todo' = [todo EXCEPT ![c] = @ \ {d}]
    /\ \/ /\ space[d] # work[c]
          /\ UNCHANGED <<mailVars, sent>>
       \/ /\ space[d] = work[c]
          /\ Post(d, "TLB")
          /\ payload' = [payload EXCEPT ![d] = [cr3 |-> work[c], from |-> c]]
          /\ sent' = [sent EXCEPT ![c] = @ \cup {d}]
          /\ UNCHANGED pending
    /\ UNCHANGED <<ipi, mode, at, handleVars, lock, work, spaceVars, need, panicked>>

\* Mutant: flush_mail is forgotten.
FlushNoIpi(c) ==
    /\ at[c] = "send" /\ todo[c] = {}
    /\ IF sent[c] = {}
       THEN lock' = None /\ work' = [work EXCEPT ![c] = None] /\ Goto(c, "run")
       ELSE Goto(c, "await") /\ UNCHANGED <<lock, work>>
    /\ UNCHANGED <<mailVars, ipi, mode, handleVars, todo, sent, spaceVars, need, panicked>>

\* All targets visited: broadcast the IPI, or return at once.
FlushMail(c) ==
    /\ at[c] = "send" /\ todo[c] = {}
    /\ \/ /\ sent[c] = {}
          /\ lock' = None
          /\ work' = [work EXCEPT ![c] = None]
          /\ Goto(c, "run")
          /\ UNCHANGED ipi
       \/ /\ sent[c] # {}
          /\ ipi' = [d \in CPUs |-> d # c \/ ipi[d]]
          /\ Goto(c, "await")
          /\ UNCHANGED <<lock, work>>
    /\ UNCHANGED <<mailVars, mode, handleVars, todo, sent, spaceVars, need, panicked>>

\* Mutant: the wait is for queued to clear, not for handled.
FlushQueued(c) ==
    /\ at[c] = "await"
    /\ \A d \in CPUs \ {c} : "TLB" \notin queued[d]
    /\ lock' = None
    /\ work' = [work EXCEPT ![c] = None]
    /\ sent' = [sent EXCEPT ![c] = {}]
    /\ Goto(c, "run")
    /\ UNCHANGED <<mailVars, ipi, mode, handleVars, todo, spaceVars, need, panicked>>

\* The spin on handled has seen every target, the lock is released.
FlushDone(c) ==
    /\ at[c] = "await"
    /\ \A d \in CPUs \ {c} : "TLB" \notin unhandled[d]
    /\ lock' = None
    /\ work' = [work EXCEPT ![c] = None]
    /\ sent' = [sent EXCEPT ![c] = {}]
    /\ Goto(c, "run")
    /\ UNCHANGED <<mailVars, ipi, mode, handleVars, todo, spaceVars, need, panicked>>

(***************************************************************************)
(* send_reschedule_mail after enqueue_ready_on_best_cpu has queued a task  *)
(* on another CPU.                                                         *)
(***************************************************************************)
EnqueueRemote(c, d) ==
    /\ at[c] = "run" /\ mode[c] = "kernel" /\ d # c
    /\ need' = [need EXCEPT ![d] = TRUE]
    /\ todo' = [todo EXCEPT ![c] = {d}]
    /\ Goto(c, "resched")
    /\ UNCHANGED <<mailVars, ipi, mode, handleVars, lock, work, sent, spaceVars, panicked>>

SendResched(c, d) ==
    /\ at[c] = "resched" /\ d \in todo[c]
    /\ \/ /\ Busy(d, "RESCHED") \/ pending[d]
          /\ todo' = [todo EXCEPT ![c] = {}]
          /\ Goto(c, "run")
          /\ UNCHANGED mailVars
       \/ /\ ~Busy(d, "RESCHED") /\ ~pending[d]
          /\ Post(d, "RESCHED")
          /\ pending' = [pending EXCEPT ![d] = TRUE]
          /\ Goto(c, "ipi")
          /\ UNCHANGED <<payload, todo>>
    /\ UNCHANGED <<ipi, mode, handleVars, lock, work, sent, spaceVars, need, panicked>>

SendIpi(c) ==
    /\ at[c] = "ipi"
    /\ ipi' = [d \in CPUs |-> d \in todo[c] \/ ipi[d]]
    /\ todo' = [todo EXCEPT ![c] = {}]
    /\ Goto(c, "run")
    /\ UNCHANGED <<mailVars, mode, handleVars, lock, work, sent, spaceVars, need, panicked>>

(***************************************************************************)
(* handle_mailbox_ipi.                                                     *)
(***************************************************************************)
Deliver(c) ==
    /\ at[c] = "run" /\ ipi[c]
    /\ ipi' = [ipi EXCEPT ![c] = FALSE]
    /\ Goto(c, "handle")
    /\ UNCHANGED <<mailVars, mode, handleVars, flushVars, spaceVars, need, panicked>>

TakeMail(c) ==
    /\ at[c] = "handle" /\ mail[c] # <<>>
    /\ mail' = [mail EXCEPT ![c] = Tail(@)]
    /\ queued' = [queued EXCEPT ![c] = @ \ {Head(mail[c])}]
    /\ taken' = [taken EXCEPT ![c] = Head(mail[c])]
    /\ Goto(c, "apply")
    /\ UNCHANGED <<unhandled, payload, pending, ipi, mode, resched, flushVars, spaceVars, need, panicked>>

\* The switch over msg->type, and handled.
ApplyMail(c) ==
    /\ at[c] = "apply"
    /\ stale' = IF taken[c] = "TLB" /\ payload[c].cr3 = cr3[c]
                THEN [stale EXCEPT ![c] = @ \ {payload[c].from}] ELSE stale
    /\ resched' = [resched EXCEPT ![c] = @ \/ taken[c] = "RESCHED"]
    /\ unhandled' = [unhandled EXCEPT ![c] = @ \ {taken[c]}]
    /\ taken' = [taken EXCEPT ![c] = None]
    /\ Goto(c, IF taken[c] = "HALT" THEN "halted" ELSE "handle")
    /\ UNCHANGED <<mail, queued, payload, pending, ipi, mode, flushVars, space, cr3, need, panicked>>

MailDrained(c) ==
    /\ at[c] = "handle" /\ mail[c] = <<>>
    /\ Goto(c, "tail")
    /\ UNCHANGED <<mailVars, ipi, mode, handleVars, flushVars, spaceVars, need, panicked>>

\* Mutant: a reschedule request is acted on from user mode only.
EndHandlerUser(c) ==
    /\ at[c] = "tail"
    /\ pending' = [pending EXCEPT ![c] = @ /\ ~resched[c]]
    /\ resched' = [resched EXCEPT ![c] = FALSE]
    /\ Goto(c, IF resched[c] /\ mode[c] = "user" THEN "schedule" ELSE "run")
    /\ UNCHANGED <<mail, queued, unhandled, payload, ipi, mode, taken, flushVars, spaceVars, need, panicked>>

\* reschedule_pending is cleared; from user mode or idle, schedule().
EndHandler(c) ==
    /\ at[c] = "tail"
    /\ pending' = [pending EXCEPT ![c] = @ /\ ~resched[c]]
    /\ resched' = [resched EXCEPT ![c] = FALSE]
    /\ Goto(c, IF resched[c] /\ mode[c] # "kernel" THEN "schedule" ELSE "run")
    /\ UNCHANGED <<mail, queued, unhandled, payload, ipi, mode, taken, flushVars, spaceVars, need, panicked>>

(***************************************************************************)
(* schedule(), from the handler, the timer or yield: current_task is       *)
(* replaced under sched_lock, CR3 is loaded a little later.                *)
(***************************************************************************)
EnterSchedule(c) ==
    /\ at[c] = "run"
    /\ Goto(c, "schedule")
    /\ UNCHANGED <<mailVars, ipi, mode, handleVars, flushVars, spaceVars, need, panicked>>

PickTask(c, s, m) ==
    /\ at[c] = "schedule"
    /\ need[c] => m # "idle"
    /\ space' = [space EXCEPT ![c] = s]
    /\ mode' = [mode EXCEPT ![c] = m]
    /\ need' = [need EXCEPT ![c] = FALSE]
    /\ Goto(c, "load")
    /\ UNCHANGED <<mailVars, ipi, handleVars, flushVars, cr3, stale, panicked>>

LoadCr3(c) ==
    /\ at[c] = "load"
    /\ cr3' = [cr3 EXCEPT ![c] = space[c]]
    /\ stale' = [stale EXCEPT ![c] = {}]
    /\ Goto(c, "run")
    /\ UNCHANGED <<mailVars, ipi, mode, handleVars, flushVars, space, need, panicked>>

\* A system call, fault or return changes the mode.
ChangeMode(c) ==
    /\ at[c] = "run" /\ mode[c] # "idle"
    /\ mode' = [mode EXCEPT ![c] = IF @ = "user" THEN "kernel" ELSE "user"]
    /\ UNCHANGED <<mailVars, ipi, at, handleVars, flushVars, spaceVars, need, panicked>>

\* kpanic: panic_stop_others mails HALT to the CPUs whose mail_lock it gets
\* at the first try; the panicking CPU does not come back.
Panic(c) ==
    /\ c \in Panickers /\ at[c] = "run" /\ panicked = None
    /\ panicked' = c
    /\ \E got \in SUBSET (CPUs \ {c}) :
          LET told == {d \in got : ~Busy(d, "HALT")} IN
          /\ mail' = [d \in CPUs |-> IF d \in told THEN Append(mail[d], "HALT") ELSE mail[d]]
          /\ queued' = [d \in CPUs |-> IF d \in told THEN queued[d] \cup {"HALT"} ELSE queued[d]]
          /\ unhandled' = [d \in CPUs |-> IF d \in told THEN unhandled[d] \cup {"HALT"}
                                                        ELSE unhandled[d]]
    /\ ipi' = [d \in CPUs |-> d # c \/ ipi[d]]
    /\ Goto(c, "halted")
    /\ UNCHANGED <<payload, pending, mode, handleVars, flushVars, spaceVars, need>>

Step(c) ==
    \/ AcquireTlbLock(c) \/ FlushMail(c) \/ FlushDone(c)
    \/ \E d \in CPUs : SendTlb(c, d) \/ SendResched(c, d)
    \/ SendIpi(c)
    \/ TakeMail(c) \/ ApplyMail(c) \/ MailDrained(c) \/ EndHandler(c)
    \/ LoadCr3(c)
    \/ \E s \in Spaces, m \in {"user", "kernel", "idle"} : PickTask(c, s, m)

Next ==
    \E c \in CPUs :
       \/ Step(c) \/ Deliver(c)
       \/ \E s \in Spaces : BeginFlush(c, s)
       \/ \E d \in CPUs : EnqueueRemote(c, d)
       \/ EnterSchedule(c) \/ ChangeMode(c) \/ Panic(c)

Spec == Init /\ [][Next]_vars

-----------------------------------------------------------------------------
\* The CPU is inside flush_tlb.
Flushing(c) == at[c] \in {"lock", "send", "await"}

\* The two flags of a mail object say where it is: queued while it is in the
\* list, handled clear from then until the handler is done with it; no object
\* is in a list twice (enqueue_mail_locked, panic_stop_others and
\* handle_mailbox_ipi, which touch the flags under different locks).
MailFlags ==
    \A c \in CPUs :
       /\ IsInjective(mail[c])
       /\ queued[c] = Range(mail[c])
       /\ unhandled[c] = queued[c] \cup (IF at[c] = "apply" THEN {taken[c]} ELSE {})
       /\ at[c] = "apply" => taken[c] \notin queued[c]

\* The assertions "VMM: stale TLB shootdown mail" and "VMM: failed to enqueue
\* TLB shootdown" cannot fail: a target's mail is free when it is sent.
ShootdownFree ==
    \A c \in CPUs : at[c] = "send" =>
        \A d \in todo[c] : space[d] = work[c] => ~Busy(d, "TLB")

\* When flush_tlb returns, no CPU can still use the translation its caller has
\* replaced.  (A CPU between current_task and CR3 in schedule() runs kernel
\* code only.)
FlushedEverywhere ==
    \A c, d \in CPUs : c \in stale[d] => Flushing(c) \/ at[d] = "load"

\* A CPU that idles while another one has queued a task for it has the request
\* on its way: neither coalescing with reschedule_pending nor the handler's
\* deferral swallows it.
IdleIsTold ==
    \A d \in CPUs : need[d] /\ mode[d] = "idle" /\ at[d] = "run" =>
        \/ ipi[d]
        \/ \E c \in CPUs : at[c] \in {"resched", "ipi"} /\ d \in todo[c]

-----------------------------------------------------------------------------
(***************************************************************************)
(* Proofs, for any number of CPUs and address spaces.                      *)
(***************************************************************************)
\* Most steps are plain logic; those that need records, counting or sequences name
\* SMT, and Z3 for a second try.
USE Zenon

\* Every step keeps the types of the variables.
LEMMA TypeStep == TypeOK /\ [Next]_vars => TypeOK'
<1> SUFFICES ASSUME TypeOK, [Next]_vars PROVE TypeOK'
  OBVIOUS
<1> USE CpuAssumption DEF TypeOK, Kinds, Labels, mailVars, flushVars, spaceVars, handleVars, Goto
<1>1. CASE UNCHANGED vars
  BY <1>1 DEF vars
<1>2. ASSUME NEW c \in CPUs, NEW s \in Spaces, BeginFlush(c, s) PROVE TypeOK'
  BY SMT, Z3, <1>2 DEF BeginFlush
<1>3. ASSUME NEW c \in CPUs, NEW d \in CPUs, SendTlb(c, d) PROVE TypeOK'
  <2>1. Append(mail[d], "TLB") \in Seq(Kinds)  BY SMT, Z3, AppendProperties
  <2>2. CASE UNCHANGED <<mailVars, sent>>  BY <1>3, <2>2 DEF SendTlb
  <2>3. CASE space[d] = work[c]
    <3>1. /\ mail' = [mail EXCEPT ![d] = Append(@, "TLB")]
          /\ queued' = [queued EXCEPT ![d] = @ \cup {"TLB"}]
          /\ unhandled' = [unhandled EXCEPT ![d] = @ \cup {"TLB"}]
          /\ payload' = [payload EXCEPT ![d] = [cr3 |-> work[c], from |-> c]]
          /\ sent' = [sent EXCEPT ![c] = @ \cup {d}]
          /\ todo' = [todo EXCEPT ![c] = @ \ {d}]
          /\ UNCHANGED <<pending, ipi, mode, at, handleVars, lock, work, spaceVars, need, panicked>>
      BY <1>3, <2>3 DEF SendTlb, Post
    <3> QED  BY SMT, Z3, <2>1, <3>1
  <2> QED  BY <1>3, <2>2, <2>3 DEF SendTlb
<1>4. ASSUME NEW c \in CPUs, NEW d \in CPUs, SendResched(c, d) PROVE TypeOK'
  <2>1. Append(mail[d], "RESCHED") \in Seq(Kinds)  BY SMT, Z3, AppendProperties
  <2>2. CASE Busy(d, "RESCHED") \/ pending[d]
    <3>1. /\ todo' = [todo EXCEPT ![c] = {}] /\ at' = [at EXCEPT ![c] = "run"]
          /\ UNCHANGED <<mailVars, ipi, mode, handleVars, lock, work, sent, spaceVars, need, panicked>>
      BY <1>4, <2>2 DEF SendResched
    <3> QED  BY <3>1
  <2>3. CASE ~(Busy(d, "RESCHED") \/ pending[d])
    <3>1. /\ mail' = [mail EXCEPT ![d] = Append(@, "RESCHED")]
          /\ queued' = [queued EXCEPT ![d] = @ \cup {"RESCHED"}]
          /\ unhandled' = [unhandled EXCEPT ![d] = @ \cup {"RESCHED"}]
          /\ pending' = [pending EXCEPT ![d] = TRUE]
          /\ at' = [at EXCEPT ![c] = "ipi"]
          /\ UNCHANGED <<payload, todo, ipi, mode, handleVars, lock, work, sent, spaceVars, need, panicked>>
      BY <1>4, <2>3 DEF SendResched, Post
    <3> QED  BY <2>1, <3>1
  <2> QED  BY <2>2, <2>3
<1>5. ASSUME NEW c \in CPUs, NEW d \in CPUs, EnqueueRemote(c, d) PROVE TypeOK'
  BY SMT, Z3, <1>5 DEF EnqueueRemote
<1>6. ASSUME NEW c \in CPUs, NEW s \in Spaces, NEW m \in {"user", "kernel", "idle"}, PickTask(c, s, m)
      PROVE TypeOK'
  BY <1>6 DEF PickTask
<1>7. ASSUME NEW c \in CPUs, AcquireTlbLock(c) PROVE TypeOK'
  BY <1>7 DEF AcquireTlbLock
<1>8. ASSUME NEW c \in CPUs, FlushMail(c) PROVE TypeOK'
  <2>1. /\ lock' \in CPUs \cup {None}
        /\ work' \in [CPUs -> Spaces \cup {None}]
        /\ at' \in [CPUs -> Labels]
        /\ ipi' \in [CPUs -> BOOLEAN]
    <3>1. CASE sent[c] = {}
      <4>1. lock' = None /\ work' = [work EXCEPT ![c] = None] /\ at' = [at EXCEPT ![c] = "run"] /\ ipi' = ipi
        BY <1>8, <3>1 DEF FlushMail
      <4> QED  BY <4>1
    <3>2. CASE sent[c] # {}
      <4>1. lock' = lock /\ work' = work /\ at' = [at EXCEPT ![c] = "await"]
            /\ ipi' = [d \in CPUs |-> d # c \/ ipi[d]]
        BY <1>8, <3>2 DEF FlushMail
      <4> QED  BY <4>1
    <3> QED  BY <3>1, <3>2
  <2>2. UNCHANGED <<mailVars, mode, handleVars, todo, sent, spaceVars, need, panicked>>  BY <1>8 DEF FlushMail
  <2> QED  BY <2>1, <2>2
<1>9. ASSUME NEW c \in CPUs, FlushDone(c) PROVE TypeOK'
  BY <1>9 DEF FlushDone
<1>10. ASSUME NEW c \in CPUs, SendIpi(c) PROVE TypeOK'
  BY <1>10 DEF SendIpi
<1>11. ASSUME NEW c \in CPUs, TakeMail(c) PROVE TypeOK'
  BY <1>11, HeadTailProperties DEF TakeMail
<1>12. ASSUME NEW c \in CPUs, ApplyMail(c) PROVE TypeOK'
  BY <1>12 DEF ApplyMail
<1>13. ASSUME NEW c \in CPUs, MailDrained(c) PROVE TypeOK'
  BY <1>13 DEF MailDrained
<1>14. ASSUME NEW c \in CPUs, EndHandler(c) PROVE TypeOK'
  BY <1>14 DEF EndHandler
<1>15. ASSUME NEW c \in CPUs, LoadCr3(c) PROVE TypeOK'
  BY <1>15 DEF LoadCr3
<1>16. ASSUME NEW c \in CPUs, Deliver(c) PROVE TypeOK'
  BY <1>16 DEF Deliver
<1>17. ASSUME NEW c \in CPUs, EnterSchedule(c) PROVE TypeOK'
  BY <1>17 DEF EnterSchedule
<1>18. ASSUME NEW c \in CPUs, ChangeMode(c) PROVE TypeOK'
  BY <1>18 DEF ChangeMode
<1>19. ASSUME NEW c \in CPUs, Panic(c) PROVE TypeOK'
  <2>1. \A d \in CPUs : Append(mail[d], "HALT") \in Seq(Kinds)  BY SMT, Z3, AppendProperties
  <2>2. PICK got \in SUBSET (CPUs \ {c}) :
          LET told == {d \in got : ~Busy(d, "HALT")} IN
          /\ mail' = [d \in CPUs |-> IF d \in told THEN Append(mail[d], "HALT") ELSE mail[d]]
          /\ queued' = [d \in CPUs |-> IF d \in told THEN queued[d] \cup {"HALT"} ELSE queued[d]]
          /\ unhandled' = [d \in CPUs |-> IF d \in told THEN unhandled[d] \cup {"HALT"}
                                                        ELSE unhandled[d]]
    BY <1>19 DEF Panic
  <2>3. /\ mail' \in [CPUs -> Seq(Kinds)]
        /\ queued' \in [CPUs -> SUBSET Kinds]
        /\ unhandled' \in [CPUs -> SUBSET Kinds]
    BY <2>1, <2>2
  <2>4. /\ ipi' = [d \in CPUs |-> d # c \/ ipi[d]] /\ panicked' = c
        /\ at' = [at EXCEPT ![c] = "halted"]
        /\ UNCHANGED <<payload, pending, mode, handleVars, flushVars, spaceVars, need>>
    BY <1>19 DEF Panic
  <2> QED  BY <2>3, <2>4
<1> HIDE CpuAssumption DEF TypeOK, Kinds, Labels, mailVars, flushVars, spaceVars, handleVars, Goto
<1> QED
  BY <1>1, <1>2, <1>3, <1>4, <1>5, <1>6, <1>7, <1>8, <1>9, <1>10, <1>11, <1>12, <1>13, <1>14, <1>15, <1>16, <1>17, <1>18, <1>19 DEF Next, Step

-----------------------------------------------------------------------------
\* The inductive invariant.  tlb_shootdown_lock serialises the senders; a
\* shootdown mail that is not handled belongs to the holder of the lock; CR3
\* is that of the current task except on the way through schedule(); and a
\* TLB that has not followed a flush is one the flush still has to visit or
\* has an unhandled mail for.
LockInv ==
    /\ \A c \in CPUs : at[c] \in {"send", "await"} <=> lock = c
    /\ \A c \in CPUs : at[c] \notin {"send", "await"} => sent[c] = {}
    /\ \A c \in CPUs : at[c] = "send" => c \notin todo[c] /\ todo[c] \cap sent[c] = {}
    /\ \A c \in CPUs : c \notin sent[c]

OwnerInv == \A d \in CPUs : "TLB" \in unhandled[d] =>
                /\ lock \in CPUs /\ d \in sent[lock]
                /\ payload[d].cr3 = work[lock] /\ payload[d].from = lock

SpaceInv == \A d \in CPUs : at[d] # "load" => space[d] = cr3[d]

Accounted(c, d) ==
    \/ at[d] = "load"
    \/ /\ Flushing(c) /\ cr3[d] = work[c] /\ c # d
       /\ \/ at[c] = "lock"
          \/ at[c] = "send" /\ d \in todo[c]
          \/ "TLB" \in unhandled[d]

StaleInv == \A c, d \in CPUs : c \in stale[d] => Accounted(c, d)

IInv == TypeOK /\ MailFlags /\ LockInv /\ OwnerInv /\ SpaceInv /\ StaleInv

\* The holder of the lock posts only mail that is free: ShootdownFree
\* follows from the inductive invariant.
LEMMA ShootdownFreeFollows == IInv => ShootdownFree
BY SMT, Z3 DEF IInv, TypeOK, MailFlags, LockInv, OwnerInv, ShootdownFree, Busy

\* What one turn of the send loop does when the target runs another space.
LEMMA SkipEffect ==
    ASSUME TypeOK, NEW c \in CPUs, NEW d \in CPUs, SendTlb(c, d), space[d] # work[c]
    PROVE  /\ at[c] = "send" /\ d \in todo[c]
           /\ \A e \in CPUs : todo'[e] = IF e = c THEN todo[c] \ {d} ELSE todo[e]
           /\ UNCHANGED <<mail, queued, unhandled, payload, sent, at, taken, lock, work, space, cr3, stale>>
BY DEF TypeOK, SendTlb, mailVars, handleVars, spaceVars

\* What a posted shootdown mail changes.
Posted(c, d) ==
    /\ at[c] = "send" /\ d \in todo[c]
    /\ \A e \in CPUs : todo'[e] = IF e = c THEN todo[c] \ {d} ELSE todo[e]
    /\ \A e \in CPUs : sent'[e] = IF e = c THEN sent[c] \cup {d} ELSE sent[e]
    /\ \A e \in CPUs : "TLB" \in unhandled'[e] <=> e = d \/ "TLB" \in unhandled[e]
    /\ payload'[d].cr3 = work[c] /\ payload'[d].from = c
    /\ \A e \in CPUs : e # d => payload'[e] = payload[e]
    /\ UNCHANGED <<at, taken, lock, work, space, cr3, stale>>

\* What it does when the target runs the space being flushed.
LEMMA PostEffect ==
    ASSUME TypeOK, NEW c \in CPUs, NEW d \in CPUs, SendTlb(c, d), space[d] = work[c]
    PROVE  Posted(c, d)
<1>1. /\ at[c] = "send" /\ d \in todo[c] /\ todo' = [todo EXCEPT ![c] = @ \ {d}]
      /\ unhandled' = [unhandled EXCEPT ![d] = @ \cup {"TLB"}]
      /\ payload' = [payload EXCEPT ![d] = [cr3 |-> work[c], from |-> c]]
      /\ sent' = [sent EXCEPT ![c] = @ \cup {d}]
      /\ UNCHANGED <<at, taken, lock, work, space, cr3, stale>>
  BY DEF SendTlb, Post, handleVars, spaceVars
<1>2. /\ todo \in [CPUs -> SUBSET CPUs] /\ sent \in [CPUs -> SUBSET CPUs]
      /\ unhandled \in [CPUs -> SUBSET Kinds]
      /\ payload \in [CPUs -> [cr3 : Spaces \cup {None}, from : CPUs \cup {None}]]
  BY DEF TypeOK
<1> QED  BY <1>1, <1>2 DEF Posted

\* What send_reschedule_mail does: nothing but coalesce, or post.
LEMMA ReschedEffect ==
    ASSUME TypeOK, NEW c \in CPUs, NEW d \in CPUs, SendResched(c, d)
    PROVE  /\ at[c] = "resched" /\ at'[c] \in {"run", "ipi"}
           /\ \A e \in CPUs : e # c => at'[e] = at[e] /\ todo'[e] = todo[e]
           /\ \A e \in CPUs : "TLB" \in unhandled'[e] <=> "TLB" \in unhandled[e]
           /\ UNCHANGED <<payload, taken, lock, work, sent, space, cr3, stale>>
<1>1. /\ at[c] = "resched"
      /\ UNCHANGED <<payload, taken, lock, work, sent, space, cr3, stale>>
      /\ \/ /\ at' = [at EXCEPT ![c] = "run"] /\ todo' = [todo EXCEPT ![c] = {}]
            /\ UNCHANGED unhandled
         \/ /\ at' = [at EXCEPT ![c] = "ipi"] /\ todo' = todo
            /\ unhandled' = [unhandled EXCEPT ![d] = @ \cup {"RESCHED"}]
  BY DEF SendResched, Post, mailVars, handleVars, spaceVars, Goto
<1>2. /\ todo \in [CPUs -> SUBSET CPUs] /\ at \in [CPUs -> Labels]
      /\ unhandled \in [CPUs -> SUBSET Kinds]
  BY DEF TypeOK
<1>3. CASE /\ at' = [at EXCEPT ![c] = "run"] /\ todo' = [todo EXCEPT ![c] = {}]
           /\ UNCHANGED unhandled
  BY <1>1, <1>2, <1>3
<1>4. CASE /\ at' = [at EXCEPT ![c] = "ipi"] /\ todo' = todo
           /\ unhandled' = [unhandled EXCEPT ![d] = @ \cup {"RESCHED"}]
  BY <1>1, <1>2, <1>4
<1> QED  BY <1>1, <1>3, <1>4

\* What flush_mail and the test of pending do.
LEMMA FlushMailEffect ==
    ASSUME NEW c \in CPUs, FlushMail(c)
    PROVE  /\ at[c] = "send" /\ todo[c] = {}
           /\ UNCHANGED <<mail, queued, unhandled, payload, taken, todo, sent, space, cr3, stale>>
           /\ \/ /\ sent[c] = {} /\ lock' = None /\ at' = [at EXCEPT ![c] = "run"]
                 /\ work' = [work EXCEPT ![c] = None]
              \/ /\ sent[c] # {} /\ at' = [at EXCEPT ![c] = "await"] /\ UNCHANGED <<lock, work>>
BY DEF FlushMail, mailVars, handleVars, spaceVars, Goto

\* CR3 and current_task part company only inside schedule().
LEMMA SpaceStep == IInv /\ [Next]_vars => SpaceInv'
<1> SUFFICES ASSUME IInv, [Next]_vars PROVE SpaceInv'
  OBVIOUS
<1> USE CpuAssumption DEF IInv, TypeOK, mailVars, flushVars, spaceVars, handleVars, Goto, SpaceInv, Labels
<1>1. CASE UNCHANGED vars
  BY <1>1 DEF vars
<1>2. ASSUME NEW c \in CPUs, NEW s \in Spaces, BeginFlush(c, s) PROVE SpaceInv'
  BY <1>2 DEF BeginFlush
<1>3. ASSUME NEW c \in CPUs, AcquireTlbLock(c) PROVE SpaceInv'
  BY <1>3 DEF AcquireTlbLock
<1>4. ASSUME NEW c \in CPUs, NEW d \in CPUs, SendTlb(c, d) PROVE SpaceInv'
  BY <1>4 DEF SendTlb
<1>5. ASSUME NEW c \in CPUs, FlushMail(c) PROVE SpaceInv'
  BY <1>5 DEF FlushMail
<1>6. ASSUME NEW c \in CPUs, FlushDone(c) PROVE SpaceInv'
  BY <1>6 DEF FlushDone
<1>7. ASSUME NEW c \in CPUs, NEW d \in CPUs, EnqueueRemote(c, d) PROVE SpaceInv'
  BY <1>7 DEF EnqueueRemote
<1>8. ASSUME NEW c \in CPUs, NEW d \in CPUs, SendResched(c, d) PROVE SpaceInv'
  BY <1>8 DEF SendResched
<1>9. ASSUME NEW c \in CPUs, SendIpi(c) PROVE SpaceInv'
  BY <1>9 DEF SendIpi
<1>10. ASSUME NEW c \in CPUs, Deliver(c) PROVE SpaceInv'
  BY <1>10 DEF Deliver
<1>11. ASSUME NEW c \in CPUs, TakeMail(c) PROVE SpaceInv'
  BY <1>11 DEF TakeMail
<1>12. ASSUME NEW c \in CPUs, ApplyMail(c) PROVE SpaceInv'
  BY <1>12 DEF ApplyMail
<1>13. ASSUME NEW c \in CPUs, MailDrained(c) PROVE SpaceInv'
  BY <1>13 DEF MailDrained
<1>14. ASSUME NEW c \in CPUs, EndHandler(c) PROVE SpaceInv'
  BY <1>14 DEF EndHandler
<1>15. ASSUME NEW c \in CPUs, EnterSchedule(c) PROVE SpaceInv'
  BY <1>15 DEF EnterSchedule
<1>16. ASSUME NEW c \in CPUs, NEW s \in Spaces, NEW m \in {"user", "kernel", "idle"}, PickTask(c, s, m) PROVE SpaceInv'
  BY <1>16 DEF PickTask
<1>17. ASSUME NEW c \in CPUs, LoadCr3(c) PROVE SpaceInv'
  BY <1>17 DEF LoadCr3
<1>18. ASSUME NEW c \in CPUs, ChangeMode(c) PROVE SpaceInv'
  BY <1>18 DEF ChangeMode
<1>19. ASSUME NEW c \in CPUs, Panic(c) PROVE SpaceInv'
  BY <1>19 DEF Panic
<1> HIDE CpuAssumption DEF IInv, TypeOK, mailVars, flushVars, spaceVars, handleVars, Goto, SpaceInv, Labels
<1> QED
  BY <1>1, <1>2, <1>3, <1>4, <1>5, <1>6, <1>7, <1>8, <1>9, <1>10, <1>11, <1>12, <1>13, <1>14, <1>15, <1>16, <1>17, <1>18, <1>19 DEF Next, Step

\* tlb_shootdown_lock is held exactly by the CPU in the send or wait loop.
LEMMA LockStep == IInv /\ [Next]_vars => LockInv'
<1> SUFFICES ASSUME IInv, [Next]_vars PROVE LockInv'
  OBVIOUS
<1>4. ASSUME NEW c \in CPUs, NEW d \in CPUs, SendTlb(c, d) PROVE LockInv'
  <2>1. /\ TypeOK /\ LockInv /\ OwnerInv /\ SpaceInv /\ StaleInv  BY DEF IInv
  <2>2. CASE space[d] # work[c]
    <3>1. /\ at[c] = "send" /\ d \in todo[c]
          /\ \A e \in CPUs : todo'[e] = IF e = c THEN todo[c] \ {d} ELSE todo[e]
          /\ UNCHANGED <<mail, queued, unhandled, payload, sent, at, taken, lock, work, space, cr3, stale>>
      BY <1>4, <2>1, <2>2, SkipEffect
    <3> QED  BY <2>1, <2>2, <3>1 DEF LockInv, Labels
  <2>3. CASE space[d] = work[c]
    <3>1. Posted(c, d)  BY <1>4, <2>1, <2>3, PostEffect
    <3> QED  BY SMT, Z3, <2>1, <2>3, <3>1 DEF Posted, LockInv, Labels
  <2> QED  BY <2>2, <2>3
<1>5. ASSUME NEW c \in CPUs, FlushMail(c) PROVE LockInv'
  <2>1. /\ TypeOK /\ LockInv /\ OwnerInv /\ SpaceInv /\ StaleInv  BY DEF IInv
  <2>2. /\ at[c] = "send" /\ todo[c] = {}
        /\ UNCHANGED <<unhandled, payload, todo, sent, space, cr3, stale>>
    BY <1>5, FlushMailEffect
  <2>3. at \in [CPUs -> Labels] /\ work \in [CPUs -> Spaces \cup {None}]  BY <2>1 DEF TypeOK
  <2>4. CASE /\ sent[c] = {} /\ lock' = None /\ at' = [at EXCEPT ![c] = "run"]
             /\ work' = [work EXCEPT ![c] = None]
    BY <2>1, <2>2, <2>3, <2>4, CpuAssumption DEF LockInv, Labels
  <2>5. CASE sent[c] # {} /\ at' = [at EXCEPT ![c] = "await"] /\ UNCHANGED <<lock, work>>
    BY <2>1, <2>2, <2>3, <2>5 DEF LockInv, Labels
  <2> QED  BY <1>5, FlushMailEffect, <2>4, <2>5
<1>8. ASSUME NEW c \in CPUs, NEW d \in CPUs, SendResched(c, d) PROVE LockInv'
  <2>1. /\ TypeOK /\ LockInv /\ OwnerInv /\ SpaceInv /\ StaleInv  BY DEF IInv
  <2>2. /\ at[c] = "resched" /\ at'[c] \in {"run", "ipi"}
        /\ \A e \in CPUs : e # c => at'[e] = at[e] /\ todo'[e] = todo[e]
        /\ \A e \in CPUs : "TLB" \in unhandled'[e] <=> "TLB" \in unhandled[e]
        /\ UNCHANGED <<payload, lock, work, sent, space, cr3, stale>>
    BY <1>8, <2>1, ReschedEffect
  <2> QED  BY <2>1, <2>2 DEF LockInv, Labels
<1> USE CpuAssumption DEF IInv, TypeOK, mailVars, flushVars, spaceVars, handleVars, Goto, LockInv, Labels
<1>1. CASE UNCHANGED vars
  BY <1>1 DEF vars
<1>2. ASSUME NEW c \in CPUs, NEW s \in Spaces, BeginFlush(c, s) PROVE LockInv'
  BY <1>2 DEF BeginFlush
<1>3. ASSUME NEW c \in CPUs, AcquireTlbLock(c) PROVE LockInv'
  BY ZenonT(30), <1>3 DEF AcquireTlbLock
<1>6. ASSUME NEW c \in CPUs, FlushDone(c) PROVE LockInv'
  BY SMT, Z3, <1>6 DEF FlushDone
<1>7. ASSUME NEW c \in CPUs, NEW d \in CPUs, EnqueueRemote(c, d) PROVE LockInv'
  BY SMT, Z3, <1>7 DEF EnqueueRemote
<1>9. ASSUME NEW c \in CPUs, SendIpi(c) PROVE LockInv'
  BY SMTT(30), <1>9 DEF SendIpi
<1>10. ASSUME NEW c \in CPUs, Deliver(c) PROVE LockInv'
  BY SMT, Z3, <1>10 DEF Deliver
<1>11. ASSUME NEW c \in CPUs, TakeMail(c) PROVE LockInv'
  BY <1>11 DEF TakeMail
<1>12. ASSUME NEW c \in CPUs, ApplyMail(c) PROVE LockInv'
  BY SMT, Z3, <1>12 DEF ApplyMail
<1>13. ASSUME NEW c \in CPUs, MailDrained(c) PROVE LockInv'
  BY <1>13 DEF MailDrained
<1>14. ASSUME NEW c \in CPUs, EndHandler(c) PROVE LockInv'
  BY <1>14 DEF EndHandler
<1>15. ASSUME NEW c \in CPUs, EnterSchedule(c) PROVE LockInv'
  BY <1>15 DEF EnterSchedule
<1>16. ASSUME NEW c \in CPUs, NEW s \in Spaces, NEW m \in {"user", "kernel", "idle"}, PickTask(c, s, m) PROVE LockInv'
  BY <1>16 DEF PickTask
<1>17. ASSUME NEW c \in CPUs, LoadCr3(c) PROVE LockInv'
  BY <1>17 DEF LoadCr3
<1>18. ASSUME NEW c \in CPUs, ChangeMode(c) PROVE LockInv'
  BY <1>18 DEF ChangeMode
<1>19. ASSUME NEW c \in CPUs, Panic(c) PROVE LockInv'
  BY SMTT(30), <1>19 DEF Panic
<1> HIDE CpuAssumption DEF IInv, TypeOK, mailVars, flushVars, spaceVars, handleVars, Goto, LockInv, Labels
<1> QED
  BY <1>1, <1>2, <1>3, <1>4, <1>5, <1>6, <1>7, <1>8, <1>9, <1>10, <1>11, <1>12, <1>13, <1>14, <1>15, <1>16, <1>17, <1>18, <1>19 DEF Next, Step

\* An unhandled shootdown mail stays the lock holder's.
LEMMA OwnerStep == IInv /\ [Next]_vars => OwnerInv'
<1> SUFFICES ASSUME IInv, [Next]_vars PROVE OwnerInv'
  OBVIOUS
<1>4. ASSUME NEW c \in CPUs, NEW d \in CPUs, SendTlb(c, d) PROVE OwnerInv'
  <2>1. /\ TypeOK /\ LockInv /\ OwnerInv /\ SpaceInv /\ StaleInv  BY DEF IInv
  <2>2. CASE space[d] # work[c]
    <3>1. /\ at[c] = "send" /\ d \in todo[c]
          /\ \A e \in CPUs : todo'[e] = IF e = c THEN todo[c] \ {d} ELSE todo[e]
          /\ UNCHANGED <<mail, queued, unhandled, payload, sent, at, taken, lock, work, space, cr3, stale>>
      BY <1>4, <2>1, <2>2, SkipEffect
    <3> QED  BY <2>1, <2>2, <3>1 DEF LockInv, OwnerInv
  <2>3. CASE space[d] = work[c]
    <3>1. Posted(c, d)  BY <1>4, <2>1, <2>3, PostEffect
    <3>2. \A e \in CPUs : "TLB" \in unhandled[e] => e \in sent[lock] /\ payload[e].cr3 = work[lock] /\ payload[e].from = lock
      BY <2>1 DEF OwnerInv
    <3>3. lock = c  BY <2>1, <3>1 DEF Posted, LockInv
    <3> QED  BY <3>1, <3>2, <3>3 DEF Posted, OwnerInv
  <2> QED  BY <2>2, <2>3
<1>5. ASSUME NEW c \in CPUs, FlushMail(c) PROVE OwnerInv'
  <2>1. /\ TypeOK /\ LockInv /\ OwnerInv /\ SpaceInv /\ StaleInv  BY DEF IInv
  <2>2. /\ at[c] = "send" /\ todo[c] = {}
        /\ UNCHANGED <<unhandled, payload, todo, sent, space, cr3, stale>>
    BY <1>5, FlushMailEffect
  <2>3. at \in [CPUs -> Labels] /\ work \in [CPUs -> Spaces \cup {None}]  BY <2>1 DEF TypeOK
  <2>4. CASE /\ sent[c] = {} /\ lock' = None /\ at' = [at EXCEPT ![c] = "run"]
             /\ work' = [work EXCEPT ![c] = None]
    BY <2>1, <2>2, <2>3, <2>4, CpuAssumption DEF LockInv, OwnerInv
  <2>5. CASE sent[c] # {} /\ at' = [at EXCEPT ![c] = "await"] /\ UNCHANGED <<lock, work>>
    BY <2>1, <2>2, <2>3, <2>5 DEF LockInv, OwnerInv
  <2> QED  BY <1>5, FlushMailEffect, <2>4, <2>5
<1>8. ASSUME NEW c \in CPUs, NEW d \in CPUs, SendResched(c, d) PROVE OwnerInv'
  <2>1. /\ TypeOK /\ LockInv /\ OwnerInv /\ SpaceInv /\ StaleInv  BY DEF IInv
  <2>2. /\ at[c] = "resched" /\ at'[c] \in {"run", "ipi"}
        /\ \A e \in CPUs : e # c => at'[e] = at[e] /\ todo'[e] = todo[e]
        /\ \A e \in CPUs : "TLB" \in unhandled'[e] <=> "TLB" \in unhandled[e]
        /\ UNCHANGED <<payload, lock, work, sent, space, cr3, stale>>
    BY <1>8, <2>1, ReschedEffect
  <2> QED  BY <2>1, <2>2 DEF LockInv, OwnerInv
<1> USE CpuAssumption DEF IInv, TypeOK, mailVars, flushVars, spaceVars, handleVars, Goto, LockInv, OwnerInv
<1>1. CASE UNCHANGED vars
  BY <1>1 DEF vars
<1>2. ASSUME NEW c \in CPUs, NEW s \in Spaces, BeginFlush(c, s) PROVE OwnerInv'
  BY <1>2 DEF BeginFlush
<1>3. ASSUME NEW c \in CPUs, AcquireTlbLock(c) PROVE OwnerInv'
  BY <1>3 DEF AcquireTlbLock
<1>6. ASSUME NEW c \in CPUs, FlushDone(c) PROVE OwnerInv'
  BY <1>6 DEF FlushDone
<1>7. ASSUME NEW c \in CPUs, NEW d \in CPUs, EnqueueRemote(c, d) PROVE OwnerInv'
  BY <1>7 DEF EnqueueRemote
<1>9. ASSUME NEW c \in CPUs, SendIpi(c) PROVE OwnerInv'
  BY <1>9 DEF SendIpi
<1>10. ASSUME NEW c \in CPUs, Deliver(c) PROVE OwnerInv'
  BY <1>10 DEF Deliver
<1>11. ASSUME NEW c \in CPUs, TakeMail(c) PROVE OwnerInv'
  BY <1>11 DEF TakeMail
<1>12. ASSUME NEW c \in CPUs, ApplyMail(c) PROVE OwnerInv'
  BY SMTT(30), <1>12 DEF ApplyMail
<1>13. ASSUME NEW c \in CPUs, MailDrained(c) PROVE OwnerInv'
  BY <1>13 DEF MailDrained
<1>14. ASSUME NEW c \in CPUs, EndHandler(c) PROVE OwnerInv'
  BY <1>14 DEF EndHandler
<1>15. ASSUME NEW c \in CPUs, EnterSchedule(c) PROVE OwnerInv'
  BY <1>15 DEF EnterSchedule
<1>16. ASSUME NEW c \in CPUs, NEW s \in Spaces, NEW m \in {"user", "kernel", "idle"}, PickTask(c, s, m) PROVE OwnerInv'
  BY <1>16 DEF PickTask
<1>17. ASSUME NEW c \in CPUs, LoadCr3(c) PROVE OwnerInv'
  BY <1>17 DEF LoadCr3
<1>18. ASSUME NEW c \in CPUs, ChangeMode(c) PROVE OwnerInv'
  BY <1>18 DEF ChangeMode
<1>19. ASSUME NEW c \in CPUs, Panic(c) PROVE OwnerInv'
  BY SMTT(30), <1>19 DEF Panic
<1> HIDE CpuAssumption DEF IInv, TypeOK, mailVars, flushVars, spaceVars, handleVars, Goto, LockInv, OwnerInv
<1> QED
  BY <1>1, <1>2, <1>3, <1>4, <1>5, <1>6, <1>7, <1>8, <1>9, <1>10, <1>11, <1>12, <1>13, <1>14, <1>15, <1>16, <1>17, <1>18, <1>19 DEF Next, Step

\* A step of a CPU that is neither flushing nor loading CR3 cannot disturb the
\* account of stale TLBs, as long as it takes no shootdown mail back.
LEMMA QuietStale ==
  ASSUME NEW c \in CPUs, StaleInv,
         at[c] \notin {"lock", "send", "await", "load"},
         \A e \in CPUs : e # c => at'[e] = at[e] /\ todo'[e] = todo[e],
         \A e \in CPUs : "TLB" \in unhandled[e] => "TLB" \in unhandled'[e],
         UNCHANGED <<stale, cr3, work>>
  PROVE  StaleInv'
<1> SUFFICES ASSUME NEW b \in CPUs, NEW d \in CPUs, b \in stale'[d] PROVE Accounted(b, d)'
  BY DEF StaleInv
<1>1. Accounted(b, d)  BY DEF StaleInv
<1> QED  BY <1>1 DEF Accounted, Flushing

\* A TLB that has not followed a flush keeps being accounted for.
LEMMA StaleStep == IInv /\ [Next]_vars => StaleInv'
<1> SUFFICES ASSUME IInv, [Next]_vars PROVE StaleInv'
  OBVIOUS
<1>4. ASSUME NEW c \in CPUs, NEW d \in CPUs, SendTlb(c, d) PROVE StaleInv'
  <2>1. /\ TypeOK /\ LockInv /\ OwnerInv /\ SpaceInv /\ StaleInv  BY DEF IInv
  <2>2. CASE space[d] # work[c]
    <3>1. /\ at[c] = "send" /\ d \in todo[c]
          /\ \A e \in CPUs : todo'[e] = IF e = c THEN todo[c] \ {d} ELSE todo[e]
          /\ UNCHANGED <<mail, queued, unhandled, payload, sent, at, taken, lock, work, space, cr3, stale>>
      BY <1>4, <2>1, <2>2, SkipEffect
    <3> QED  BY SMTT(30), <2>1, <2>2, <3>1 DEF LockInv, OwnerInv, SpaceInv, StaleInv, Accounted, Flushing
  <2>3. CASE space[d] = work[c]
    <3>1. Posted(c, d)  BY <1>4, <2>1, <2>3, PostEffect
    <3> QED  BY SMTT(30), <2>1, <2>3, <3>1 DEF Posted, LockInv, OwnerInv, SpaceInv, StaleInv, Accounted, Flushing
  <2> QED  BY <2>2, <2>3
<1>5. ASSUME NEW c \in CPUs, FlushMail(c) PROVE StaleInv'
  <2>1. /\ TypeOK /\ LockInv /\ OwnerInv /\ SpaceInv /\ StaleInv  BY DEF IInv
  <2>2. /\ at[c] = "send" /\ todo[c] = {}
        /\ UNCHANGED <<unhandled, payload, todo, sent, space, cr3, stale>>
    BY <1>5, FlushMailEffect
  <2>3. at \in [CPUs -> Labels] /\ work \in [CPUs -> Spaces \cup {None}]  BY <2>1 DEF TypeOK
  <2>4. CASE /\ sent[c] = {} /\ lock' = None /\ at' = [at EXCEPT ![c] = "run"]
             /\ work' = [work EXCEPT ![c] = None]
    BY SMTT(30), <2>1, <2>2, <2>3, <2>4, CpuAssumption DEF LockInv, OwnerInv, SpaceInv, StaleInv, Accounted, Flushing
  <2>5. CASE sent[c] # {} /\ at' = [at EXCEPT ![c] = "await"] /\ UNCHANGED <<lock, work>>
    BY SMTT(30), <2>1, <2>2, <2>3, <2>5 DEF LockInv, OwnerInv, SpaceInv, StaleInv, Accounted, Flushing
  <2> QED  BY <1>5, FlushMailEffect, <2>4, <2>5
<1>8. ASSUME NEW c \in CPUs, NEW d \in CPUs, SendResched(c, d) PROVE StaleInv'
  <2>1. /\ TypeOK /\ LockInv /\ OwnerInv /\ SpaceInv /\ StaleInv  BY DEF IInv
  <2>2. /\ at[c] = "resched" /\ at'[c] \in {"run", "ipi"}
        /\ \A e \in CPUs : e # c => at'[e] = at[e] /\ todo'[e] = todo[e]
        /\ \A e \in CPUs : "TLB" \in unhandled'[e] <=> "TLB" \in unhandled[e]
        /\ UNCHANGED <<payload, lock, work, sent, space, cr3, stale>>
    BY <1>8, <2>1, ReschedEffect
  <2> QED  BY SMTT(30), <2>1, <2>2 DEF LockInv, OwnerInv, SpaceInv, StaleInv, Accounted, Flushing
<1>7. ASSUME NEW c \in CPUs, NEW d \in CPUs, EnqueueRemote(c, d) PROVE StaleInv'
  <2>1. TypeOK /\ StaleInv  BY DEF IInv
  <2>2. /\ at[c] \notin {"lock", "send", "await", "load"}
        /\ \A e \in CPUs : e # c => at'[e] = at[e] /\ todo'[e] = todo[e]
        /\ \A e \in CPUs : "TLB" \in unhandled[e] => "TLB" \in unhandled'[e]
        /\ UNCHANGED <<stale, cr3, work>>
    BY <1>7, <2>1 DEF EnqueueRemote, TypeOK, mailVars, flushVars, spaceVars, handleVars, Goto
  <2> QED  BY <2>1, <2>2, QuietStale
<1>9. ASSUME NEW c \in CPUs, SendIpi(c) PROVE StaleInv'
  <2>1. TypeOK /\ StaleInv  BY DEF IInv
  <2>2. /\ at[c] \notin {"lock", "send", "await", "load"}
        /\ \A e \in CPUs : e # c => at'[e] = at[e] /\ todo'[e] = todo[e]
        /\ \A e \in CPUs : "TLB" \in unhandled[e] => "TLB" \in unhandled'[e]
        /\ UNCHANGED <<stale, cr3, work>>
    BY <1>9, <2>1 DEF SendIpi, TypeOK, mailVars, flushVars, spaceVars, handleVars, Goto
  <2> QED  BY <2>1, <2>2, QuietStale
<1>10. ASSUME NEW c \in CPUs, Deliver(c) PROVE StaleInv'
  <2>1. TypeOK /\ StaleInv  BY DEF IInv
  <2>2. /\ at[c] \notin {"lock", "send", "await", "load"}
        /\ \A e \in CPUs : e # c => at'[e] = at[e] /\ todo'[e] = todo[e]
        /\ \A e \in CPUs : "TLB" \in unhandled[e] => "TLB" \in unhandled'[e]
        /\ UNCHANGED <<stale, cr3, work>>
    BY <1>10, <2>1 DEF Deliver, TypeOK, mailVars, flushVars, spaceVars, handleVars, Goto
  <2> QED  BY <2>1, <2>2, QuietStale
<1>11. ASSUME NEW c \in CPUs, TakeMail(c) PROVE StaleInv'
  <2>1. TypeOK /\ StaleInv  BY DEF IInv
  <2>2. /\ at[c] \notin {"lock", "send", "await", "load"}
        /\ \A e \in CPUs : e # c => at'[e] = at[e] /\ todo'[e] = todo[e]
        /\ \A e \in CPUs : "TLB" \in unhandled[e] => "TLB" \in unhandled'[e]
        /\ UNCHANGED <<stale, cr3, work>>
    BY <1>11, <2>1 DEF TakeMail, TypeOK, mailVars, flushVars, spaceVars, handleVars, Goto
  <2> QED  BY <2>1, <2>2, QuietStale
<1>13. ASSUME NEW c \in CPUs, MailDrained(c) PROVE StaleInv'
  <2>1. TypeOK /\ StaleInv  BY DEF IInv
  <2>2. /\ at[c] \notin {"lock", "send", "await", "load"}
        /\ \A e \in CPUs : e # c => at'[e] = at[e] /\ todo'[e] = todo[e]
        /\ \A e \in CPUs : "TLB" \in unhandled[e] => "TLB" \in unhandled'[e]
        /\ UNCHANGED <<stale, cr3, work>>
    BY <1>13, <2>1 DEF MailDrained, TypeOK, mailVars, flushVars, spaceVars, handleVars, Goto
  <2> QED  BY <2>1, <2>2, QuietStale
<1>14. ASSUME NEW c \in CPUs, EndHandler(c) PROVE StaleInv'
  <2>1. TypeOK /\ StaleInv  BY DEF IInv
  <2>2. /\ at[c] \notin {"lock", "send", "await", "load"}
        /\ \A e \in CPUs : e # c => at'[e] = at[e] /\ todo'[e] = todo[e]
        /\ \A e \in CPUs : "TLB" \in unhandled[e] => "TLB" \in unhandled'[e]
        /\ UNCHANGED <<stale, cr3, work>>
    BY <1>14, <2>1 DEF EndHandler, TypeOK, mailVars, flushVars, spaceVars, handleVars, Goto
  <2> QED  BY <2>1, <2>2, QuietStale
<1>15. ASSUME NEW c \in CPUs, EnterSchedule(c) PROVE StaleInv'
  <2>1. TypeOK /\ StaleInv  BY DEF IInv
  <2>2. /\ at[c] \notin {"lock", "send", "await", "load"}
        /\ \A e \in CPUs : e # c => at'[e] = at[e] /\ todo'[e] = todo[e]
        /\ \A e \in CPUs : "TLB" \in unhandled[e] => "TLB" \in unhandled'[e]
        /\ UNCHANGED <<stale, cr3, work>>
    BY <1>15, <2>1 DEF EnterSchedule, TypeOK, mailVars, flushVars, spaceVars, handleVars, Goto
  <2> QED  BY <2>1, <2>2, QuietStale
<1>16. ASSUME NEW c \in CPUs, NEW s \in Spaces, NEW m \in {"user", "kernel", "idle"}, PickTask(c, s, m) PROVE StaleInv'
  <2>1. TypeOK /\ StaleInv  BY DEF IInv
  <2>2. /\ at[c] \notin {"lock", "send", "await", "load"}
        /\ \A e \in CPUs : e # c => at'[e] = at[e] /\ todo'[e] = todo[e]
        /\ \A e \in CPUs : "TLB" \in unhandled[e] => "TLB" \in unhandled'[e]
        /\ UNCHANGED <<stale, cr3, work>>
    BY <1>16, <2>1 DEF PickTask, TypeOK, mailVars, flushVars, spaceVars, handleVars, Goto
  <2> QED  BY <2>1, <2>2, QuietStale
<1>18. ASSUME NEW c \in CPUs, ChangeMode(c) PROVE StaleInv'
  <2>1. TypeOK /\ StaleInv  BY DEF IInv
  <2>2. /\ at[c] \notin {"lock", "send", "await", "load"}
        /\ \A e \in CPUs : e # c => at'[e] = at[e] /\ todo'[e] = todo[e]
        /\ \A e \in CPUs : "TLB" \in unhandled[e] => "TLB" \in unhandled'[e]
        /\ UNCHANGED <<stale, cr3, work>>
    BY <1>18, <2>1 DEF ChangeMode, TypeOK, mailVars, flushVars, spaceVars, handleVars, Goto
  <2> QED  BY <2>1, <2>2, QuietStale
<1>19. ASSUME NEW c \in CPUs, Panic(c) PROVE StaleInv'
  <2>1. TypeOK /\ StaleInv  BY DEF IInv
  <2>2. /\ at[c] \notin {"lock", "send", "await", "load"}
        /\ \A e \in CPUs : e # c => at'[e] = at[e] /\ todo'[e] = todo[e]
        /\ \A e \in CPUs : "TLB" \in unhandled[e] => "TLB" \in unhandled'[e]
        /\ UNCHANGED <<stale, cr3, work>>
    BY SMTT(30), <1>19, <2>1 DEF Panic, TypeOK, mailVars, flushVars, spaceVars, handleVars, Goto
  <2> QED  BY <2>1, <2>2, QuietStale
<1>1. CASE UNCHANGED vars
  BY <1>1 DEF vars, IInv, StaleInv, Accounted, Flushing, mailVars, flushVars, spaceVars, handleVars
<1>2. ASSUME NEW c \in CPUs, NEW s \in Spaces, BeginFlush(c, s) PROVE StaleInv'
  <2>1. /\ TypeOK /\ LockInv /\ OwnerInv /\ SpaceInv /\ StaleInv  BY DEF IInv
  <2> SUFFICES ASSUME NEW b \in CPUs, NEW e \in CPUs, b \in stale'[e] PROVE Accounted(b, e)'
    BY DEF StaleInv
  <2>2. /\ at[c] = "run" /\ at'[c] = "lock" /\ work'[c] = s
        /\ \A x \in CPUs : x # c => at'[x] = at[x] /\ work'[x] = work[x]
        /\ b \in stale[e] \/ (b = c /\ e # c /\ cr3[e] = s)
        /\ UNCHANGED <<todo, cr3, unhandled>>
    BY <1>2, <2>1 DEF BeginFlush, TypeOK, mailVars, flushVars, spaceVars, handleVars, Goto
  <2>3. CASE b \in stale[e]
    <3>1. Accounted(b, e)  BY <2>1, <2>3 DEF StaleInv
    <3> QED  BY <2>2, <3>1 DEF Accounted, Flushing
  <2>4. CASE b = c /\ e # c /\ cr3[e] = s
    BY <2>2, <2>4 DEF Accounted, Flushing
  <2> QED  BY <2>2, <2>3, <2>4
<1>3. ASSUME NEW c \in CPUs, AcquireTlbLock(c) PROVE StaleInv'
  <2>1. /\ TypeOK /\ LockInv /\ OwnerInv /\ SpaceInv /\ StaleInv  BY DEF IInv
  <2> SUFFICES ASSUME NEW b \in CPUs, NEW e \in CPUs, b \in stale'[e] PROVE Accounted(b, e)'
    BY DEF StaleInv
  <2>2. /\ at[c] = "lock" /\ at'[c] = "send" /\ todo'[c] = CPUs \ {c}
        /\ \A x \in CPUs : x # c => at'[x] = at[x] /\ todo'[x] = todo[x]
        /\ UNCHANGED <<work, cr3, unhandled, stale>>
    BY <1>3, <2>1 DEF AcquireTlbLock, TypeOK, mailVars, flushVars, spaceVars, handleVars, Goto
  <2>3. Accounted(b, e)  BY <2>1, <2>2 DEF StaleInv
  <2> QED  BY SMT, Z3, <2>2, <2>3 DEF Accounted, Flushing
<1>6. ASSUME NEW c \in CPUs, FlushDone(c) PROVE StaleInv'
  <2>1. /\ TypeOK /\ LockInv /\ OwnerInv /\ SpaceInv /\ StaleInv  BY DEF IInv
  <2> SUFFICES ASSUME NEW b \in CPUs, NEW e \in CPUs, b \in stale'[e] PROVE Accounted(b, e)'
    BY DEF StaleInv
  <2>2. /\ at[c] = "await" /\ at'[c] = "run"
        /\ \A x \in CPUs \ {c} : "TLB" \notin unhandled[x]
        /\ \A x \in CPUs : x # c => at'[x] = at[x] /\ work'[x] = work[x]
        /\ UNCHANGED <<todo, cr3, unhandled, stale>>
    BY <1>6, <2>1 DEF FlushDone, TypeOK, mailVars, flushVars, spaceVars, handleVars, Goto
  <2>3. Accounted(b, e)  BY <2>1, <2>2 DEF StaleInv
  <2> QED  BY <2>2, <2>3 DEF Accounted, Flushing
<1>12. ASSUME NEW c \in CPUs, ApplyMail(c) PROVE StaleInv'
  <2>1. /\ TypeOK /\ LockInv /\ OwnerInv /\ SpaceInv /\ StaleInv  BY DEF IInv
  <2> SUFFICES ASSUME NEW b \in CPUs, NEW e \in CPUs, b \in stale'[e] PROVE Accounted(b, e)'
    BY DEF StaleInv
  <2>2. /\ at[c] = "apply" /\ at'[c] \in {"halted", "handle"}
        /\ \A x \in CPUs : x # c => at'[x] = at[x] /\ unhandled'[x] = unhandled[x]
        /\ unhandled'[c] = unhandled[c] \ {taken[c]}
        /\ UNCHANGED <<todo, cr3, work, space>>
    BY <1>12, <2>1 DEF ApplyMail, TypeOK, mailVars, flushVars, spaceVars, handleVars, Goto
  <2>3. /\ b \in stale[e]
        /\ ~(e = c /\ taken[c] = "TLB" /\ payload[c].cr3 = cr3[c] /\ payload[c].from = b)
    BY <1>12, <2>1 DEF ApplyMail, TypeOK
  <2>4. Accounted(b, e)  BY <2>1, <2>3 DEF StaleInv
  <2>5. CASE e # c \/ taken[c] # "TLB"
    BY <2>2, <2>4, <2>5 DEF Accounted, Flushing
  <2>6. CASE e = c /\ taken[c] = "TLB"
    <3>1. Flushing(b) /\ cr3[c] = work[b] /\ b # c  BY <2>2, <2>4, <2>6 DEF Accounted
    <3>2. "TLB" \in unhandled[c]  BY <1>12, <2>2, <2>6, IInv DEF IInv, MailFlags
    <3>3. payload[c].cr3 = work[lock] /\ payload[c].from = lock /\ lock \in CPUs
      BY <2>1, <3>2 DEF OwnerInv
    <3>4. CASE lock = b
      BY <2>3, <2>6, <3>1, <3>3, <3>4
    <3>5. CASE lock # b
      <4>1. at[b] = "lock"  BY <2>1, <3>1, <3>5 DEF LockInv, Flushing
      <4> QED  BY <2>2, <2>6, <3>1, <4>1 DEF Accounted, Flushing
    <3> QED  BY <3>4, <3>5
  <2> QED  BY <2>5, <2>6
<1>17. ASSUME NEW c \in CPUs, LoadCr3(c) PROVE StaleInv'
  <2>1. /\ TypeOK /\ LockInv /\ OwnerInv /\ SpaceInv /\ StaleInv  BY DEF IInv
  <2> SUFFICES ASSUME NEW b \in CPUs, NEW e \in CPUs, b \in stale'[e] PROVE Accounted(b, e)'
    BY DEF StaleInv
  <2>2. /\ at[c] = "load" /\ at'[c] = "run" /\ stale'[c] = {}
        /\ \A x \in CPUs : x # c => at'[x] = at[x] /\ cr3'[x] = cr3[x] /\ stale'[x] = stale[x]
        /\ UNCHANGED <<todo, unhandled, work>>
    BY <1>17, <2>1 DEF LoadCr3, TypeOK, mailVars, flushVars, spaceVars, handleVars, Goto
  <2>3. e # c /\ Accounted(b, e)  BY <2>1, <2>2 DEF StaleInv
  <2> QED  BY <2>2, <2>3 DEF Accounted, Flushing
<1> QED
  BY <1>1, <1>2, <1>3, <1>4, <1>5, <1>6, <1>7, <1>8, <1>9, <1>10, <1>11, <1>12, <1>13, <1>14, <1>15, <1>16, <1>17, <1>18, <1>19 DEF Next, Step

\* The flags of one mail object list, that is, what MailFlags says of a CPU.
CpuFlags(c) ==
    /\ IsInjective(mail[c])
    /\ queued[c] = Range(mail[c])
    /\ unhandled[c] = queued[c] \cup (IF at[c] = "apply" THEN {taken[c]} ELSE {})
    /\ at[c] = "apply" => taken[c] \notin queued[c]

\* A step that leaves the list of a CPU and its mail in hand alone keeps its
\* flags.
LEMMA FlagsKept ==
    ASSUME NEW e \in CPUs, CpuFlags(e),
           mail'[e] = mail[e], queued'[e] = queued[e], unhandled'[e] = unhandled[e],
           (at'[e] = "apply") <=> (at[e] = "apply"), taken'[e] = taken[e]
    PROVE  CpuFlags(e)'
BY DEF CpuFlags

\* enqueue_mail_locked keeps the flags if the mail is neither queued nor
\* still being handled.
LEMMA FlagsPosted ==
    ASSUME TypeOK, NEW e \in CPUs, NEW k \in Kinds, CpuFlags(e), ~Busy(e, k),
           mail'[e] = Append(mail[e], k), queued'[e] = queued[e] \cup {k},
           unhandled'[e] = unhandled[e] \cup {k},
           at'[e] = at[e], taken'[e] = taken[e]
    PROVE  CpuFlags(e)'
<1>1. mail[e] \in Seq(Kinds)  BY DEF TypeOK
<1>2. k \notin Range(mail[e]) /\ k \notin unhandled[e]  BY DEF CpuFlags, Busy
<1>3. /\ IsInjective(Append(mail[e], k))
      /\ Range(Append(mail[e], k)) = Range(mail[e]) \cup {k}
  BY SMTT(30), <1>1, <1>2, AppendToList DEF CpuFlags
<1> QED  BY <1>2, <1>3 DEF CpuFlags

\* Taking the first mail keeps the flags.
LEMMA FlagsTaken ==
    ASSUME TypeOK, NEW c \in CPUs, CpuFlags(c), TakeMail(c)
    PROVE  CpuFlags(c)'
<1>1. /\ mail[c] \in Seq(Kinds) /\ mail \in [CPUs -> Seq(Kinds)]
      /\ queued \in [CPUs -> SUBSET Kinds] /\ at \in [CPUs -> Labels]
      /\ taken \in [CPUs -> Kinds \cup {None}]
  BY DEF TypeOK
<1>2. /\ mail[c] # <<>> /\ at[c] = "handle"
      /\ mail'[c] = Tail(mail[c]) /\ queued'[c] = queued[c] \ {Head(mail[c])}
      /\ taken'[c] = Head(mail[c]) /\ at'[c] = "apply" /\ unhandled'[c] = unhandled[c]
  BY <1>1 DEF TakeMail, Goto
<1>3. /\ Head(mail[c]) \in Range(mail[c])
      /\ Range(Tail(mail[c])) = Range(mail[c]) \ {Head(mail[c])}
      /\ IsInjective(Tail(mail[c]))
  BY <1>1, <1>2, TailOfInjective DEF CpuFlags
<1> QED  BY <1>2, <1>3 DEF CpuFlags

\* Every step keeps the flags of every mail object in agreement with the lists.
LEMMA FlagsStep == IInv /\ [Next]_vars => MailFlags'
<1> SUFFICES ASSUME IInv, [Next]_vars, NEW e \in CPUs PROVE CpuFlags(e)'
  BY DEF MailFlags, CpuFlags
<1>0. TypeOK /\ CpuFlags(e) /\ ShootdownFree  BY ShootdownFreeFollows DEF IInv, MailFlags, CpuFlags
<1>t. /\ mail \in [CPUs -> Seq(Kinds)] /\ queued \in [CPUs -> SUBSET Kinds]
      /\ unhandled \in [CPUs -> SUBSET Kinds] /\ at \in [CPUs -> Labels]
      /\ taken \in [CPUs -> Kinds \cup {None}]
  BY <1>0 DEF TypeOK
<1>1. CASE UNCHANGED vars
  BY <1>0, <1>1, FlagsKept DEF vars
<1>2. ASSUME NEW c \in CPUs, NEW s \in Spaces, BeginFlush(c, s) PROVE CpuFlags(e)'
  BY <1>0, <1>t, <1>2, FlagsKept DEF BeginFlush, mailVars, handleVars, Goto
<1>3. ASSUME NEW c \in CPUs, AcquireTlbLock(c) PROVE CpuFlags(e)'
  BY <1>0, <1>t, <1>3, FlagsKept DEF AcquireTlbLock, mailVars, handleVars, Goto
<1>4. ASSUME NEW c \in CPUs, NEW d \in CPUs, SendTlb(c, d) PROVE CpuFlags(e)'
  <2>1. CASE space[d] # work[c]
    <3>1. UNCHANGED <<mail, queued, unhandled, at, taken>>  BY <1>0, <1>4, <2>1, SkipEffect
    <3> QED  BY <1>0, <3>1, FlagsKept
  <2>2. CASE space[d] = work[c]
    <3>1. /\ at[c] = "send" /\ d \in todo[c]
          /\ mail' = [mail EXCEPT ![d] = Append(@, "TLB")]
          /\ queued' = [queued EXCEPT ![d] = @ \cup {"TLB"}]
          /\ unhandled' = [unhandled EXCEPT ![d] = @ \cup {"TLB"}]
          /\ UNCHANGED <<at, taken>>
      BY <1>4, <2>2 DEF SendTlb, Post, handleVars
    <3>2. ~Busy(d, "TLB")  BY <1>0, <2>2, <3>1 DEF ShootdownFree
    <3>3. CASE e = d
      BY <1>0, <1>t, <3>1, <3>2, <3>3, FlagsPosted DEF Kinds
    <3>4. CASE e # d
      BY <1>0, <1>t, <3>1, <3>4, FlagsKept
    <3> QED  BY <3>3, <3>4
  <2> QED  BY <2>1, <2>2
<1>5. ASSUME NEW c \in CPUs, FlushMail(c) PROVE CpuFlags(e)'
  <2>1. /\ UNCHANGED <<mail, queued, unhandled, taken>> /\ at[c] = "send"
        /\ \/ at' = [at EXCEPT ![c] = "run"]
           \/ at' = [at EXCEPT ![c] = "await"]
    BY <1>5, FlushMailEffect
  <2> QED  BY <1>0, <1>t, <2>1, FlagsKept
<1>6. ASSUME NEW c \in CPUs, FlushDone(c) PROVE CpuFlags(e)'
  BY <1>0, <1>t, <1>6, FlagsKept DEF FlushDone, mailVars, handleVars, Goto
<1>7. ASSUME NEW c \in CPUs, NEW d \in CPUs, EnqueueRemote(c, d) PROVE CpuFlags(e)'
  BY <1>0, <1>t, <1>7, FlagsKept DEF EnqueueRemote, mailVars, handleVars, Goto
<1>8. ASSUME NEW c \in CPUs, NEW d \in CPUs, SendResched(c, d) PROVE CpuFlags(e)'
  <2>1. /\ at[c] = "resched" /\ UNCHANGED taken
        /\ \/ at' = [at EXCEPT ![c] = "run"] /\ UNCHANGED <<mail, queued, unhandled>>
           \/ /\ at' = [at EXCEPT ![c] = "ipi"] /\ ~Busy(d, "RESCHED")
              /\ mail' = [mail EXCEPT ![d] = Append(@, "RESCHED")]
              /\ queued' = [queued EXCEPT ![d] = @ \cup {"RESCHED"}]
              /\ unhandled' = [unhandled EXCEPT ![d] = @ \cup {"RESCHED"}]
    BY <1>8 DEF SendResched, Post, mailVars, handleVars, Goto
  <2>2. CASE at' = [at EXCEPT ![c] = "run"] /\ UNCHANGED <<mail, queued, unhandled>>
    BY <1>0, <1>t, <2>1, <2>2, FlagsKept
  <2>3. CASE /\ at' = [at EXCEPT ![c] = "ipi"] /\ ~Busy(d, "RESCHED")
             /\ mail' = [mail EXCEPT ![d] = Append(@, "RESCHED")]
             /\ queued' = [queued EXCEPT ![d] = @ \cup {"RESCHED"}]
             /\ unhandled' = [unhandled EXCEPT ![d] = @ \cup {"RESCHED"}]
    <3>1. CASE e # d
      BY <1>0, <1>t, <2>1, <2>3, <3>1, FlagsKept
    <3>2. CASE e = d
      <4>1. /\ mail'[e] = Append(mail[e], "RESCHED") /\ queued'[e] = queued[e] \cup {"RESCHED"}
            /\ unhandled'[e] = unhandled[e] \cup {"RESCHED"} /\ taken'[e] = taken[e]
            /\ ~Busy(e, "RESCHED") /\ "RESCHED" \in Kinds
        BY <1>t, <2>1, <2>3, <3>2 DEF Kinds
      <4>2. mail[e] \in Seq(Kinds)  BY <1>t
      <4>3. /\ IsInjective(Append(mail[e], "RESCHED"))
            /\ Range(Append(mail[e], "RESCHED")) = Range(mail[e]) \cup {"RESCHED"}
        BY SMTT(30), <1>0, <4>1, <4>2, AppendToList DEF CpuFlags, Busy
      <4>4. (at'[e] = "apply") <=> (at[e] = "apply")  BY <1>t, <2>1, <2>3
      <4> QED  BY <1>0, <4>1, <4>3, <4>4 DEF CpuFlags, Busy
    <3> QED  BY <3>1, <3>2
  <2> QED  BY <2>1, <2>2, <2>3
<1>9. ASSUME NEW c \in CPUs, SendIpi(c) PROVE CpuFlags(e)'
  BY <1>0, <1>t, <1>9, FlagsKept DEF SendIpi, mailVars, handleVars, Goto
<1>10. ASSUME NEW c \in CPUs, Deliver(c) PROVE CpuFlags(e)'
  BY <1>0, <1>t, <1>10, FlagsKept DEF Deliver, mailVars, handleVars, Goto
<1>11. ASSUME NEW c \in CPUs, TakeMail(c) PROVE CpuFlags(e)'
  <2>1. CASE e = c  BY <1>0, <1>11, <2>1, FlagsTaken
  <2>2. CASE e # c
    BY <1>0, <1>t, <1>11, <2>2, FlagsKept DEF TakeMail, Goto
  <2> QED  BY <2>1, <2>2
<1>12. ASSUME NEW c \in CPUs, ApplyMail(c) PROVE CpuFlags(e)'
  <2>1. /\ at[c] = "apply" /\ at'[c] # "apply"
        /\ \A x \in CPUs : x # c => at'[x] = at[x] /\ taken'[x] = taken[x] /\ unhandled'[x] = unhandled[x]
        /\ unhandled'[c] = unhandled[c] \ {taken[c]}
        /\ UNCHANGED <<mail, queued>>
    BY <1>t, <1>12 DEF ApplyMail, Goto
  <2>2. CASE e = c  BY <1>0, <2>1, <2>2 DEF CpuFlags
  <2>3. CASE e # c  BY <1>0, <2>1, <2>3, FlagsKept
  <2> QED  BY <2>2, <2>3
<1>13. ASSUME NEW c \in CPUs, MailDrained(c) PROVE CpuFlags(e)'
  BY <1>0, <1>t, <1>13, FlagsKept DEF MailDrained, mailVars, handleVars, Goto
<1>14. ASSUME NEW c \in CPUs, EndHandler(c) PROVE CpuFlags(e)'
  BY <1>0, <1>t, <1>14, FlagsKept DEF EndHandler, mailVars, handleVars, Goto
<1>15. ASSUME NEW c \in CPUs, EnterSchedule(c) PROVE CpuFlags(e)'
  BY <1>0, <1>t, <1>15, FlagsKept DEF EnterSchedule, mailVars, handleVars, Goto
<1>16. ASSUME NEW c \in CPUs, NEW s \in Spaces, NEW m \in {"user", "kernel", "idle"}, PickTask(c, s, m) PROVE CpuFlags(e)'
  BY <1>0, <1>t, <1>16, FlagsKept DEF PickTask, mailVars, handleVars, Goto
<1>17. ASSUME NEW c \in CPUs, LoadCr3(c) PROVE CpuFlags(e)'
  BY <1>0, <1>t, <1>17, FlagsKept DEF LoadCr3, mailVars, handleVars, Goto
<1>18. ASSUME NEW c \in CPUs, ChangeMode(c) PROVE CpuFlags(e)'
  BY <1>0, <1>t, <1>18, FlagsKept DEF ChangeMode, mailVars, handleVars, Goto
<1>19. ASSUME NEW c \in CPUs, Panic(c) PROVE CpuFlags(e)'
  <2>1. PICK told \in SUBSET CPUs :
           /\ \A d \in told : ~Busy(d, "HALT")
           /\ mail' = [d \in CPUs |-> IF d \in told THEN Append(mail[d], "HALT") ELSE mail[d]]
           /\ queued' = [d \in CPUs |-> IF d \in told THEN queued[d] \cup {"HALT"} ELSE queued[d]]
           /\ unhandled' = [d \in CPUs |-> IF d \in told THEN unhandled[d] \cup {"HALT"}
                                                         ELSE unhandled[d]]
           /\ c \notin told /\ at[c] = "run" /\ at' = [at EXCEPT ![c] = "halted"]
           /\ taken' = taken
    BY <1>19 DEF Panic, Goto, handleVars
  <2>2. CASE e \notin told  BY <1>0, <1>t, <2>1, <2>2, FlagsKept
  <2>3. CASE e \in told
    <3>1. /\ mail'[e] = Append(mail[e], "HALT") /\ queued'[e] = queued[e] \cup {"HALT"}
          /\ unhandled'[e] = unhandled[e] \cup {"HALT"} /\ at'[e] = at[e] /\ taken'[e] = taken[e]
          /\ ~Busy(e, "HALT") /\ "HALT" \in Kinds
      BY <1>t, <2>1, <2>3 DEF Kinds
    <3> QED  BY <1>0, <3>1, FlagsPosted
  <2> QED  BY <2>2, <2>3
<1> QED
  BY <1>1, <1>2, <1>3, <1>4, <1>5, <1>6, <1>7, <1>8, <1>9, <1>10, <1>11, <1>12, <1>13, <1>14, <1>15, <1>16, <1>17, <1>18, <1>19 DEF Next, Step

(***************************************************************************)
(* The request to schedule.  reschedule_pending is set exactly while the   *)
(* mail of the request is unhandled or the handler still has to act on it; *)
(* an unhandled one has its IPI coming; a CPU that idles beside a task     *)
(* queued for it has a request pending or in the making; and a request is  *)
(* sent to one CPU (send_reschedule_mail).                                 *)
(***************************************************************************)
PendingExact ==
    \A d \in CPUs :
       /\ pending[d] <=> "RESCHED" \in unhandled[d] \/ resched[d]
       /\ resched[d] => "RESCHED" \notin unhandled[d] /\ at[d] \in {"handle", "apply", "tail", "halted"}

RequestSeen ==
    \A d \in CPUs : "RESCHED" \in unhandled[d] =>
       \/ ipi[d] \/ at[d] \in {"handle", "apply", "halted"}
       \/ \E c \in CPUs : at[c] = "ipi" /\ d \in todo[c]

NeedTold ==
    \A d \in CPUs : need[d] /\ mode[d] = "idle" =>
       \/ pending[d] \/ at[d] \in {"schedule", "halted"}
       \/ \E c \in CPUs : at[c] = "resched" /\ d \in todo[c]

OneTarget == \A c \in CPUs : at[c] = "resched" => \A d, e \in todo[c] : d = e

ToldInv == PendingExact /\ RequestSeen /\ NeedTold /\ OneTarget

\* The request is on its way: IdleIsTold follows.
LEMMA IdleIsToldFollows == TypeOK /\ ToldInv => IdleIsTold
<1> SUFFICES ASSUME TypeOK, ToldInv, NEW d \in CPUs, need[d], mode[d] = "idle", at[d] = "run"
             PROVE  ipi[d] \/ \E c \in CPUs : at[c] \in {"resched", "ipi"} /\ d \in todo[c]
  BY DEF IdleIsTold
<1>1. CASE \E c \in CPUs : at[c] = "resched" /\ d \in todo[c]
  BY <1>1
<1>2. CASE pending[d]
  <2>1. "RESCHED" \in unhandled[d]  BY <1>2 DEF ToldInv, PendingExact
  <2> QED  BY <2>1 DEF ToldInv, RequestSeen
<1> QED  BY <1>1, <1>2 DEF ToldInv, NeedTold

\* Every step keeps it.
LEMMA ToldStep == IInv /\ ToldInv /\ [Next]_vars => ToldInv'
<1> SUFFICES ASSUME IInv, ToldInv, [Next]_vars PROVE ToldInv'
  OBVIOUS
<1>t. TypeOK /\ MailFlags /\ PendingExact /\ RequestSeen /\ NeedTold /\ OneTarget  BY DEF IInv, ToldInv
<1>r. /\ unhandled \in [CPUs -> SUBSET Kinds] /\ pending \in [CPUs -> BOOLEAN] /\ ipi \in [CPUs -> BOOLEAN]
      /\ at \in [CPUs -> Labels] /\ resched \in [CPUs -> BOOLEAN] /\ todo \in [CPUs -> SUBSET CPUs]
      /\ mode \in [CPUs -> {"user", "kernel", "idle"}] /\ need \in [CPUs -> BOOLEAN]
  BY <1>t DEF TypeOK
<1> USE DEF ToldInv, PendingExact, RequestSeen, NeedTold, OneTarget, Goto, mailVars, flushVars, spaceVars, handleVars
<1>1. CASE UNCHANGED vars
  BY <1>1, <1>t DEF vars
<1>2. ASSUME NEW c \in CPUs, NEW s \in Spaces, BeginFlush(c, s) PROVE ToldInv'
  BY SMT, Z3, <1>t, <1>r, <1>2 DEF BeginFlush
<1>3. ASSUME NEW c \in CPUs, AcquireTlbLock(c) PROVE ToldInv'
  BY SMT, Z3, <1>t, <1>r, <1>3 DEF AcquireTlbLock
<1>4. ASSUME NEW c \in CPUs, NEW d \in CPUs, SendTlb(c, d) PROVE ToldInv'
  <2>1. /\ \A e \in CPUs : "RESCHED" \in unhandled'[e] <=> "RESCHED" \in unhandled[e]
        /\ \A e \in CPUs : at[e] # "send" => todo'[e] = todo[e]
        /\ UNCHANGED <<pending, resched, ipi, at, mode, need>>
    <3>1. CASE space[d] # work[c]
      BY SMT, Z3, <1>r, <1>4, <3>1 DEF SendTlb
    <3>2. CASE space[d] = work[c]
      BY SMT, Z3, <1>r, <1>4, <3>2 DEF SendTlb, Post
    <3> QED  BY <3>1, <3>2
  <2> QED  BY SMT, Z3, <1>t, <2>1
<1>5. ASSUME NEW c \in CPUs, FlushMail(c) PROVE ToldInv'
  <2>1. /\ at[c] = "send" /\ at'[c] \in {"run", "await"} /\ \A e \in CPUs : e # c => at'[e] = at[e]
        /\ \A e \in CPUs : ipi[e] => ipi'[e]
        /\ UNCHANGED <<unhandled, pending, resched, todo, mode, need>>
    <3>1. CASE sent[c] = {}
      BY SMT, Z3, <1>r, <1>5, <3>1 DEF FlushMail
    <3>2. CASE sent[c] # {}
      BY SMT, Z3, <1>r, <1>5, <3>2 DEF FlushMail
    <3> QED  BY <3>1, <3>2
  <2> QED  BY SMT, Z3, <1>t, <2>1
<1>6. ASSUME NEW c \in CPUs, FlushDone(c) PROVE ToldInv'
  BY SMT, Z3, <1>t, <1>r, <1>6 DEF FlushDone
<1>7. ASSUME NEW c \in CPUs, NEW d \in CPUs, EnqueueRemote(c, d) PROVE ToldInv'
  BY SMT, Z3, <1>t, <1>r, <1>7 DEF EnqueueRemote
<1>8. ASSUME NEW c \in CPUs, NEW d \in CPUs, SendResched(c, d) PROVE ToldInv'
  <2>1. CASE Busy(d, "RESCHED") \/ pending[d]
    <3>1. /\ at[c] = "resched" /\ at'[c] = "run" /\ \A e \in CPUs : e # c => at'[e] = at[e] /\ todo'[e] = todo[e]
          /\ UNCHANGED <<unhandled, pending, resched, ipi, mode, need>>
      BY SMT, Z3, <1>r, <1>8, <2>1 DEF SendResched
    <3>2. pending[d]  BY SMT, Z3, <1>t, <2>1 DEF MailFlags, Busy
    <3>3. d \in todo[c] /\ \A e \in todo[c] : e = d  BY <1>t, <1>8 DEF SendResched
    <3>10. PendingExact'  BY <1>t, <3>1, <3>2, <3>3
    <3>11. RequestSeen'  BY <1>t, <3>1, <3>2, <3>3
    <3>12. NeedTold'  BY SMT, Z3, <1>t, <3>1, <3>2, <3>3
    <3>13. OneTarget'  BY SMT, Z3, <1>t, <3>1, <3>2, <3>3
    <3> QED  BY <3>10, <3>11, <3>12, <3>13
  <2>2. CASE ~(Busy(d, "RESCHED") \/ pending[d])
    <3>1. /\ at[c] = "resched" /\ d \in todo[c] /\ at'[c] = "ipi" /\ \A e \in CPUs : e # c => at'[e] = at[e]
          /\ unhandled'[d] = unhandled[d] \cup {"RESCHED"} /\ pending'[d]
          /\ \A e \in CPUs : e # d => unhandled'[e] = unhandled[e] /\ pending'[e] = pending[e]
          /\ UNCHANGED <<todo, resched, ipi, mode, need>>
      BY SMT, Z3, <1>r, <1>8, <2>2 DEF SendResched, Post
    <3>10. PendingExact'  BY <1>t, <2>2, <3>1
    <3>11. RequestSeen'  BY SMT, Z3, <1>t, <2>2, <3>1
    <3>12. NeedTold'  BY SMT, Z3, <1>t, <2>2, <3>1
    <3>13. OneTarget'  BY <1>t, <2>2, <3>1
    <3> QED  BY <3>10, <3>11, <3>12, <3>13
  <2> QED  BY <2>1, <2>2
<1>9. ASSUME NEW c \in CPUs, SendIpi(c) PROVE ToldInv'
  BY SMT, Z3, <1>t, <1>r, <1>9 DEF SendIpi
<1>10. ASSUME NEW c \in CPUs, Deliver(c) PROVE ToldInv'
  BY SMT, Z3, <1>t, <1>r, <1>10 DEF Deliver
<1>11. ASSUME NEW c \in CPUs, TakeMail(c) PROVE ToldInv'
  BY SMT, Z3, <1>t, <1>r, <1>11 DEF TakeMail
<1>12. ASSUME NEW c \in CPUs, ApplyMail(c) PROVE ToldInv'
  <2>1. /\ at[c] = "apply" /\ at'[c] = (IF taken[c] = "HALT" THEN "halted" ELSE "handle")
        /\ \A e \in CPUs : e # c => at'[e] = at[e] /\ unhandled'[e] = unhandled[e] /\ resched'[e] = resched[e]
        /\ unhandled'[c] = unhandled[c] \ {taken[c]}
        /\ resched'[c] <=> resched[c] \/ taken[c] = "RESCHED"
        /\ UNCHANGED <<pending, ipi, todo, mode, need>>
    BY <1>r, <1>12 DEF ApplyMail
  <2>2. taken[c] \in unhandled[c]  BY <1>t, <2>1 DEF MailFlags
  <2>10. PendingExact'
    <3> SUFFICES ASSUME NEW e \in CPUs
                 PROVE  /\ pending'[e] <=> "RESCHED" \in unhandled'[e] \/ resched'[e]
                        /\ resched'[e] => /\ "RESCHED" \notin unhandled'[e]
                                          /\ at'[e] \in {"handle", "apply", "tail", "halted"}
      OBVIOUS
    <3>1. CASE e # c  BY <1>t, <2>1, <3>1
    <3>2. CASE e = c /\ taken[c] = "RESCHED"  BY <1>t, <2>1, <2>2, <3>2
    <3>3. CASE e = c /\ taken[c] # "RESCHED"  BY <1>t, <2>1, <2>2, <3>3
    <3> QED  BY <3>1, <3>2, <3>3
  <2>11. RequestSeen'  BY SMT, Z3, <1>t, <2>1, <2>2
  <2>12. NeedTold'  BY SMT, Z3, <1>t, <2>1, <2>2
  <2>13. OneTarget'  BY SMT, Z3, <1>t, <2>1, <2>2
  <2> QED  BY <2>10, <2>11, <2>12, <2>13
<1>13. ASSUME NEW c \in CPUs, MailDrained(c) PROVE ToldInv'
  <2>1. /\ at[c] = "handle" /\ at'[c] = "tail" /\ mail[c] = <<>> /\ \A e \in CPUs : e # c => at'[e] = at[e]
        /\ UNCHANGED <<unhandled, pending, resched, ipi, todo, mode, need>>
    BY <1>r, <1>13 DEF MailDrained
  <2>2. Range(<<>>) = {}  BY SMT, Z3, EmptySeq DEF Range
  <2>3. unhandled[c] = {}  BY SMT, Z3, <1>t, <2>1, <2>2 DEF MailFlags
  <2> QED  BY SMT, Z3, <1>t, <2>1, <2>3
<1>14. ASSUME NEW c \in CPUs, EndHandler(c) PROVE ToldInv'
  <2>1. /\ at[c] = "tail" /\ at'[c] = (IF resched[c] /\ mode[c] # "kernel" THEN "schedule" ELSE "run")
        /\ \A e \in CPUs : e # c => at'[e] = at[e] /\ pending'[e] = pending[e] /\ resched'[e] = resched[e]
        /\ pending'[c] = (pending[c] /\ ~resched[c]) /\ resched'[c] = FALSE
        /\ UNCHANGED <<unhandled, ipi, todo, mode, need>>
    BY <1>r, <1>14 DEF EndHandler
  <2>10. PendingExact'  BY <1>t, <1>r, <2>1
  <2>11. RequestSeen'  BY SMT, Z3, <1>t, <1>r, <2>1
  <2>12. NeedTold'  BY SMT, Z3, <1>t, <1>r, <2>1
  <2>13. OneTarget'  BY SMT, Z3, <1>t, <1>r, <2>1
  <2> QED  BY <2>10, <2>11, <2>12, <2>13
<1>15. ASSUME NEW c \in CPUs, EnterSchedule(c) PROVE ToldInv'
  BY SMT, Z3, <1>t, <1>r, <1>15 DEF EnterSchedule
<1>16. ASSUME NEW c \in CPUs, NEW s \in Spaces, NEW m \in {"user", "kernel", "idle"}, PickTask(c, s, m) PROVE ToldInv'
  BY SMT, Z3, <1>t, <1>r, <1>16 DEF PickTask
<1>17. ASSUME NEW c \in CPUs, LoadCr3(c) PROVE ToldInv'
  BY SMT, Z3, <1>t, <1>r, <1>17 DEF LoadCr3
<1>18. ASSUME NEW c \in CPUs, ChangeMode(c) PROVE ToldInv'
  BY SMT, Z3, <1>t, <1>r, <1>18 DEF ChangeMode
<1>19. ASSUME NEW c \in CPUs, Panic(c) PROVE ToldInv'
  BY SMT, Z3, <1>t, <1>r, <1>19 DEF Panic
<1> HIDE DEF ToldInv
<1> QED
  BY <1>1, <1>2, <1>3, <1>4, <1>5, <1>6, <1>7, <1>8, <1>9, <1>10, <1>11, <1>12, <1>13, <1>14, <1>15, <1>16, <1>17, <1>18, <1>19 DEF Next, Step

\* The initial states satisfy the inductive invariant.
LEMMA InitInv == Init => IInv
<1> SUFFICES ASSUME Init PROVE IInv
  OBVIOUS
<1>1. TypeOK  BY SMTT(30) DEF Init, TypeOK, Labels
<1>2. MailFlags
  <2>1. Range(<<>>) = {} /\ IsInjective(<<>>)  BY SMT, Z3, EmptySeq DEF Range, IsInjective
  <2> QED  BY <2>1 DEF Init, MailFlags
<1>3. LockInv /\ OwnerInv /\ SpaceInv /\ StaleInv
  BY CpuAssumption DEF Init, LockInv, OwnerInv, SpaceInv, StaleInv
<1> QED  BY <1>1, <1>2, <1>3 DEF IInv

\* It is an invariant of the mail protocols.
LEMMA Inductive == Spec => []IInv
<1>1. IInv /\ [Next]_vars => IInv'
  <2> SUFFICES ASSUME IInv, [Next]_vars PROVE IInv'
    OBVIOUS
  <2> QED  BY TypeStep, FlagsStep, LockStep, OwnerStep, SpaceStep, StaleStep DEF IInv
<1> QED  BY InitInv, <1>1, PTL DEF Spec

\* So is what is said of requests to schedule.
LEMMA ToldInductive == Spec => []ToldInv
<1>1. Init => ToldInv
  BY DEF Init, ToldInv, PendingExact, RequestSeen, NeedTold, OneTarget
<1>2. IInv /\ ToldInv /\ [Next]_vars => ToldInv'  BY ToldStep
<1> QED  BY Inductive, <1>1, <1>2, PTL DEF Spec

\* Type correctness: no handler or sender of mail leaves a variable outside its
\* type, for any number of CPUs.
THEOREM TypeCorrect == Spec => []TypeOK
<1>1. IInv => TypeOK  BY DEF IInv
<1> QED  BY Inductive, <1>1, PTL

\* For any number of CPUs, queued and handled of every mail object agree with
\* the lists, though sender, panicking CPU and handler write them in separate
\* sections.
THEOREM MailFlagsAgree == Spec => []MailFlags
<1>1. IInv => MailFlags  BY DEF IInv
<1> QED  BY Inductive, <1>1, PTL

\* The assertions of flush_tlb on the target's mail object never fail.
THEOREM ShootdownMailFree == Spec => []ShootdownFree
BY Inductive, ShootdownFreeFollows, PTL

\* flush_tlb returns only when no CPU can use a translation it has replaced,
\* for any number of CPUs flushing, scheduling and panicking at the same time.
THEOREM ShootdownComplete == Spec => []FlushedEverywhere
<1>1. IInv => FlushedEverywhere  BY DEF IInv, StaleInv, Accounted, FlushedEverywhere
<1> QED  BY Inductive, <1>1, PTL

\* A CPU that idles beside a task another one has queued for it is always told,
\* for any number of CPUs: neither the coalescing of requests through
\* reschedule_pending nor the handler's deferral in kernel mode loses one.
THEOREM IdleCpuTold == Spec => []IdleIsTold
<1>1. IInv => TypeOK  BY DEF IInv
<1> QED  BY Inductive, ToldInductive, IdleIsToldFollows, <1>1, PTL
=============================================================================
