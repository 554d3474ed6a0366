------------------------------ MODULE UsbCore ------------------------------
(***************************************************************************)
(* Hot-plugging of USB devices: usb_core.c (the device list, the address   *)
(* bitmap, enumeration, binding, removal, root-port scans, interrupt-pipe  *)
(* polling), usb_hub.c (hub_scan and its work) and the port-change half of *)
(* ehci.c (ehci_irq, ehci_port_connected, ehci_port_reset).                *)
(*                                                                         *)
(* Everything but the interrupt and the registration of a class driver     *)
(* runs on the one worker of the work queue: its call stack is `stack`,    *)
(* innermost frame first.  A step is one transfer, one critical section of *)
(* usb_lock, or a walk that only the worker could disturb (the removal of  *)
(* a subtree).  Devices are plugged and unplugged between any two steps.   *)
(*                                                                         *)
(* A transfer goes to an address: it is answered by the device that holds  *)
(* that address behind enabled ports, and fails when there is none.  A     *)
(* device that is present answers (`Faulty` devices are not modelled).     *)
(***************************************************************************)
EXTENDS Naturals, Sequences, FiniteSets, SequencesExt

CONSTANTS
    RootPorts,   \* ports of the host controller
    MaxDevs,     \* usb_device structures alive at once
    MaxAddr,     \* 127 in the code
    MaxPlugs     \* bound on the number of devices ever plugged in

VARIABLES
    phys,        \* what sits in each socket (environment)
    plugs,       \* number of devices plugged in so far
    irq,         \* EHCI_STS_PCD is raised and not yet handled
    delayed,     \* works on the delayed list
    queue,       \* works on the queue of the worker
    stack,       \* the worker's call stack
    dev,         \* the usb_device structures
    devices,     \* the list `devices`, newest first
    bitmap,      \* hcd->address_bitmap, a set of addresses
    next,        \* next_address
    drivers,     \* classes with a registered driver
    walk,        \* usb_driver_register: devices still to visit
    tpc,         \* usb_driver_register: where the registering thread is
    pipes,       \* hubs with a registered interrupt pipe
    polling      \* poll_started

vars == <<phys, plugs, irq, delayed, queue, stack, dev, devices, bitmap, next,
          drivers, walk, tpc, pipes, polling>>
envVars == <<phys, plugs, irq>>
workVars == <<delayed, queue, pipes, polling>>
coreVars == <<dev, devices, bitmap, next>>
regVars == <<drivers, walk, tpc>>

Devs   == 1..MaxDevs
Places == {<<r>> : r \in RootPorts} \cup {<<r, 1>> : r \in RootPorts}
Root(p) == <<p[1]>>

\* Nothing in a socket, no structure in a slot.
Empty == [kind |-> "none", inc |-> 0, addr |-> 0, enabled |-> FALSE, change |-> FALSE]
Freed == [place |-> <<>>, inc |-> 0, addr |-> 0, kind |-> "none", drv |-> "none"]

Plugged(p) == phys[p].kind # "none"
\* The devices that answer a transfer to address a: behind enabled ports.
Reach(a) == {p \in Places : /\ Plugged(p) /\ phys[p].enabled /\ phys[p].addr = a
                            /\ phys[Root(p)].enabled}
Works == {<<"scan">>, <<"poll">>, <<"stale">>} \cup {<<"hub", d>> : d \in Devs}

\* usb_hcd_register, before any device is noticed: the bitmap is clear, the
\* controller is registered and its first scan is on the delayed list.  The
\* hub driver is registered; the other class driver comes at any time.
Init ==
    /\ phys = [p \in Places |-> Empty] /\ plugs = 0 /\ irq = FALSE
    /\ delayed = {<<"scan">>} /\ queue = {} /\ stack = <<>>
    /\ dev = [d \in Devs |-> Freed] /\ devices = <<>> /\ bitmap = {} /\ next = 1
    /\ drivers = {"hub"} /\ walk = <<>> /\ tpc = "idle"
    /\ pipes = {} /\ polling = FALSE

-----------------------------------------------------------------------------
(* The environment and the interrupt.                                      *)

\* A device is plugged into a free socket; below a hub, only while the hub
\* has power.  A root port raises the port-change status of the controller,
\* a hub port sets its connection-change bit.  A hub only sits in a root port,
\* and not while a driver is being registered: the registering thread would run
\* hub_bind beside the worker.
Plug(p, k) ==
    /\ plugs < MaxPlugs /\ ~Plugged(p)
    /\ Len(p) = 2 => phys[Root(p)].kind = "hub" /\ k # "hub"
    /\ k = "hub" => tpc = "done"
    /\ plugs' = plugs + 1
    /\ phys' = [phys EXCEPT ![p] = [kind |-> k, inc |-> plugs + 1, addr |-> 0,
                                    enabled |-> FALSE, change |-> Len(p) = 2]]
    /\ irq' = (irq \/ Len(p) = 1)
    /\ UNCHANGED <<workVars, stack, coreVars, regVars>>

\* A device, with all that hangs on it, is pulled out.  Not while a driver is
\* being registered: usb_driver_register walks the list without the lock.
Unplug(p) ==
    /\ Plugged(p) /\ tpc = "done"
    /\ phys' = [q \in Places |->
                  CASE q = p -> [Empty EXCEPT !.change = Len(p) = 2]
                    [] q # p /\ Len(p) = 1 /\ Root(q) = p -> Empty
                    [] OTHER -> phys[q]]
    /\ irq' = (irq \/ Len(p) = 1)
    /\ UNCHANGED <<plugs, workVars, stack, coreVars, regVars>>

\* Mutant: a work that is on the queue or running is refused as well.
QueueUnlessBusy(w) ==
    delayed' = IF w \in queue \/ (stack # <<>> /\ Last(stack).work = w) THEN delayed ELSE delayed \cup {w}

\* kernel_queue_delayed_work: refused (-2) while the work is on the delayed
\* list, whatever the queue holds.
QueueDelayed(w) == delayed' = delayed \cup {w}

\* ehci_irq: acknowledge the change, schedule a scan.
EhciIrq ==
    /\ irq /\ irq' = FALSE
    /\ QueueDelayed(<<"scan">>)
    /\ UNCHANGED <<phys, plugs, queue, pipes, polling, stack, coreVars, regVars>>

\* queue_ready_delayed moves a work that is due, unless it is on the queue or
\* running: frames of the stack whose work is w.
RunsNow(w) == stack # <<>> /\ Last(stack).work = w
Ready(w) ==
    /\ w \in delayed /\ w \notin queue /\ ~RunsNow(w)
    /\ delayed' = delayed \ {w} /\ queue' = queue \cup {w}
    /\ UNCHANGED <<envVars, pipes, polling, stack, coreVars, regVars>>

-----------------------------------------------------------------------------
(* The worker.                                                             *)

Top == Head(stack)
Frame(op) == stack # <<>> /\ Top.op = op
At(op, pc) == Frame(op) /\ Top.pc = pc
Goto(pc) == stack' = <<[Top EXCEPT !.pc = pc]>> \o Tail(stack)
Pop == stack' = Tail(stack)
ScanFrame == [op |-> "scan", pc |-> "port", work |-> <<"scan">>, todo |-> RootPorts,
              d |-> 0, place |-> <<>>, st |-> Empty]
HubFrame(h, w) == [op |-> "hub", pc |-> "status", work |-> w, todo |-> {}, d |-> h,
                   place |-> Append(dev[h].place, 1), st |-> Empty]
EnumFrame(d, p, w) == [op |-> "enum", pc |-> "desc8", work |-> w, todo |-> {}, d |-> d,
                       place |-> p, st |-> Empty]

\* hub_intr: the hubs whose pipe reports a change of a port when it is polled.
Told == {h \in pipes : Reach(dev[h].addr) # {} /\ phys[Append(dev[h].place, 1)].change}

\* worker_main takes a work.  A scan begins with the first port.  hub_scan_work
\* and poll_fn of live hubs run.  The work of a hub freed while its work was on
\* the queue still finds it inactive and returns: freed memory is taken not to
\* be in use again before the worker gets to it.
TakeWork(w) ==
    /\ stack = <<>> /\ w \in queue
    /\ queue' = queue \ {w}
    /\ CASE w[1] = "scan" -> /\ stack' = <<ScanFrame>>
                             /\ UNCHANGED <<delayed, polling>>
         [] w[1] = "hub"  -> /\ stack' = <<HubFrame(w[2], w)>>
                             /\ UNCHANGED <<delayed, polling>>
         [] w[1] = "stale" -> UNCHANGED <<stack, delayed, polling>>
         [] w[1] = "poll" ->
              \* each pipe is polled: hub_intr queues the hub's scan when a port
              \* of the hub changed; poll_work goes back while there are pipes.
              /\ delayed' = delayed \cup {<<"hub", h>> : h \in Told}
                                    \cup (IF pipes = {} THEN {} ELSE {<<"poll">>})
              /\ polling' = (pipes # {})
              /\ UNCHANGED stack
    /\ UNCHANGED <<envVars, pipes, coreVars, regVars>>

\* The listed devices below p, p itself included when self.
Below(p, self) == {d \in Range(devices) :
                     /\ Len(dev[d].place) >= Len(p)
                     /\ SubSeq(dev[d].place, 1, Len(p)) = p
                     /\ dev[d].place # p \/ self}

\* hub_unbind for the hubs of S: it cancels the delayed scan (one on the queue
\* stays) and takes the pipe away.
HubUnbind(S) ==
    /\ delayed' = delayed \ {<<"hub", d>> : d \in S}
    /\ queue' = {IF w[1] = "hub" /\ w[2] \in S THEN <<"stale">> ELSE w : w \in queue}
    /\ pipes' = pipes \ S

\* remove_device_tree, unlink_device_locked and free_device over the devices of
\* set S: each is unlinked, gives back its address, is unbound and freed.
RemoveAll(S) ==
    /\ devices' = SelectSeq(devices, LAMBDA d : d \notin S)
    /\ bitmap' = bitmap \ {dev[d].addr : d \in S}
    /\ dev' = [d \in Devs |-> IF d \in S THEN Freed ELSE dev[d]]
    /\ HubUnbind(S)
    /\ UNCHANGED <<next, polling>>

\* reserve_address_locked: the first free address from next_address on, going
\* round once; 0 when all are taken.
Turn(k) == 1 + ((next - 1 + k) % MaxAddr)
Tries == {k \in 0..(MaxAddr - 1) : Turn(k) \notin bitmap}
FirstTry == CHOOSE k \in Tries : \A j \in Tries : k <= j
\* enumerate_device up to the first transfer: an address and a structure.
\* Without a free address the call returns -1.
Reserve(p, rest) ==
    IF Tries = {} THEN /\ stack' = rest
                       /\ UNCHANGED coreVars
    ELSE LET d == CHOOSE x \in Devs : dev[x] = Freed
             a == Turn(FirstTry)
         IN /\ bitmap' = bitmap \cup {a}
            /\ next' = Turn(FirstTry + 1)
            /\ dev' = [dev EXCEPT ![d] = [Freed EXCEPT !.place = p]]
            /\ stack' = <<[EnumFrame(d, p, Head(rest).work) EXCEPT !.todo = {a}]>> \o rest
            /\ UNCHANGED devices

\* root_device_exists_locked and child_device_exists_locked.
Exists(p) == \E d \in Range(devices) : dev[d].place = p

\* ehci_port_reset of a connected port: the device answers address 0.
ResetPort(p) == phys' = [phys EXCEPT ![p].enabled = TRUE, ![p].addr = 0]

\* usb_hcd_scan, enumerate_root_port: a gone device is removed with its tree; a
\* new one has its port reset and is enumerated.
ScanPort ==
    /\ At("scan", "port") /\ Top.todo # {}
    /\ LET r == CHOOSE x \in Top.todo : \A y \in Top.todo : x <= y
           p == <<r>>
           rest == <<[Top EXCEPT !.todo = @ \ {r}]>> \o Tail(stack)
       IN \/ /\ Exists(p) /\ ~Plugged(p)
             /\ RemoveAll(Below(p, TRUE)) /\ stack' = rest
             /\ UNCHANGED phys
          \/ /\ Exists(p) <=> Plugged(p)
             /\ stack' = rest
             /\ UNCHANGED <<phys, coreVars, workVars>>
          \/ /\ ~Exists(p) /\ Plugged(p)
             /\ ResetPort(p)
             /\ stack' = <<[Top EXCEPT !.todo = @ \ {r}, !.pc = "enum", !.place = p]>> \o Tail(stack)
             /\ UNCHANGED <<coreVars, workVars>>
    /\ UNCHANGED <<plugs, irq, regVars>>

\* enumerate_root_port goes on to enumerate_device.
ScanEnum ==
    /\ At("scan", "enum")
    /\ Reserve(Top.place, <<[Top EXCEPT !.pc = "port"]>> \o Tail(stack))
    /\ UNCHANGED <<envVars, workVars, regVars>>

\* usb_hcd_scan_work returns.
ScanEnd ==
    /\ At("scan", "port") /\ Top.todo = {}
    /\ Pop
    /\ UNCHANGED <<envVars, workVars, coreVars, regVars>>

\* enumerate_device gives up: free_device, then the address is released.
EnumFail ==
    /\ dev' = [dev EXCEPT ![Top.d] = Freed]
    /\ bitmap' = bitmap \ Top.todo
    /\ Pop
    /\ UNCHANGED <<phys, devices, next>>

\* The first eight bytes of the device descriptor, from address 0.
EnumDesc8 ==
    /\ At("enum", "desc8")
    /\ \/ /\ Reach(0) = {} /\ EnumFail
       \/ \E p \in Reach(0) :
            /\ dev' = [dev EXCEPT ![Top.d].inc = phys[p].inc]
            /\ Goto("address")
            /\ UNCHANGED <<phys, devices, bitmap, next>>
    /\ UNCHANGED <<plugs, irq, workVars, regVars>>

\* set_address, after which the device answers its own address.
SetAddress ==
    /\ At("enum", "address")
    /\ \/ /\ Reach(0) = {} /\ EnumFail
       \/ \E p \in Reach(0), a \in Top.todo :
            /\ phys' = [phys EXCEPT ![p].addr = a]
            /\ dev' = [dev EXCEPT ![Top.d].addr = a]
            /\ Goto("config")
            /\ UNCHANGED <<devices, bitmap, next>>
    /\ UNCHANGED <<plugs, irq, workVars, regVars>>

\* parse_config: the descriptors of the device at p say what it is.
Parsed(p) == [dev EXCEPT ![Top.d].kind = phys[p].kind]
\* The descriptors, parse_config and set_configuration: the device is known.
EnumConfig ==
    /\ At("enum", "config")
    /\ LET R == Reach(dev[Top.d].addr) IN
       \/ /\ R = {} /\ EnumFail
       \/ \E p \in R : /\ dev' = Parsed(p)
                       /\ Goto("link")
                       /\ UNCHANGED <<phys, devices, bitmap, next>>
    /\ UNCHANGED <<plugs, irq, workVars, regVars>>

\* The device goes on the list.
EnumLink ==
    /\ At("enum", "link")
    /\ devices' = <<Top.d>> \o devices
    /\ Goto("bind")
    /\ UNCHANGED <<envVars, workVars, dev, bitmap, next, regVars>>

\* bind_interface, first section: the interface is claimed for the driver of
\* its class, if one is registered and nobody claimed it.
Claims(d) == dev[d].kind \in drivers /\ dev[d].drv \in {"none", "failed"}
EnumClaim ==
    /\ At("enum", "bind")
    /\ IF Claims(Top.d) THEN /\ dev' = [dev EXCEPT ![Top.d].drv = "claimed"]
                             /\ Goto("probe")
                        ELSE Pop /\ UNCHANGED dev
    /\ UNCHANGED <<envVars, workVars, devices, bitmap, next, regVars>>

\* usb_queue_poll_if_needed.
QueuePoll == delayed' = delayed \cup (IF polling THEN {} ELSE {<<"poll">>}) /\ polling' = TRUE
\* hub_bind registers the pipe, which starts the polling, and scans the hub at
\* once; the hub's work is queued when the scan ends.
HubBind(d) ==
    /\ pipes' = pipes \cup {d} /\ QueuePoll
    /\ stack' = <<HubFrame(d, Top.work)>> \o Tail(stack)
\* The driver's bind, and bind_interface's second section when it fails.
EnumProbe ==
    /\ At("enum", "probe")
    /\ LET d == Top.d
           ok == Reach(dev[d].addr) # {}
       IN /\ dev' = [dev EXCEPT ![d].drv = IF ok THEN "bound" ELSE "failed"]
          /\ IF ok /\ dev[d].kind = "hub" THEN HubBind(d)
             ELSE Pop /\ UNCHANGED <<pipes, polling, delayed>>
    /\ UNCHANGED <<envVars, queue, devices, bitmap, next, regVars>>

\* hub_scan, hub_get_status of the port: it goes to the hub.
HubStatus ==
    /\ At("hub", "status")
    /\ LET answered == Reach(dev[Top.d].addr) # {} IN
       stack' = <<[Top EXCEPT !.pc = IF answered THEN "clear" ELSE "end",
                              !.st = phys[Top.place]]>> \o Tail(stack)
    /\ UNCHANGED <<envVars, workVars, coreVars, regVars>>

\* hub_clear_changes: the change bits seen are cleared, if the hub answers.
Cleared == [phys EXCEPT ![Top.place].change =
              @ /\ ~(Top.st.change /\ Reach(dev[Top.d].addr) # {})]
HubClear ==
    /\ At("hub", "clear")
    /\ phys' = Cleared
    /\ Goto("act")
    /\ UNCHANGED <<plugs, irq, workVars, coreVars, regVars>>

\* What hub_scan does with the status: a gone device is removed; one that is
\* new, or whose port is not enabled, is removed and the port reset; then the
\* port is enumerated.
HubStale(st) == ~st.enabled \/ st.change
HubAct ==
    /\ At("hub", "act")
    /\ LET st == Top.st
           present == st.kind # "none"
       IN \/ /\ ~present \/ HubStale(st)
             /\ RemoveAll(Below(Top.place, TRUE))
             /\ Goto(IF present THEN "reset" ELSE "end")
          \/ /\ present /\ ~HubStale(st)
             /\ Goto("enumerate")
             /\ UNCHANGED <<coreVars, workVars>>
    /\ UNCHANGED <<envVars, regVars>>

\* hub_reset_port: the port is reset if the hub and a device are there ...
HubReset ==
    /\ At("hub", "reset")
    /\ IF Plugged(Top.place) /\ Reach(dev[Top.d].addr) # {} THEN ResetPort(Top.place) ELSE UNCHANGED phys
    /\ Goto("reset2")
    /\ UNCHANGED <<plugs, irq, workVars, coreVars, regVars>>

\* ... and read back, whatever came of it; the changes seen are cleared.
HubResetRead ==
    /\ At("hub", "reset2")
    /\ LET answered == Reach(dev[Top.d].addr) # {}
           st == phys[Top.place]
       IN /\ phys' = IF answered /\ st.change THEN [phys EXCEPT ![Top.place].change = FALSE]
                                              ELSE phys
          /\ Goto(IF answered /\ st.enabled THEN "enumerate" ELSE "end")
    /\ UNCHANGED <<plugs, irq, workVars, coreVars, regVars>>

\* usb_enumerate_hub_port.
HubEnumerate ==
    /\ At("hub", "enumerate")
    /\ LET rest == <<[Top EXCEPT !.pc = "end"]>> \o Tail(stack) IN
       IF Exists(Top.place) THEN stack' = rest /\ UNCHANGED coreVars
                            ELSE Reserve(Top.place, rest)
    /\ UNCHANGED <<envVars, workVars, regVars>>

\* The end of hub_bind or hub_scan_work: the hub's scan is queued again.
HubEnd ==
    /\ At("hub", "end")
    /\ QueueDelayed(<<"hub", Top.d>>)
    /\ Pop
    /\ UNCHANGED <<envVars, queue, pipes, polling, coreVars, regVars>>

-----------------------------------------------------------------------------
(* usb_driver_register of the second class driver, by a loading thread.    *)

\* The driver goes on the list and the device list is read, in one section.
RegisterDriver ==
    /\ tpc = "idle"
    /\ drivers' = drivers \cup {"disk"}
    /\ walk' = devices /\ tpc' = "walk"
    /\ UNCHANGED <<envVars, workVars, stack, coreVars>>

\* bind_interface of the next device of the walk: claim ...
RegClaim ==
    /\ tpc = "walk" /\ walk # <<>>
    /\ IF Claims(Head(walk))
       THEN /\ dev' = [dev EXCEPT ![Head(walk)].drv = "claimed"]
            /\ tpc' = "probe" /\ UNCHANGED walk
       ELSE /\ walk' = Tail(walk)
            /\ UNCHANGED <<dev, tpc>>
    /\ UNCHANGED <<envVars, workVars, stack, devices, bitmap, next, drivers>>

\* ... and bind.
RegProbe ==
    /\ tpc = "probe"
    /\ dev' = [dev EXCEPT ![Head(walk)].drv =
                 IF Reach(dev[Head(walk)].addr) # {} THEN "bound" ELSE "failed"]
    /\ walk' = Tail(walk) /\ tpc' = "walk"
    /\ UNCHANGED <<envVars, workVars, stack, devices, bitmap, next, drivers>>

RegEnd ==
    /\ tpc = "walk" /\ walk = <<>>
    /\ tpc' = "done"
    /\ UNCHANGED <<envVars, workVars, stack, coreVars, drivers, walk>>

-----------------------------------------------------------------------------
Worker ==
    \/ \E w \in Works : TakeWork(w)
    \/ ScanPort \/ ScanEnum \/ ScanEnd
    \/ EnumDesc8 \/ SetAddress \/ EnumConfig \/ EnumLink \/ EnumClaim \/ EnumProbe
    \/ HubStatus \/ HubClear \/ HubAct \/ HubReset \/ HubResetRead
    \/ HubEnumerate \/ HubEnd

Next ==
    \/ \E p \in Places, k \in {"hub", "disk"} : Plug(p, k)
    \/ \E p \in Places : Unplug(p)
    \/ EhciIrq
    \/ \E w \in Works : Ready(w)
    \/ Worker
    \/ RegisterDriver \/ RegClaim \/ RegProbe \/ RegEnd

Spec == Init /\ [][Next]_vars

-----------------------------------------------------------------------------
Listed == Range(devices)
InFlight == {stack[i] : i \in {j \in DOMAIN stack : stack[j].op = "enum"}}
Unlinked == {f \in InFlight : f.pc \in {"desc8", "address", "config", "link"}}

TypeOK ==
    /\ delayed \subseteq Works /\ queue \subseteq Works
    /\ bitmap \subseteq 1..MaxAddr /\ next \in 1..MaxAddr
    /\ Listed \subseteq Devs /\ pipes \subseteq Devs

\* The address bitmap of the controller holds the addresses of the listed
\* devices and of the enumerations under way and no other, each of them once:
\* every error path of enumerate_device and every removal gives back exactly
\* what it took (reserve_address_locked, release_address_locked).
AddressesExact ==
    LET used == [d \in Listed |-> dev[d].addr] IN
    /\ bitmap = {used[d] : d \in Listed} \cup UNION {f.todo : f \in Unlinked}
    /\ \A d, e \in Listed : d # e => used[d] # used[e]
    /\ \A d \in Listed, f \in Unlinked : used[d] \notin f.todo

\* No two devices on the bus answer the same address, and a transfer to the
\* address of a listed device is answered by that very device or by none, so
\* the descriptors, the driver and the data of one device are never those of
\* another one that took its socket or its address.
AnswersOwn ==
    /\ \A a \in 0..MaxAddr : Cardinality(Reach(a)) <= 1
    /\ \A d \in Listed : \A p \in Reach(dev[d].addr) :
         p = dev[d].place /\ phys[p].inc = dev[d].inc

\* The device list is a forest: one device per socket, a device behind a hub
\* only while the hub is listed and has its driver, and no freed structure
\* (remove_device_tree before free_device, hub_unbind).
ForestKept ==
    /\ \A d, e \in Listed : dev[d].place = dev[e].place => d = e
    /\ \A d \in Listed : /\ dev[d] # Freed
                         /\ Len(dev[d].place) = 2 =>
                              \E h \in Listed : /\ dev[h].place = Root(dev[d].place)
                                                /\ dev[h].kind = "hub" /\ dev[h].drv = "bound"
    /\ pipes \subseteq Listed

\* A change is never slept through.  When a socket and the list disagree, a
\* scan that will look at the socket is under way, queued or delayed, or the
\* interrupt is still to be handled: for a root port the controller's scan, for
\* a port of a hub the hub's own work (usb_hcd_schedule_scan, which may find the
\* work running, hub_scan_work and hub_bind, which queue it again).  And while a
\* hub has its pipe the poll work goes on.
Pending(w) == w \in delayed \/ w \in queue \/ RunsNow(w)
ScansHub(h) == \E i \in DOMAIN stack : /\ stack[i].op = "hub" /\ stack[i].d = h
ChangeNoticed ==
    /\ \A r \in RootPorts : Exists(<<r>>) # Plugged(<<r>>) => irq \/ Pending(<<"scan">>)
    /\ \A h \in Listed : dev[h].kind = "hub" /\ dev[h].drv = "bound" =>
         Pending(<<"hub", h>>) \/ ScansHub(h)
    /\ pipes # {} => polling /\ Pending(<<"poll">>)

\* A device and the driver of its class always find each other, whichever comes
\* first: once the enumeration and the registration are over, no listed device
\* with a registered driver is left unclaimed, and none stays claimed without
\* being bound (the order of list, claim and bind in enumerate_device and
\* usb_driver_register).
DriversMeet ==
    /\ (stack = <<>> /\ tpc \in {"idle", "done"}) =>
         \A d \in Listed : dev[d].kind \in drivers => dev[d].drv \in {"bound", "failed"}
    /\ \A d \in Listed : dev[d].drv = "claimed" =>
         \/ tpc = "probe" /\ Head(walk) = d
         \/ \E f \in InFlight : f.d = d /\ f.pc = "probe"

=============================================================================
