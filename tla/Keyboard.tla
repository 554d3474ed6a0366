------------------------------ MODULE Keyboard ------------------------------
(***************************************************************************)
(* module/kbd_core: one keyboard and its two event streams, the device's   *)
(* own ("dev", input/kbdN/events) and the aggregate of all keyboards       *)
(* ("all", input/events).  Scancodes arrive in interrupt context; every    *)
(* read generates the key repeats that are due before it pops; the driver  *)
(* may be unplugged at any moment.  A section under kbd->lock is one step  *)
(* (the push to the aggregate ring under kbd_global_lock is nested in it). *)
(* log is what was ever pushed to a ring, ring what the buffer still has.  *)
(* How a reader sleeps is the subject of WaitQueue.                        *)
(***************************************************************************)
EXTENDS Naturals, Sequences, FiniteSets, SequencesExt

CONSTANTS Readers, Scancodes,  \* base codes; "c" is a modifier key without text
          BufferSize,          \* KBD_EVENT_BUFFER_SIZE
          Delay, Period,       \* KBD_REPEAT_DELAY_TICKS, KBD_REPEAT_PERIOD_TICKS
          Batch,               \* most events one read asks for
          Opened,              \* the streams that readers open
          MaxTick, MaxLog      \* bounds: clock, events pushed

VARIABLES tick,
          life,       \* how far kbd_register and kbd_unregister have come
          online, down, ctrl, e0,
          repeat,     \* repeat_active, repeat_code, repeat_next_tick
          ring, log,
          reader      \* struct kbd_reader, and the read it is in

kbd == <<life, online, down, ctrl, e0, repeat>>
vars == <<tick, kbd, ring, log, reader>>

Streams == {"dev", "all"}
Codes == [ext : BOOLEAN, base : Scancodes]
NoCode == [ext |-> FALSE, base |-> "none"]
NoRepeat == [active |-> FALSE, code |-> NoCode, next |-> 0]
Closed == [pc |-> "closed", stream |-> "dev", next |-> 0, now |-> 0]
Event(kind, code) == [kind |-> kind, code |-> code, at |-> tick]
Dropped(n) == [kind |-> "DROPPED", code |-> NoCode, at |-> n]

Init ==
    /\ tick = 0
    /\ life = "absent" /\ online = FALSE
    /\ down = {} /\ ctrl = FALSE /\ e0 = FALSE
    /\ repeat = NoRepeat
    /\ ring = [s \in Streams |-> [first |-> 0, next |-> 0, data |-> [i \in 0..BufferSize - 1 |-> Dropped(0)]]]
    /\ log = [s \in Streams |-> <<>>]
    /\ reader = [r \in Readers |-> Closed]

Room == Len(log["dev"]) < MaxLog

\* ring_push.
Pushed(g, ev) ==
    [first |-> IF g.next + 1 - g.first > BufferSize THEN g.next + 1 - BufferSize ELSE g.first,
     next |-> g.next + 1, data |-> [g.data EXCEPT ![g.next % BufferSize] = ev]]

Push(to, ev) ==
    /\ ring' = [s \in Streams |-> IF s \in to THEN Pushed(ring[s], ev) ELSE ring[s]]
    /\ log' = [s \in Streams |-> IF s \in to THEN Append(log[s], ev) ELSE log[s]]

-----------------------------------------------------------------------------
\* kbd_register and kbd_unregister: emit_device_event pushes to the device's
\* ring and to the aggregate one in two sections.

\* devfs_register makes the device's stream visible before it is announced.
Register ==
    /\ life = "absent"
    /\ life' = "published" /\ online' = TRUE
    /\ UNCHANGED <<tick, down, ctrl, e0, repeat, ring, log, reader>>

\* Mutant: the device is announced removed without going offline first.
OnlineKept == TRUE

OnlineAfter == FALSE

Unregister ==
    /\ life = "up" /\ online
    /\ life' = "removing" /\ online' = OnlineAfter
    /\ UNCHANGED <<tick, down, ctrl, e0, repeat, ring, log, reader>>

EmitDevice(from, to, stream, kind) ==
    /\ life = from
    /\ life' = to
    /\ Push({stream}, Event(kind, NoCode))
    /\ UNCHANGED <<tick, online, down, ctrl, e0, repeat, reader>>

Announce ==
    \/ EmitDevice("published", "announced", "dev", "ADDED")
    \/ EmitDevice("announced", "up", "all", "ADDED")
    \/ EmitDevice("removing", "removed", "dev", "REMOVED")
    \/ EmitDevice("removed", "withdrawn", "all", "REMOVED")

\* devfs_unregister, and the slot of kbd_devices is cleared.
Withdraw ==
    /\ life = "withdrawn"
    /\ life' = "gone"
    /\ UNCHANGED <<tick, online, down, ctrl, e0, repeat, ring, log, reader>>

\* kbd_devices[index] is set: the aggregate stream's readers see the device.
Listed == life \notin {"absent", "published", "gone"}

-----------------------------------------------------------------------------
\* kbd_handle_scancode and kbd_handle_key.

\* The driver that was given the device by kbd_register may still be in its
\* interrupt handler when kbd_unregister runs.
Driven == life \notin {"absent", "published", "announced"}

\* The prefix bytes 0xE0 and 0xE1.
Prefix(b) ==
    /\ Driven /\ online /\ e0 # b
    /\ e0' = b
    /\ UNCHANGED <<tick, life, online, down, ctrl, repeat, ring, log, reader>>

HasText(code) == code.base # "c"

\* The tests for a key that already is where it should be.
Changes(code, pressed) == pressed # (code \in down)

EndsRepeat(code) == repeat.active /\ repeat.code = code

\* update_modifier.
CtrlAfter(code, pressed) == IF code.base = "c" THEN pressed ELSE ctrl

HandleKey(b, pressed) ==
    LET code == [ext |-> e0, base |-> b] IN
    /\ Driven /\ online /\ Room
    /\ e0' = FALSE
    /\ IF Changes(code, pressed)
       THEN /\ down' = IF pressed THEN down \cup {code} ELSE down \ {code}
            /\ ctrl' = CtrlAfter(code, pressed)
            /\ repeat' = IF pressed /\ HasText(code)
                         THEN [active |-> TRUE, code |-> code, next |-> tick + Delay]
                         ELSE IF ~pressed /\ EndsRepeat(code) THEN NoRepeat ELSE repeat
            /\ Push(Streams, Event(IF pressed THEN "PRESSED" ELSE "RELEASED", code))
       ELSE UNCHANGED <<down, ctrl, repeat, ring, log>>
    /\ UNCHANGED <<tick, life, online, reader>>

-----------------------------------------------------------------------------
\* event_open, reader_read and event_close.

Open(r, s) ==
    /\ reader[r].pc = "closed"
    /\ s = "dev" => online
    /\ reader' = [reader EXCEPT ![r] = [Closed EXCEPT !.pc = "open", !.stream = s, !.next = ring[s].next]]
    /\ UNCHANGED <<tick, kbd, ring, log>>

Close(r) ==
    /\ reader[r].pc = "open"
    /\ reader' = [reader EXCEPT ![r] = Closed]
    /\ UNCHANGED <<tick, kbd, ring, log>>

\* kbd_generate_due_repeats reads the clock and, for the aggregate stream,
\* the table of keyboards.
Read(r) ==
    /\ reader[r].pc = "open"
    /\ reader' = [reader EXCEPT ![r].pc = IF reader[r].stream = "dev" \/ Listed THEN "repeat" ELSE "pop",
                                ![r].now = tick]
    /\ UNCHANGED <<tick, kbd, ring, log>>

NextRepeat(r) == reader[r].now + Period

\* kbd_generate_one_repeat, with the time Read took.
GenerateRepeat(r) ==
    /\ reader[r].pc = "repeat"
    /\ IF online /\ repeat.active /\ repeat.next <= reader[r].now /\ Room
       THEN IF repeat.code \in down
            THEN /\ Push(Streams, Event("REPEATED", repeat.code))
                 /\ repeat' = [repeat EXCEPT !.next = NextRepeat(r)]
            ELSE repeat' = NoRepeat /\ UNCHANGED <<ring, log>>
       ELSE UNCHANGED <<repeat, ring, log>>
    /\ reader' = [reader EXCEPT ![r].pc = "pop"]
    /\ UNCHANGED <<tick, life, online, down, ctrl, e0>>

\* Mutant: a reader that fell behind goes on with the newest event.
ResyncNewest(g, n) == g.next

\* Where ring_pop_one continues for a reader that fell behind.
Resync(g, n) == g.first

\* ring_pop_one for a reader at sequence n: what it returns and where it ends.
Popped(g, n) ==
    IF n < g.first THEN [next |-> Resync(g, n), out |-> <<Dropped(g.first - n)>>]
    ELSE IF n >= g.next THEN [next |-> n, out |-> <<>>]
    ELSE [next |-> n + 1, out |-> <<g.data[n % BufferSize]>>]

\* The loop of reader_read: pop until the buffer of max events is full or the
\* ring is empty.
Batched(r, max) ==
    LET g == ring[reader[r].stream]
        state[k \in 0..max] == IF k = 0 THEN [next |-> reader[r].next, out |-> <<>>]
                               ELSE LET p == Popped(g, state[k - 1].next)
                                    IN [next |-> p.next, out |-> state[k - 1].out \o p.out]
    IN state[max]

\* The section of reader_read under the ring's lock.
Pop(r, max) ==
    /\ reader[r].pc = "pop"
    /\ reader' = [reader EXCEPT ![r].pc = "open", ![r].now = 0, ![r].next = Batched(r, max).next]
    /\ UNCHANGED <<tick, kbd, ring, log>>

Tick ==
    /\ tick < MaxTick
    /\ tick' = tick + 1
    /\ UNCHANGED <<kbd, ring, log, reader>>

Next ==
    \/ Register \/ Unregister \/ Announce \/ Withdraw \/ Tick
    \/ \E b \in BOOLEAN : Prefix(b)
    \/ \E b \in Scancodes, pressed \in BOOLEAN : HandleKey(b, pressed)
    \/ \E r \in Readers : \/ \E s \in Opened : Open(r, s)
                          \/ Close(r) \/ Read(r) \/ GenerateRepeat(r)
                          \/ \E max \in 1..Batch : Pop(r, max)

Spec == Init /\ [][Next]_vars

-----------------------------------------------------------------------------
TypeOK ==
    /\ tick \in 0..MaxTick /\ {online, ctrl, e0} \subseteq BOOLEAN
    /\ down \subseteq Codes
    /\ repeat.code \in Codes \cup {NoCode}
    /\ \A s \in Streams : ring[s].next - ring[s].first \in 0..BufferSize
    /\ \A r \in Readers : reader[r].next \in 0..ring[reader[r].stream].next

\* How far the items of a read take a reader that started at from.
Position(from, out) ==
    from + FoldSeq(LAMBDA e, n : n + IF e.kind = "DROPPED" THEN e.at ELSE 1, 0, out)

\* No event is lost in silence: a reader gets the events of its stream in the
\* order of their sequence numbers, and where the ring has overwritten some,
\* exactly that many are reported as dropped (ring_push, ring_pop_one).
LossReported ==
    \A r \in Readers, max \in 1..Batch : Pop(r, max) =>
       LET out == Batched(r, max).out
           before(i) == Position(reader[r].next, SubSeq(out, 1, i - 1))
       IN /\ \A i \in DOMAIN out : out[i].kind # "DROPPED" =>
                out[i] = log[reader[r].stream][before(i) + 1]
          /\ reader'[r].next = Position(reader[r].next, out)

\* The kinds of the events of one key, in order, and of the device itself.
History(s, code) == SelectSeq(log[s], LAMBDA e : e.code = code)

\* A stream tells a consistent story, whatever readers generate repeats while
\* keys change under them: each key's events are PRESSED, any number of
\* REPEATED, RELEASED, and so on; the device's are ADDED, REMOVED; no key
\* event precedes the one or follows the other (kbd_handle_key,
\* kbd_generate_one_repeat, kbd_register, kbd_unregister).
KeysAlternate ==
    \A s \in Streams :
       /\ \A code \in Codes : LET h == History(s, code) IN
             \A i \in DOMAIN h :
                LET before == IF i = 1 THEN "RELEASED" ELSE h[i - 1].kind
                IN (h[i].kind = "PRESSED") = (before = "RELEASED")
       /\ \A i \in DOMAIN log[s] : /\ (log[s][i].kind = "ADDED") = (i = 1)
                                   /\ log[s][i].kind = "REMOVED" => i = Len(log[s])

\* The aggregate stream tells of the device what the device's own stream
\* tells, in the same order, at most one announcement behind.
AggregateFollows ==
    IsPrefix([i \in DOMAIN log["all"] |-> [log["all"][i] EXCEPT !.at = 0]],
             [i \in DOMAIN log["dev"] |-> [log["dev"][i] EXCEPT !.at = 0]])

\* However many readers generate repeats, with however old a reading of the
\* clock, a held key does not repeat sooner than after the delay, nor more
\* often than once a period.
RepeatsBounded ==
    \A code \in Codes : LET h == History("dev", code) IN
       \A i, j \in DOMAIN h :
          (i < j /\ h[i].kind = "PRESSED" /\ \A k \in i + 1..j : h[k].kind = "REPEATED")
             => h[j].at >= h[i].at + Delay + (j - i - 1) * Period

\* No modifier sticks: it is set only while a key for it is down.
NoStuckModifier == ctrl => \E code \in down : code.base = "c"
=============================================================================
