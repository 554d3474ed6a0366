----------------------------- MODULE BlockCache -----------------------------
(***************************************************************************)
(* The block cache of file/fs.cpp (block_read, block_write) over one block *)
(* device: write-through, with entries on a free list or an LRU list,      *)
(* hashed by block, and a device read that is done without the lock, while *)
(* the entry is marked loading.  A section under block_cache_lock is one   *)
(* step.  The content of a block is the number of writes it has seen.      *)
(* A read is a run of blocks; its first block may be read in part.         *)
(***************************************************************************)
EXTENDS Naturals, Sequences, FiniteSets, SequencesExt

CONSTANTS Threads, Entries, None,
          Blocks,       \* 0..n-1
          MaxRun,       \* the longest read, in blocks
          MaxWrites,    \* bound on the writes of a block
          Readahead,    \* BLOCK_READAHEAD_BLOCKS
          DirectMin,    \* BLOCK_CACHE_DIRECT_TAIL_MIN, in blocks
          DeviceFails,  \* a device read may come up short
          Unmounts      \* the device is unmounted now and then

VARIABLES dev,     \* the device
          entry,   \* block_cache
          lru,     \* block_cache_lru_head .. tail
          free,    \* block_cache_free_head ..
          call     \* what each thread is doing

vars == <<dev, entry, lru, free, call>>

Blank == [block |-> 0, valid |-> FALSE, loading |-> FALSE, hashed |-> FALSE, discard |-> FALSE, data |-> 0]
Idle == [pc |-> "idle", cur |-> 0, last |-> 0, part |-> FALSE, ahead |-> 0, entry |-> None,
         run |-> 0, data |-> <<>>, ok |-> TRUE, got |-> <<>>, since |-> [b \in Blocks |-> 0], first |-> 0]

Init ==
    /\ dev = [b \in Blocks |-> 0]
    /\ entry = [e \in Entries |-> Blank]
    /\ lru = <<>>
    /\ free \in {s \in [1..Cardinality(Entries) -> Entries] : IsInjective(s)}
    /\ call = [t \in Threads |-> Idle]

\* block_cache_find_locked.
Holding(b) == {e \in Entries : entry[e].hashed /\ entry[e].block = b /\ (entry[e].valid \/ entry[e].loading)}
Loaded(b) == {e \in Holding(b) : ~entry[e].loading}

\* Mutant: an entry that is given up stays marked as loading.
FreedLoading(en) == [Blank EXCEPT !.block = en.block, !.data = en.data, !.loading = en.loading, !.hashed = en.loading]

\* An entry as block_cache_free_push_locked leaves it.
Freed(en) == [Blank EXCEPT !.block = en.block, !.data = en.data]

Without(s, e) == SelectSeq(s, LAMBDA x : x # e)
ToFront(s, e) == <<e>> \o Without(s, e)

\* block_cache_pick_locked: from the free list, or the least recently used
\* entry that is not loading.
Picked ==
    IF free # <<>> THEN {Head(free)}
    ELSE LET idle == SelectSeq(lru, LAMBDA e : ~entry[e].loading)
         IN IF idle = <<>> THEN {} ELSE {Last(idle)}

To(t, pc) == call' = [call EXCEPT ![t].pc = pc]

-----------------------------------------------------------------------------
\* cached_block_read.

\* What the writes that are complete have left on the device.
Settled ==
    [b \in Blocks |-> dev[b] - Cardinality({t \in Threads : call[t].pc = "invalidate" /\ call[t].cur = b})]

Read(t, first, last, part) ==
    /\ call[t].pc = "idle"
    /\ first \in Blocks /\ last \in Blocks /\ last - first \in 0..MaxRun - 1
    /\ call' = [call EXCEPT ![t] = [Idle EXCEPT !.pc = "next", !.first = first, !.cur = first,
                                                !.last = last, !.part = part,
                                                !.since = Settled]]
    /\ UNCHANGED <<dev, entry, lru, free>>

\* How many of the blocks from b on are in S before the first that is not.
RunOf(S, b, last) ==
    LET lengths == {n \in 0..last - b + 1 : b..b + n - 1 \subseteq S}
    IN CHOOSE n \in lengths : \A m \in lengths : m <= n

HotRun(t) == RunOf({b \in Blocks : Loaded(b) # {}}, call[t].cur, call[t].last)
ColdRun(t) == RunOf({b \in Blocks : Holding(b) = {}}, call[t].cur, call[t].last)

Advance(t, n, data) ==
    call' = [call EXCEPT ![t].got = @ \o data, ![t].cur = @ + n, ![t].part = FALSE,
                         ![t].data = <<>>,
                         ![t].pc = IF call[t].cur + n > call[t].last \/ ~call[t].ok THEN "done" ELSE "next"]

\* A long aligned rest is read straight from the device.
Left(t) == call[t].last - call[t].cur + 1

Direct(t, n) ==
    /\ call[t].pc = "next" /\ ~call[t].part /\ Left(t) >= DirectMin
    /\ n = Left(t) \/ (DeviceFails /\ n < Left(t))
    /\ call' = [call EXCEPT ![t].got = @ \o [i \in 1..n |-> dev[call[t].cur + i - 1]], ![t].pc = "done"]
    /\ UNCHANGED <<dev, entry, lru, free>>

\* block_cache_copy_hot_run.
CopyHot(t) ==
    LET n == HotRun(t)
        at(i) == CHOOSE e \in Loaded(call[t].cur + i - 1) : TRUE
    IN /\ call[t].pc = "next" /\ ~call[t].part /\ Left(t) < DirectMin /\ n > 0
       /\ Advance(t, n, [i \in 1..n |-> entry[at(i)].data])
       /\ lru' = FoldLeft(LAMBDA s, i : ToFront(s, at(i)), lru, [i \in 1..n |-> i])
       /\ UNCHANGED <<dev, entry, free>>

NoneHot(t) ==
    /\ call[t].pc = "next" /\ ~call[t].part /\ Left(t) < DirectMin /\ HotRun(t) = 0
    /\ To(t, "cold")
    /\ UNCHANGED <<dev, entry, lru, free>>

\* A run of uncached blocks is read from the device in one request,
BatchRead(t) ==
    /\ call[t].pc = "cold" /\ ColdRun(t) >= 2
    /\ call' = [call EXCEPT ![t].pc = "batch", ![t].run = ColdRun(t)]
    /\ UNCHANGED <<dev, entry, lru, free>>

BatchIo(t, n) ==
    /\ call[t].pc = "batch"
    /\ n = call[t].run \/ (DeviceFails /\ n < call[t].run)
    /\ call' = [call EXCEPT ![t].pc = IF n = 0 THEN "done" ELSE "install", ![t].run = n, ![t].ok = n = call[t].run,
                            ![t].data = [i \in 1..n |-> dev[call[t].cur + i - 1]]]
    /\ UNCHANGED <<dev, entry, lru, free>>

\* and installed in the cache block by block, as far as there are entries
\* (block_cache_install_read_run).
Installed(s, b, data) ==
    LET here == {e \in Entries : s.entry[e].hashed /\ s.entry[e].block = b /\ (s.entry[e].valid \/ s.entry[e].loading)}
        idle == SelectSeq(s.lru, LAMBDA e : ~s.entry[e].loading)
        e == IF here # {} THEN CHOOSE x \in here : TRUE
             ELSE IF s.free # <<>> THEN Head(s.free)
             ELSE IF idle # <<>> THEN Last(idle) ELSE None
    IN IF e = None THEN s
       ELSE IF here # {} /\ s.entry[e].loading
       THEN [s EXCEPT !.entry[e].discard = TRUE]
       ELSE [entry |-> [s.entry EXCEPT ![e] = [Blank EXCEPT !.block = b, !.valid = TRUE,
                                                            !.hashed = TRUE, !.data = data]],
             lru |-> ToFront(s.lru, e), free |-> Without(s.free, e)]

Install(t) ==
    LET c == call[t]
        s == FoldLeft(LAMBDA a, i : Installed(a, c.cur + i - 1, c.data[i]),
                      [entry |-> entry, lru |-> lru, free |-> free], [i \in 1..c.run |-> i])
    IN /\ c.pc = "install"
       /\ entry' = s.entry /\ lru' = s.lru /\ free' = s.free
       /\ Advance(t, c.run, c.data)
       /\ UNCHANGED dev

\* A block that is read in part, or alone, goes through block_cache_load.
GoLoad(t) ==
    /\ \/ call[t].pc = "next" /\ call[t].part
       \/ call[t].pc = "cold" /\ ColdRun(t) < 2
    /\ To(t, "load")
    /\ UNCHANGED <<dev, entry, lru, free>>

\* The block a load is for: the current one, or one of the read-ahead.
Target(t) == call[t].cur + call[t].ahead

\* Where a load goes on: the copy of the block, or the rest of the read-ahead.
AfterLoad(t) == IF call[t].ahead = 0 THEN "copy" ELSE "ahead"

LoadHit(t) ==
    /\ call[t].pc = "load" /\ Loaded(Target(t)) # {}
    /\ \E e \in Loaded(Target(t)) : lru' = ToFront(lru, e)
    /\ To(t, AfterLoad(t))
    /\ UNCHANGED <<dev, entry, free>>

\* The spin while somebody else loads the block, or no entry can be reused.
LoadWait(t) ==
    /\ call[t].pc = "load"
    /\ \/ Holding(Target(t)) # {} /\ Loaded(Target(t)) = {}
       \/ Holding(Target(t)) = {} /\ Picked = {}
    /\ UNCHANGED vars

\* An entry is taken for the block, and hashed, before the device is read.
LoadMiss(t) ==
    /\ call[t].pc = "load" /\ Holding(Target(t)) = {}
    /\ \E e \in Picked :
          /\ entry' = [entry EXCEPT ![e] = [Blank EXCEPT !.block = Target(t), !.loading = TRUE,
                                                         !.hashed = TRUE, !.data = entry[e].data]]
          /\ lru' = ToFront(lru, e)
          /\ free' = Without(free, e)
          /\ call' = [call EXCEPT ![t].pc = "io", ![t].entry = e]
    /\ UNCHANGED dev

\* The device read into the entry, without the lock.
LoadIo(t, ok) ==
    /\ call[t].pc = "io" /\ (ok \/ DeviceFails)
    /\ entry' = [entry EXCEPT ![call[t].entry].data = IF ok THEN dev[Target(t)] ELSE @]
    /\ call' = [call EXCEPT ![t].pc = "loaded", ![t].ok = ok]
    /\ UNCHANGED <<dev, lru, free>>

\* Mutant: a load that was invalidated meanwhile is kept.
DiscardsFailed(t) == ~call[t].ok

Discards(t) == ~call[t].ok \/ entry[call[t].entry].discard

\* The load is over: the entry becomes valid, or is freed; then the read ends
\* (a read-ahead just goes on).
LoadDone(t) ==
    LET e == call[t].entry IN
    /\ call[t].pc = "loaded"
    /\ IF ~Discards(t)
       THEN /\ entry' = [entry EXCEPT ![e].loading = FALSE, ![e].valid = TRUE]
            /\ lru' = ToFront(lru, e)
            /\ UNCHANGED free
            /\ call' = [call EXCEPT ![t].pc = AfterLoad(t), ![t].entry = None]
       ELSE /\ entry' = [entry EXCEPT ![e] = Freed(@)]
            /\ lru' = Without(lru, e)
            /\ free' = <<e>> \o free
            /\ call' = [call EXCEPT ![t].pc = IF call[t].ahead = 0 THEN "done" ELSE "ahead",
                                    ![t].ok = TRUE, ![t].entry = None]
    /\ UNCHANGED dev

\* The entry to copy from, looked up again under the lock.
Copyable(t) == Loaded(call[t].cur)

Copy(t) ==
    /\ call[t].pc = "copy"
    /\ IF Copyable(t) = {}
       THEN To(t, "next") /\ UNCHANGED lru
       ELSE \E e \in Copyable(t) :
               /\ lru' = ToFront(lru, e)
               /\ call' = [call EXCEPT ![t].got = Append(@, entry[e].data),
                             ![t].ahead = IF call[t].cur < call[t].last THEN 1 ELSE 0,
                             ![t].pc = IF call[t].cur < call[t].last THEN "prefetch" ELSE "done"]
    /\ UNCHANGED <<dev, entry, free>>

\* block_cache_prefetch: the next blocks of the read that are not there.
Prefetch(t) ==
    /\ call[t].pc \in {"prefetch", "ahead"}
    /\ LET a == IF call[t].pc = "ahead" THEN call[t].ahead + 1 ELSE call[t].ahead
       IN IF a > Readahead \/ call[t].cur + a > call[t].last
          THEN call' = [call EXCEPT ![t].pc = "next", ![t].ahead = 0, ![t].cur = @ + 1, ![t].part = FALSE]
          ELSE call' = [call EXCEPT ![t].ahead = a,
                          ![t].pc = IF Holding(call[t].cur + a) = {} THEN "load" ELSE "ahead"]
    /\ UNCHANGED <<dev, entry, lru, free>>

Return(t) ==
    /\ call[t].pc = "done"
    /\ call' = [call EXCEPT ![t] = Idle]
    /\ UNCHANGED <<dev, entry, lru, free>>

-----------------------------------------------------------------------------
\* cached_block_write of one block: the device first, then the cache.

Write(t, b) ==
    /\ call[t].pc = "idle" /\ dev[b] < MaxWrites
    /\ dev' = [dev EXCEPT ![b] = @ + 1]
    /\ call' = [call EXCEPT ![t].pc = "invalidate", ![t].cur = b]
    /\ UNCHANGED <<entry, lru, free>>

\* block_cache_invalidate, for one entry.
Invalidated(en) ==
    IF en.loading THEN [en EXCEPT !.valid = FALSE, !.discard = TRUE]
    ELSE Freed(en)

Drop(hit) ==
    LET freed == {e \in hit : ~entry[e].loading /\ e \notin Range(free)}
    IN /\ entry' = [e \in Entries |-> IF e \in hit THEN Invalidated(entry[e]) ELSE entry[e]]
       /\ lru' = SelectSeq(lru, LAMBDA e : e \notin freed)
       /\ free' = SetToSeq(freed) \o free

Invalidate(t) ==
    /\ call[t].pc = "invalidate"
    /\ Drop({e \in Entries : entry[e].block = call[t].cur})
    /\ call' = [call EXCEPT ![t] = Idle]
    /\ UNCHANGED dev

\* block_cache_invalidate_node, when the device is unmounted.
InvalidateNode(t) ==
    /\ Unmounts /\ call[t].pc = "idle" /\ Range(lru) # {}
    /\ Drop(Entries)
    /\ UNCHANGED <<dev, call>>

Step(t) ==
    \/ Direct(t, Left(t)) \/ CopyHot(t) \/ NoneHot(t) \/ BatchRead(t) \/ BatchIo(t, call[t].run) \/ Install(t)
    \/ GoLoad(t) \/ LoadHit(t) \/ LoadMiss(t) \/ LoadIo(t, TRUE) \/ LoadDone(t)
    \/ Copy(t) \/ Prefetch(t) \/ Return(t) \/ Invalidate(t)

Next ==
    \E t \in Threads :
       \/ \E first, last \in Blocks, part \in BOOLEAN : Read(t, first, last, part)
       \/ \E b \in Blocks : Write(t, b)
       \/ LoadIo(t, FALSE)
       \/ \E n \in 0..MaxRun - 1 : Direct(t, n) \/ BatchIo(t, n)
       \/ InvalidateNode(t)
       \/ LoadWait(t)
       \/ Step(t)

Spec == Init /\ [][Next]_vars

-----------------------------------------------------------------------------
TypeOK ==
    /\ \A e \in Entries : entry[e].block \in Blocks /\ entry[e].data \in 0..MaxWrites
    /\ \A t \in Threads : call[t].entry \in Entries \cup {None} /\ Len(call[t].got) <= MaxRun

\* The lists and the hash agree, whoever evicts, invalidates or fails to load
\* meanwhile: an entry is on exactly one list, one on the free list is not
\* hashed, one that is valid or loading is, at most one entry stands for a
\* block, and a loading entry is loaded by exactly one thread.
Structure ==
    /\ IsInjective(lru) /\ IsInjective(free)
    /\ Range(lru) \cap Range(free) = {} /\ Range(lru) \cup Range(free) = Entries
    /\ \A e \in Entries : /\ entry[e].hashed = (entry[e].valid \/ entry[e].loading)
                          /\ e \in Range(free) => ~entry[e].hashed
                          /\ Cardinality({t \in Threads : call[t].entry = e})
                                = IF entry[e].loading THEN 1 ELSE 0
    /\ \A b \in Blocks : Cardinality(Holding(b)) <= 1

\* Cached data is the device's, except between the two halves of a write of
\* the block (cached_block_write, block_cache_invalidate and the discard of
\* loads it crosses).
Coherent ==
    \A e \in Entries : entry[e].valid =>
       \/ entry[e].data = dev[entry[e].block]
       \/ \E t \in Threads : call[t].pc = "invalidate" /\ call[t].cur = entry[e].block

\* No read returns data older than the last write that was complete when the
\* read began.
FreshReads ==
    \A t \in Threads : \A i \in DOMAIN call[t].got :
       call[t].got[i] >= call[t].since[call[t].first + i - 1]

=============================================================================
