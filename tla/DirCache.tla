------------------------------ MODULE DirCache ------------------------------
(***************************************************************************)
(* The directory cache of file/vfs.cpp over file systems whose directories *)
(* are looked up by a driver (tmpfs, ext2, vfat, exfat, minixfs): cached   *)
(* children, negative entries that hold while child_seq is unchanged, and  *)
(* the reference counts of the nodes vfs_create_fs_node makes.             *)
(* dir is what the drivers have; a mounted directory may be remounted      *)
(* with another file system.  A call is one step: no driver here sleeps.   *)
(***************************************************************************)
EXTENDS Naturals, TLAPS

CONSTANTS Dirs, Names,
          NegEntries,   \* VFS_NEG_CACHE_ENTRIES
          MaxSeq,       \* bound on child_seq
          MaxOpens,     \* bound on the references to one node
          Closing, Renaming, Remounting   \* which calls programs make

ASSUME CacheAssumption ==
    /\ NegEntries \in Nat \ {0} /\ MaxSeq \in Nat \ {0} /\ MaxOpens \in Nat \ {0}
    /\ {Closing, Renaming, Remounting} \subseteq BOOLEAN

VARIABLES dir,       \* the names the driver of each directory has
          child,      \* the cached children: their references, and whether freed
          neg,        \* neg_cache: name and child_seq of the failed lookups
          neg_next,   \* neg_cache_next
          child_seq

vars == <<dir, child, neg, neg_next, child_seq>>

NoEntry == [name |-> "none", seq |-> 0]
Uncached == [cached |-> FALSE, ref |-> 0, freed |-> FALSE]

\* vfs_create_fs_node: a zeroed node, hence without a reference.
NewNode == [cached |-> TRUE, ref |-> 0, freed |-> FALSE]

Init ==
    /\ dir \in [Dirs -> SUBSET Names]
    /\ child = [d \in Dirs |-> [n \in Names |-> Uncached]]
    /\ neg = [d \in Dirs |-> [i \in 0..(NegEntries - 1) |-> NoEntry]]
    /\ neg_next = [d \in Dirs |-> 0]
    /\ child_seq = [d \in Dirs |-> 1]

-----------------------------------------------------------------------------
\* Lookup (finddir_len).

\* neg_cache_hit_locked.
NegHit(d, n) == \E i \in DOMAIN neg[d] : neg[d][i] = [name |-> n, seq |-> child_seq[d]]

\* What a lookup of n in d can find: the cached node when there is one, nothing
\* after a negative hit, and otherwise what the driver has.  A node that was
\* freed while it is still linked is read as the heap left it: found or not.
Finds(d, n) ==
    IF child[d][n].cached THEN IF child[d][n].freed THEN {"found", "absent"} ELSE {"found"}
    ELSE IF NegHit(d, n) \/ n \notin dir[d] THEN {"absent"} ELSE {"found"}

NextSlot(i) == (i + 1) % NegEntries

\* The lookup changes the caches: a driver node is attached
\* (attach_child_if_needed), a miss is remembered (neg_cache_store).
LookupMiss(d, n) ==
    /\ ~child[d][n].cached /\ ~NegHit(d, n) /\ n \notin dir[d]
    /\ neg' = [neg EXCEPT ![d][neg_next[d]] = [name |-> n, seq |-> child_seq[d]]]
    /\ neg_next' = [neg_next EXCEPT ![d] = NextSlot(@)]
    /\ UNCHANGED <<dir, child, child_seq>>

\* The child list of d changes: child_seq moves on.
Relink(d, n, node) ==
    /\ child_seq[d] < MaxSeq
    /\ child' = [child EXCEPT ![d][n] = node]
    /\ child_seq' = [child_seq EXCEPT ![d] = @ + 1]

LookupAttach(d, n) ==
    /\ ~child[d][n].cached /\ ~NegHit(d, n) /\ n \in dir[d]
    /\ Relink(d, n, NewNode)
    /\ UNCHANGED <<dir, neg, neg_next>>

-----------------------------------------------------------------------------
\* Opening, closing, creating and removing.

\* sys_open: the reference of the open file (get_node).
Open(d, n) ==
    /\ child[d][n].cached /\ ~child[d][n].freed /\ child[d][n].ref < MaxOpens
    /\ child' = [child EXCEPT ![d][n].ref = @ + 1]
    /\ UNCHANGED <<dir, neg, neg_next, child_seq>>

\* close_fd of a file whose node is still linked: put_node destroys the node
\* at its last reference, and does not unlink it.
Close(d, n) ==
    /\ Closing
    /\ child[d][n].cached /\ child[d][n].ref > 0
    /\ child' = [child EXCEPT ![d][n] =
                  [child[d][n] EXCEPT !.ref = @ - 1, !.freed = child[d][n].ref = 1]]
    /\ UNCHANGED <<dir, neg, neg_next, child_seq>>

\* create_at of a name the lookup does not find and the driver can make; the
\* new node is attached, and opened.
Create(d, n) ==
    /\ ~child[d][n].cached /\ n \notin dir[d]
    /\ dir' = [dir EXCEPT ![d] = @ \cup {n}]
    /\ Relink(d, n, [NewNode EXCEPT !.ref = @ + 1])
    /\ UNCHANGED <<neg, neg_next>>

\* detach_cached_child_len: the cached child, if any, leaves the list.
Detached(d, n) == IF child[d][n].cached THEN 1 ELSE 0

\* Mutant: the cached child stays.
DropNothing(c, d, n) == c

Drop(c, d, n) == [c EXCEPT ![d][n] = Uncached]

\* unlink_at through the driver.
Unlink(d, n) ==
    /\ n \in dir[d]
    /\ child_seq[d] + Detached(d, n) <= MaxSeq
    /\ dir' = [dir EXCEPT ![d] = @ \ {n}]
    /\ child' = Drop(child, d, n)
    /\ child_seq' = [child_seq EXCEPT ![d] = @ + Detached(d, n)]
    /\ UNCHANGED <<neg, neg_next>>

\* rename_at through the driver, to a name it does not have: what is cached
\* under either name is detached.
Rename(d, n, e, m) ==
    /\ Renaming
    /\ n \in dir[d] /\ m \notin dir[e]
    /\ child_seq[d] + 1 < MaxSeq /\ child_seq[e] + 1 < MaxSeq
    /\ dir' = [[dir EXCEPT ![d] = @ \ {n}] EXCEPT ![e] = @ \cup {m}]
    /\ child' = Drop(Drop(child, d, n), e, m)
    /\ child_seq' = [[child_seq EXCEPT ![d] = @ + Detached(d, n)]
                         EXCEPT ![e] = @ + Detached(e, m)]
    /\ UNCHANGED <<neg, neg_next>>

\* fs_unmount and fs_mount of another file system on the same directory: the
\* child list is replaced, child_seq and the negative entries stay.
Remount(d, names) ==
    /\ Remounting
    /\ dir' = [dir EXCEPT ![d] = names]
    /\ child' = [child EXCEPT ![d] = [n \in Names |-> Uncached]]
    /\ UNCHANGED <<neg, neg_next, child_seq>>

Next ==
    \E d \in Dirs :
       \/ \E n \in Names : \/ LookupMiss(d, n) \/ LookupAttach(d, n)
                           \/ Open(d, n) \/ Close(d, n) \/ Create(d, n) \/ Unlink(d, n)
                           \/ \E e \in Dirs, m \in Names : Rename(d, n, e, m)
       \/ \E names \in SUBSET Names : Remount(d, names)

Spec == Init /\ [][Next]_vars

-----------------------------------------------------------------------------
Node == [cached : BOOLEAN, ref : 0..MaxOpens, freed : BOOLEAN]
Entry == [name : Names \cup {"none"}, seq : 0..MaxSeq]

TypeOK ==
    /\ dir \in [Dirs -> SUBSET Names]
    /\ child \in [Dirs -> [Names -> Node]]
    /\ neg \in [Dirs -> [0..(NegEntries - 1) -> Entry]]
    /\ neg_next \in [Dirs -> 0..(NegEntries - 1)]
    /\ child_seq \in [Dirs -> 1..MaxSeq]

\* Files stay open, and are neither renamed nor remounted.
Still == ~Closing /\ ~Renaming /\ ~Remounting

\* What a lookup should find.
Answer(d, n) == IF n \in dir[d] THEN "found" ELSE "absent"

\* A file that exists opens, and one that does not exist does not: a lookup
\* answers what the driver has, from whichever cache it answers, as long as
\* files stay open and are not renamed; and a name that has been removed or
\* renamed away is gone: a cached child is always one the driver has, whatever
\* is renamed, unlinked or remounted (finddir_len, create_at, unlink_at).
LookupTruth ==
    /\ \A d \in Dirs, n \in Names : child[d][n].cached => n \in dir[d]
    /\ Still => \A d \in Dirs, n \in Names : Finds(d, n) = {Answer(d, n)}

-----------------------------------------------------------------------------
(***************************************************************************)
(* Why a lookup is answered right.  No node is freed while it is linked, a *)
(* negative entry that counts is about a name that the driver has not, and *)
(* no entry is newer than child_seq, so that a change of the child list    *)
(* makes every entry of the directory old.                                 *)
(***************************************************************************)
CacheInv ==
    /\ TypeOK
    /\ \A d \in Dirs, n \in Names : child[d][n].cached => n \in dir[d]
    /\ \A d \in Dirs, i \in 0..(NegEntries - 1) : neg[d][i].seq <= child_seq[d]
    /\ Still => /\ \A d \in Dirs, n \in Names : ~child[d][n].freed
                /\ \A d \in Dirs, i \in 0..(NegEntries - 1) :
                      neg[d][i].seq = child_seq[d] => neg[d][i].name \notin dir[d]

\* A negative hit is one of the entries.
LEMMA HitIsEntry ==
    ASSUME TypeOK, NEW d \in Dirs, NEW n
    PROVE  NegHit(d, n) <=> \E i \in 0..(NegEntries - 1) : neg[d][i].name = n /\ neg[d][i].seq = child_seq[d]
<1>1. DOMAIN neg[d] = 0..(NegEntries - 1) /\ \A i \in 0..(NegEntries - 1) : neg[d][i] \in Entry
  BY DEF TypeOK
<1>2. \A e \in Entry : e = [name |-> n, seq |-> child_seq[d]] <=> e.name = n /\ e.seq = child_seq[d]
  BY DEF Entry
<1> QED  BY <1>1, <1>2 DEF NegHit

\* The inductive invariant gives the answer of a lookup.
LEMMA TruthFollows == CacheInv => LookupTruth
<1> SUFFICES ASSUME CacheInv PROVE LookupTruth
  OBVIOUS
<1>1. ASSUME Still, NEW d \in Dirs, NEW n \in Names PROVE Finds(d, n) = {Answer(d, n)}
  <2>1. ~child[d][n].freed  BY <1>1 DEF CacheInv
  <2>2. child[d][n].cached => n \in dir[d]  BY DEF CacheInv
  <2>3. NegHit(d, n) => n \notin dir[d]
    <3>1. TypeOK  BY DEF CacheInv
    <3> QED  BY <1>1, <3>1, HitIsEntry DEF CacheInv
  <2> QED  BY <2>1, <2>2, <2>3 DEF Finds, Answer
<1> QED  BY <1>1 DEF LookupTruth, CacheInv

\* A new node or none in a place of the child lists.
LEMMA ChildPut ==
    ASSUME TypeOK, NEW d \in Dirs, NEW n \in Names, NEW x \in Node
    PROVE  /\ [child EXCEPT ![d][n] = x] \in [Dirs -> [Names -> Node]]
           /\ \A e \in Dirs, m \in Names :
                 [child EXCEPT ![d][n] = x][e][m] = IF e = d /\ m = n THEN x ELSE child[e][m]
BY DEF TypeOK

\* The nodes that the calls put there.
LEMMA Nodes ==
    /\ Uncached \in Node /\ ~Uncached.cached /\ ~Uncached.freed
    /\ NewNode \in Node /\ ~NewNode.freed
    /\ [NewNode EXCEPT !.ref = @ + 1] \in Node /\ ~[NewNode EXCEPT !.ref = @ + 1].freed
<1>1. 0 \in 0..MaxOpens /\ 1 \in 0..MaxOpens  BY CacheAssumption
<1>2. Uncached \in Node /\ ~Uncached.cached /\ ~Uncached.freed  BY <1>1 DEF Uncached, Node
<1>3. NewNode \in Node /\ ~NewNode.freed /\ NewNode.ref = 0  BY <1>1 DEF NewNode, Node
<1>4. [NewNode EXCEPT !.ref = @ + 1] \in Node /\ ~[NewNode EXCEPT !.ref = @ + 1].freed
  BY <1>1, <1>3 DEF Node
<1> QED  BY <1>2, <1>3, <1>4

\* The child list of d changes in one place, and child_seq moves on: whatever
\* else stays, the entries of d do not count any more.
LEMMA RelinkStep ==
    ASSUME CacheInv, NEW d \in Dirs, NEW n \in Names, NEW x \in Node, Relink(d, n, x), ~x.freed,
           dir' \in [Dirs -> SUBSET Names], n \in dir'[d], dir[d] \subseteq dir'[d],
           \A e \in Dirs \ {d} : dir'[e] = dir[e],
           UNCHANGED <<neg, neg_next>>
    PROVE  CacheInv'
<1>1. TypeOK  BY DEF CacheInv
<1>2. /\ child' \in [Dirs -> [Names -> Node]]
      /\ \A e \in Dirs, m \in Names : child'[e][m] = IF e = d /\ m = n THEN x ELSE child[e][m]
  BY <1>1, ChildPut DEF Relink
<1>3. /\ child_seq' \in [Dirs -> 1..MaxSeq] /\ child_seq'[d] = child_seq[d] + 1
      /\ \A e \in Dirs \ {d} : child_seq'[e] = child_seq[e]
  BY <1>1, CacheAssumption DEF Relink, TypeOK
<1>4. TypeOK'  BY <1>1, <1>2, <1>3 DEF TypeOK
<1>5. \A e \in Dirs, m \in Names : child'[e][m].cached => m \in dir'[e]
  <2> SUFFICES ASSUME NEW e \in Dirs, NEW m \in Names, child'[e][m].cached PROVE m \in dir'[e]
    OBVIOUS
  <2>1. CASE e = d /\ m = n  BY <2>1
  <2>2. CASE ~(e = d /\ m = n)
    <3>1. m \in dir[e]  BY <1>2, <2>2 DEF CacheInv
    <3> QED  BY <3>1
  <2> QED  BY <2>1, <2>2
<1>6. \A e \in Dirs, i \in 0..(NegEntries - 1) : neg[e][i].seq \in Nat /\ neg[e][i].seq <= child_seq[e]
  <2>1. \A e \in Dirs, i \in 0..(NegEntries - 1) : neg[e][i] \in Entry  BY <1>1 DEF TypeOK
  <2>2. \A x1 \in Entry : x1.seq \in Nat  BY CacheAssumption DEF Entry
  <2> QED  BY <2>1, <2>2 DEF CacheInv
<1>7. \A e \in Dirs : child_seq[e] \in Nat  BY <1>1 DEF TypeOK
<1>8. \A e \in Dirs, i \in 0..(NegEntries - 1) : neg'[e][i].seq <= child_seq'[e]
  BY <1>3, <1>6, <1>7
<1>9. ASSUME Still
      PROVE  /\ \A e \in Dirs, m \in Names : ~child'[e][m].freed
             /\ \A e \in Dirs, i \in 0..(NegEntries - 1) :
                   neg'[e][i].seq = child_seq'[e] => neg'[e][i].name \notin dir'[e]
  <2>1. \A e \in Dirs, m \in Names : ~child'[e][m].freed  BY <1>2, <1>9 DEF CacheInv
  <2>2. ASSUME NEW e \in Dirs, NEW i \in 0..(NegEntries - 1), neg'[e][i].seq = child_seq'[e]
        PROVE  neg'[e][i].name \notin dir'[e]
    <3>1. e # d  BY <1>3, <1>6, <1>7, <2>2
    <3> QED  BY <1>3, <1>9, <2>2, <3>1 DEF CacheInv
  <2> QED  BY <2>1, <2>2
<1> QED  BY <1>4, <1>5, <1>8, <1>9 DEF CacheInv

\* The caches are empty at first.
LEMMA CacheInit == Init => CacheInv
<1> SUFFICES ASSUME Init PROVE CacheInv
  OBVIOUS
<1>1. 1 \in 1..MaxSeq /\ 0 \in 0..MaxSeq /\ 0 \in 0..(NegEntries - 1)  BY CacheAssumption
<1>2. NoEntry \in Entry /\ NoEntry.seq = 0  BY <1>1 DEF NoEntry, Entry
<1>3. TypeOK  BY <1>1, <1>2, Nodes DEF Init, TypeOK
<1>4. \A d \in Dirs, n \in Names : child[d][n] = Uncached  BY DEF Init
<1>5. \A d \in Dirs, i \in 0..(NegEntries - 1) : neg[d][i].seq = 0 /\ child_seq[d] = 1
  BY <1>2 DEF Init
<1> QED  BY <1>3, <1>4, <1>5, Nodes DEF CacheInv

\* A miss is remembered with the present child_seq.
LEMMA MissStep ==
    ASSUME CacheInv, NEW d \in Dirs, NEW n \in Names, LookupMiss(d, n)
    PROVE  CacheInv'
<1> DEFINE e == [name |-> n, seq |-> child_seq[d]]
<1>1. TypeOK  BY DEF CacheInv
<1>2. e \in Entry /\ e.name = n /\ e.seq = child_seq[d]
  <2>1. child_seq[d] \in 0..MaxSeq  BY <1>1, CacheAssumption DEF TypeOK
  <2> QED  BY <2>1 DEF Entry
<1> HIDE DEF e
<1>3. neg' = [neg EXCEPT ![d][neg_next[d]] = e]  BY DEF LookupMiss, e
<1>4. /\ neg' \in [Dirs -> [0..(NegEntries - 1) -> Entry]]
      /\ \A x \in Dirs, i \in 0..(NegEntries - 1) :
            neg'[x][i] = IF x = d /\ i = neg_next[d] THEN e ELSE neg[x][i]
  BY <1>1, <1>2, <1>3 DEF TypeOK
<1>5. neg_next' \in [Dirs -> 0..(NegEntries - 1)]
  <2>1. NextSlot(neg_next[d]) \in 0..(NegEntries - 1)
    BY <1>1, CacheAssumption DEF TypeOK, NextSlot
  <2> QED  BY <1>1, <2>1 DEF TypeOK, LookupMiss
<1>6. dir' = dir /\ child' = child /\ child_seq' = child_seq /\ n \notin dir[d]  BY DEF LookupMiss
<1>7. TypeOK'  BY <1>1, <1>4, <1>5, <1>6 DEF TypeOK
<1>8. child_seq[d] <= child_seq[d]  BY <1>1 DEF TypeOK
<1>9. \A x \in Dirs, i \in 0..(NegEntries - 1) : neg'[x][i].seq <= child_seq'[x]
  BY <1>2, <1>4, <1>6, <1>8 DEF CacheInv
<1>10. ASSUME Still, NEW x \in Dirs, NEW i \in 0..(NegEntries - 1), neg'[x][i].seq = child_seq'[x]
       PROVE  neg'[x][i].name \notin dir'[x]
  BY <1>2, <1>4, <1>6, <1>10 DEF CacheInv
<1> QED  BY <1>6, <1>7, <1>9, <1>10 DEF CacheInv

\* What leaves a child list leaves nothing cached behind that the driver does
\* not have: unlink_at, rename_at and a remount.
LEMMA DetachStep ==
    ASSUME CacheInv, dir' \in [Dirs -> SUBSET Names], child' \in [Dirs -> [Names -> Node]],
           child_seq' \in [Dirs -> 1..MaxSeq],
           \A d \in Dirs : child_seq[d] <= child_seq'[d],
           \A d \in Dirs, n \in Names :
              child'[d][n] = Uncached \/ (child'[d][n] = child[d][n] /\ (n \in dir[d] => n \in dir'[d])),
           Still => \A d \in Dirs : dir'[d] \subseteq dir[d],
           UNCHANGED <<neg, neg_next>>
    PROVE  CacheInv'
<1>1. TypeOK  BY DEF CacheInv
<1>2. TypeOK'  BY <1>1 DEF TypeOK
<1>3. \A d \in Dirs, n \in Names : child'[d][n].cached => n \in dir'[d]
  BY Nodes DEF CacheInv
<1>4. \A d \in Dirs, i \in 0..(NegEntries - 1) : neg[d][i].seq \in Nat /\ neg[d][i].seq <= child_seq[d]
  <2>1. \A d \in Dirs, i \in 0..(NegEntries - 1) : neg[d][i] \in Entry  BY <1>1 DEF TypeOK
  <2>2. \A x \in Entry : x.seq \in Nat  BY CacheAssumption DEF Entry
  <2> QED  BY <2>1, <2>2 DEF CacheInv
<1>5. \A d \in Dirs : child_seq[d] \in Nat /\ child_seq'[d] \in Nat  BY <1>1 DEF TypeOK
<1>6. \A d \in Dirs, i \in 0..(NegEntries - 1) : neg'[d][i].seq <= child_seq'[d]
  BY <1>4, <1>5
<1>7. ASSUME Still, NEW d \in Dirs, NEW i \in 0..(NegEntries - 1), neg'[d][i].seq = child_seq'[d]
      PROVE  neg'[d][i].name \notin dir'[d]
  <2>0. neg[d][i].seq = child_seq'[d] /\ child_seq[d] <= child_seq'[d]  BY <1>7
  <2>a. neg[d][i].seq \in Nat /\ neg[d][i].seq <= child_seq[d]  BY <1>4
  <2>b. child_seq[d] \in Nat /\ child_seq'[d] \in Nat  BY <1>5
  <2>c. \A a, b, c \in Nat : a = c /\ b <= c /\ a <= b => a = b  OBVIOUS
  <2>1. neg[d][i].seq = child_seq[d]  BY ZenonT(20), <2>0, <2>a, <2>b, <2>c
  <2> QED  BY <1>7, <2>1 DEF CacheInv
<1>8. ASSUME Still, NEW d \in Dirs, NEW n \in Names PROVE ~child'[d][n].freed
  BY <1>8, Nodes DEF CacheInv
<1> QED  BY <1>2, <1>3, <1>6, <1>7, <1>8 DEF CacheInv

\* Every call preserves the invariant.
LEMMA CacheStep == CacheInv /\ [Next]_vars => CacheInv'
<1> SUFFICES ASSUME CacheInv, [Next]_vars PROVE CacheInv'
  OBVIOUS
<1>0. TypeOK  BY DEF CacheInv
<1>1. ASSUME NEW d \in Dirs, NEW n \in Names, LookupMiss(d, n) PROVE CacheInv'
  BY <1>1, MissStep
<1>2. ASSUME NEW d \in Dirs, NEW n \in Names, LookupAttach(d, n) PROVE CacheInv'
  <2>1. dir' = dir /\ n \in dir[d] /\ Relink(d, n, NewNode) /\ UNCHANGED <<neg, neg_next>>
    BY <1>2 DEF LookupAttach
  <2>2. dir' \in [Dirs -> SUBSET Names]  BY <1>0, <2>1 DEF TypeOK
  <2> QED  BY <2>1, <2>2, Nodes, RelinkStep
<1>3. ASSUME NEW d \in Dirs, NEW n \in Names, Open(d, n) PROVE CacheInv'
  <2> DEFINE x == [child[d][n] EXCEPT !.ref = @ + 1]
  <2>1. child[d][n] \in Node  BY <1>0 DEF TypeOK
  <2>2. child[d][n].ref < MaxOpens  BY <1>3 DEF Open
  <2>3. x \in Node /\ x.cached = child[d][n].cached /\ x.freed = child[d][n].freed
    BY <2>1, <2>2, CacheAssumption DEF Node
  <2>4. child' = [child EXCEPT ![d][n] = x]
    BY <1>0, <1>3, <2>1 DEF Open, TypeOK, Node
  <2> HIDE DEF x
  <2>5. /\ child' \in [Dirs -> [Names -> Node]]
        /\ \A e \in Dirs, m \in Names : child'[e][m] = IF e = d /\ m = n THEN x ELSE child[e][m]
    BY <1>0, <2>3, <2>4, ChildPut
  <2>6. \A e \in Dirs, m \in Names : /\ child'[e][m].cached => child[e][m].cached
                                     /\ child'[e][m].freed => child[e][m].freed
    BY <2>3, <2>5
  <2>7. UNCHANGED <<dir, neg, neg_next, child_seq>>  BY <1>3 DEF Open
  <2>8. TypeOK'  BY <1>0, <2>5, <2>7 DEF TypeOK
  <2> QED  BY <2>6, <2>7, <2>8 DEF CacheInv
<1>4. ASSUME NEW d \in Dirs, NEW n \in Names, Close(d, n) PROVE CacheInv'
  <2>1. child[d][n] \in Node  BY <1>0 DEF TypeOK
  <2>2. child[d][n].ref > 0 /\ ~Still  BY <1>4 DEF Close, Still
  <2>2a. PICK last \in BOOLEAN : child' = [child EXCEPT ![d][n] = [child[d][n] EXCEPT !.ref = @ - 1, !.freed = last]]
    <3>1. (child[d][n].ref = 1) \in BOOLEAN  OBVIOUS
    <3> QED  BY Zenon, <1>4, <3>1 DEF Close
  <2> DEFINE x == [child[d][n] EXCEPT !.ref = @ - 1, !.freed = last]
  <2>3. x \in Node /\ x.cached = child[d][n].cached
    <3>1. ASSUME NEW y \in Node, NEW b \in BOOLEAN, y.ref > 0
          PROVE  [y EXCEPT !.ref = @ - 1, !.freed = b] \in Node
      <4>1. y.ref - 1 \in 0..MaxOpens  BY <3>1, CacheAssumption DEF Node
      <4>2. \A k \in 0..MaxOpens : [y EXCEPT !.ref = k, !.freed = b] \in Node  BY Zenon DEF Node
      <4> QED  BY <4>1, <4>2
    <3>2. ASSUME NEW y \in Node, NEW b \in BOOLEAN
          PROVE  [y EXCEPT !.ref = @ - 1, !.freed = b].cached = y.cached
      BY <3>2 DEF Node
    <3> QED  BY <2>1, <2>2, <3>1, <3>2
  <2>4. child' = [child EXCEPT ![d][n] = x]
    BY Zenon, <2>2a
  <2> HIDE DEF x
  <2>5. /\ child' \in [Dirs -> [Names -> Node]]
        /\ \A e \in Dirs, m \in Names : child'[e][m] = IF e = d /\ m = n THEN x ELSE child[e][m]
    BY <1>0, <2>3, <2>4, ChildPut
  <2>6. \A e \in Dirs, m \in Names : child'[e][m].cached => child[e][m].cached
    BY <2>3, <2>5
  <2>7. UNCHANGED <<dir, neg, neg_next, child_seq>>  BY <1>4 DEF Close
  <2>8. TypeOK'  BY <1>0, <2>5, <2>7 DEF TypeOK
  <2> QED  BY <2>2, <2>6, <2>7, <2>8 DEF CacheInv
<1>5. ASSUME NEW d \in Dirs, NEW n \in Names, Create(d, n) PROVE CacheInv'
  <2> DEFINE x == [NewNode EXCEPT !.ref = @ + 1]
  <2>1. dir' = [dir EXCEPT ![d] = @ \cup {n}] /\ Relink(d, n, x) /\ UNCHANGED <<neg, neg_next>>
    BY <1>5 DEF Create
  <2>2. x \in Node /\ ~x.freed  BY Nodes
  <2> HIDE DEF x
  <2>3. /\ dir' \in [Dirs -> SUBSET Names] /\ n \in dir'[d] /\ dir[d] \subseteq dir'[d]
        /\ \A e \in Dirs \ {d} : dir'[e] = dir[e]
    BY <1>0, <2>1 DEF TypeOK
  <2> QED  BY <2>1, <2>2, <2>3, RelinkStep
<1>6. ASSUME NEW d \in Dirs, NEW n \in Names, Unlink(d, n) PROVE CacheInv'
  <2>1. /\ dir' \in [Dirs -> SUBSET Names] /\ \A e \in Dirs : dir'[e] \subseteq dir[e]
        /\ \A e \in Dirs, m \in Names : m \in dir[e] => (m \in dir'[e] \/ (e = d /\ m = n))
    BY <1>0, <1>6 DEF TypeOK, Unlink
  <2>2. /\ child' \in [Dirs -> [Names -> Node]]
        /\ \A e \in Dirs, m \in Names : child'[e][m] = IF e = d /\ m = n THEN Uncached ELSE child[e][m]
    BY <1>0, <1>6, ChildPut, Nodes DEF Unlink, Drop
  <2>3. Detached(d, n) \in {0, 1}  BY DEF Detached
  <2>4. /\ child_seq' \in [Dirs -> 1..MaxSeq] /\ \A e \in Dirs : child_seq[e] <= child_seq'[e]
    BY <1>0, <1>6, <2>3, CacheAssumption DEF TypeOK, Unlink
  <2>5. UNCHANGED <<neg, neg_next>>  BY <1>6 DEF Unlink
  <2>6. \A e \in Dirs, m \in Names :
           child'[e][m] = Uncached \/ (child'[e][m] = child[e][m] /\ (m \in dir[e] => m \in dir'[e]))
    BY <2>1, <2>2
  <2> QED  BY <2>1, <2>2, <2>4, <2>5, <2>6, DetachStep
<1>7. ASSUME NEW d \in Dirs, NEW n \in Names, NEW e \in Dirs, NEW m \in Names, Rename(d, n, e, m)
      PROVE  CacheInv'
  <2>1. /\ dir' \in [Dirs -> SUBSET Names]
        /\ \A a \in Dirs, b \in Names : b \in dir[a] => (b \in dir'[a] \/ (a = d /\ b = n))
    BY <1>0, <1>7 DEF TypeOK, Rename
  <2>2. /\ child' \in [Dirs -> [Names -> Node]]
        /\ \A a \in Dirs, b \in Names :
              child'[a][b] = IF (a = d /\ b = n) \/ (a = e /\ b = m) THEN Uncached ELSE child[a][b]
    <3> DEFINE c == Drop(child, d, n)
    <3>1. /\ c \in [Dirs -> [Names -> Node]]
          /\ \A a \in Dirs, b \in Names : c[a][b] = IF a = d /\ b = n THEN Uncached ELSE child[a][b]
      BY <1>0, ChildPut, Nodes DEF Drop
    <3>2. child' = [c EXCEPT ![e][m] = Uncached]  BY <1>7 DEF Rename, Drop
    <3> HIDE DEF c
    <3>3. /\ child' \in [Dirs -> [Names -> Node]]
          /\ \A a \in Dirs, b \in Names : child'[a][b] = IF a = e /\ b = m THEN Uncached ELSE c[a][b]
      BY <3>1, <3>2, Nodes
    <3> QED  BY <3>1, <3>3
  <2>3. Detached(d, n) \in {0, 1} /\ Detached(e, m) \in {0, 1}  BY DEF Detached
  <2>4. /\ child_seq' \in [Dirs -> 1..MaxSeq] /\ \A a \in Dirs : child_seq[a] <= child_seq'[a]
    <3> DEFINE s == [child_seq EXCEPT ![d] = @ + Detached(d, n)]
    <3>1. child_seq \in [Dirs -> Nat] /\ \A a \in Dirs : child_seq[a] >= 1 /\ child_seq[a] <= MaxSeq
      BY <1>0 DEF TypeOK
    <3>2. child_seq[d] + 1 < MaxSeq /\ child_seq[e] + 1 < MaxSeq /\ MaxSeq \in Nat
      BY <1>7, CacheAssumption DEF Rename
    <3>3. s \in [Dirs -> Nat] /\ s[d] = child_seq[d] + Detached(d, n)
          /\ \A a \in Dirs \ {d} : s[a] = child_seq[a]
      BY <2>3, <3>1
    <3>4. child_seq' = [s EXCEPT ![e] = @ + Detached(e, m)]  BY <1>7 DEF Rename
    <3> HIDE DEF s
    <3>5. child_seq' \in [Dirs -> Nat] /\ child_seq'[e] = s[e] + Detached(e, m)
          /\ \A a \in Dirs \ {e} : child_seq'[a] = s[a]
      BY <2>3, <3>3, <3>4
    <3>6. ASSUME NEW a \in Dirs
          PROVE  child_seq'[a] \in Nat /\ child_seq[a] <= child_seq'[a] /\ child_seq'[a] >= 1 /\ child_seq'[a] <= MaxSeq
      BY <2>3, <3>1, <3>2, <3>3, <3>5
    <3> QED  BY <3>2, <3>5, <3>6
  <2>5. UNCHANGED <<neg, neg_next>> /\ ~Still  BY <1>7 DEF Rename, Still
  <2>6. \A a \in Dirs, b \in Names :
           child'[a][b] = Uncached \/ (child'[a][b] = child[a][b] /\ (b \in dir[a] => b \in dir'[a]))
    BY <2>1, <2>2
  <2> QED  BY <2>1, <2>2, <2>4, <2>5, <2>6, DetachStep
<1>8. ASSUME NEW d \in Dirs, NEW names \in SUBSET Names, Remount(d, names) PROVE CacheInv'
  <2>1. dir' \in [Dirs -> SUBSET Names] /\ \A a \in Dirs \ {d} : dir'[a] = dir[a]
    BY <1>0, <1>8 DEF TypeOK, Remount
  <2>2. /\ child' \in [Dirs -> [Names -> Node]]
        /\ \A a \in Dirs, b \in Names : child'[a][b] = IF a = d THEN Uncached ELSE child[a][b]
    BY <1>0, <1>8, Nodes DEF TypeOK, Remount
  <2>3. UNCHANGED <<neg, neg_next, child_seq>> /\ ~Still  BY <1>8 DEF Remount, Still
  <2>4. child_seq' \in [Dirs -> 1..MaxSeq] /\ \A a \in Dirs : child_seq[a] <= child_seq'[a]
    BY <1>0, <2>3 DEF TypeOK
  <2>5. \A a \in Dirs, b \in Names :
           child'[a][b] = Uncached \/ (child'[a][b] = child[a][b] /\ (b \in dir[a] => b \in dir'[a]))
    BY <2>1, <2>2
  <2> QED  BY <2>1, <2>2, <2>3, <2>4, <2>5, DetachStep
<1>9. CASE UNCHANGED vars
  BY <1>9 DEF vars, CacheInv, TypeOK
<1> QED  BY <1>1, <1>2, <1>3, <1>4, <1>5, <1>6, <1>7, <1>8, <1>9 DEF Next

\* The directory cache answers what the drivers have, however many directories,
\* names and negative entries there are (finddir_len, neg_cache_hit_locked,
\* detach_cached_child_len): while files stay open and in place a lookup is
\* right, and no cached child outlives its name whatever is called.
THEOREM LookupsAreTrue == Spec => []LookupTruth
<1>1. Init => CacheInv  BY CacheInit
<1>2. CacheInv /\ [Next]_vars => CacheInv'  BY CacheStep
<1>3. CacheInv => LookupTruth  BY TruthFollows
<1> QED  BY <1>1, <1>2, <1>3, PTL DEF Spec

=============================================================================
