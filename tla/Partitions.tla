---------------------------- MODULE Partitions ----------------------------
(***************************************************************************)
(* ahci_scan_partitions of ahci.c: a GPT with its protective MBR and its    *)
(* backup header, or an MBR with its chain of extended boot records, each   *)
(* read from the disk as it is and checked before a partition is            *)
(* registered; scan_partitions of usb_mass_storage.c, which looks for the   *)
(* same tables and takes them as they are; and ahci_part_io, which places a *)
(* transfer on a partition (part_io of the USB driver does the same).       *)
(* A sector is read at most once after the first header, so what it holds   *)
(* is chosen when it is read.  CRCs, signatures and identifiers are flags:  *)
(* right or wrong.  LBAs of an MBR are 32-bit words; here a word holds      *)
(* values below Word.                                                       *)
(***************************************************************************)
EXTENDS Integers, Sequences, FiniteSets, TLAPS

CONSTANTS
    Driver,      \* "ahci" or "usb"
    Sectors,     \* sectors of the disk
    Word,        \* 2^32
    Slots,       \* entries of the MBR (4)
    GptSlots,    \* entries of the GPT (up to 128)
    Lbas,        \* the LBAs that a GPT holds
    Boot,        \* the entries an MBR holds
    Record,      \* the entries a boot record of the chain holds
    MaxChain,    \* AHCI_MAX_EBR_CHAIN_SCAN
    MaxIo        \* bound on the offsets and lengths of transfers

VARIABLES
    mbr, hdr,    \* sector 0's entries, and the GPT header at LBA 1
    pc, i,       \* the scan's place, and the entry it is at
    ext,         \* ahci_scan_ebr: [base, count, lba, prev, depth]
    logical,     \* next_logical
    parts,       \* the registered partitions, in order
    read,        \* history: the sectors read, with what they held
    io           \* a transfer on a partition, in sectors of the disk

vars == <<mbr, hdr, pc, i, ext, logical, parts, read, io>>

Blank == [type |-> "empty", start |-> 0, count |-> 0]
Header == [ok : BOOLEAN, backup : Lbas, first : Lbas, last : Lbas, entries : Lbas, n : 1..GptSlots]
\* As much of a header as the USB driver reads.
UsbHeader == [ok : BOOLEAN, backup : {0}, first : {0}, last : {0}, entries : Lbas, n : {1}]
NoGpt == [ok |-> FALSE, backup |-> 0, first |-> 0, last |-> 0, entries |-> 0, n |-> 1]
\* The count of a protective entry: the rest of the disk, as far as a word goes.
ProtectiveCount == IF Sectors > Word THEN Word - 1 ELSE Sectors - 1
NoExt == [base |-> 0, count |-> 0, lba |-> 0, prev |-> 0, depth |-> 0]
NoIo == [part |-> 0, at |-> 0, n |-> 0]

Init ==
    /\ \/ mbr \in [1..Slots -> Boot] /\ hdr = NoGpt
       \/ /\ mbr = [k \in 1..Slots |-> IF k = 1 THEN [type |-> "protective", start |-> 1,
                                                      count |-> ProtectiveCount] ELSE Blank]
          /\ hdr \in IF Driver = "ahci" THEN Header ELSE UsbHeader
    /\ pc = "start" /\ i = 1 /\ ext = NoExt /\ logical = 5
    /\ parts = <<>> /\ read = <<>> /\ io = NoIo

-----------------------------------------------------------------------------
lba_range_valid(s, n) == n # 0 /\ s < Sectors /\ s + n <= Sectors
lba_ranges_overlap(s, n, t, m) == s < t + m /\ t < s + n

mbr_entry_basic_valid(e) == e.type = "empty" \/ e.count = 0 => e = Blank
mbr_entry_valid(e) == /\ mbr_entry_basic_valid(e)
                      /\ e # Blank => lba_range_valid(e.start, e.count)
Used(e) == e.type # "empty" /\ e.count # 0

\* ahci_read_gpt_header of the header at lba.
HeaderValid(h, lba) ==
    /\ h.ok /\ lba < Sectors
    /\ h.backup < Sectors /\ h.backup # lba
    /\ h.first <= h.last /\ h.last < Sectors
    /\ lba_range_valid(h.entries, h.n)
    /\ ~lba_ranges_overlap(h.entries, h.n, lba, 1)
    /\ ~lba_ranges_overlap(h.entries, h.n, h.backup, 1)
    /\ ~lba_ranges_overlap(h.entries, h.n, h.first, h.last - h.first + 1)

ProtectiveValid ==
    /\ \A k \in 1..Slots : /\ mbr_entry_valid(mbr[k])
                           /\ mbr[k].type = "protective" => mbr[k].start = 1 /\ mbr[k].count = ProtectiveCount
                           /\ mbr[k].type \in {"protective", "empty"}
    /\ Cardinality({k \in 1..Slots : mbr[k].type = "protective"}) = 1

\* ahci_register_partition.
Register(no, s, n) ==
    IF lba_range_valid(s, n) THEN Append(parts, [no |-> no, start |-> s, count |-> n]) ELSE parts

\* ahci_scan_mbr: every entry makes sense, and no two used ones overlap.
MbrValid ==
    /\ \A k \in 1..Slots : mbr_entry_valid(mbr[k])
    /\ \A k, l \in 1..Slots : k < l /\ Used(mbr[k]) /\ Used(mbr[l]) =>
         ~lba_ranges_overlap(mbr[k].start, mbr[k].count, mbr[l].start, mbr[l].count)

ahci_has_gpt == HeaderValid(hdr, 1)
ahci_mbr_has_protective == \E k \in 1..Slots : mbr[k].type = "protective"

\* ahci_scan_partitions: which of the two, and the checks on the whole table.
Start ==
    /\ Driver = "ahci" /\ pc = "start"
    /\ pc' = IF Sectors < 2 THEN "done"
             ELSE IF ahci_has_gpt THEN (IF ProtectiveValid THEN "gpt" ELSE "done")
             ELSE IF ahci_mbr_has_protective THEN "done"
             ELSE IF MbrValid THEN "mbr" ELSE "done"
    /\ UNCHANGED <<mbr, hdr, i, ext, logical, parts, read, io>>

\* ahci_scan_gpt: the backup header must be valid and agree, and its entry array
\* must end where it begins.
BackupAgrees(b) ==
    /\ HeaderValid(b, hdr.backup)
    /\ b.backup = 1 /\ b.first = hdr.first /\ b.last = hdr.last /\ b.n = hdr.n
    /\ b.entries + hdr.n = hdr.backup
\* What may be found at its place.
BackupHeader == {[hdr EXCEPT !.backup = l, !.entries = e, !.last = z] :
                   l \in {1, 2}, e \in Lbas, z \in {hdr.last, hdr.first}}
Backup ==
    /\ pc = "gpt"
    /\ \E b \in BackupHeader :
         pc' = IF BackupAgrees(b) THEN "entries" ELSE "done"
    /\ UNCHANGED <<mbr, hdr, i, ext, logical, parts, read, io>>

\* The entry array: every used entry is checked before any is registered; the
\* numbers count the used ones.
GptEntryValid(e) == e.last >= e.first /\ e.first >= hdr.first /\ e.last <= hdr.last
Size(e) == e.last - e.first + 1
GptEntriesValid(s) ==
    /\ \A k \in DOMAIN s : GptEntryValid(s[k])
    /\ \A k, l \in DOMAIN s : k < l => ~lba_ranges_overlap(s[k].first, Size(s[k]), s[l].first, Size(s[l]))
Entries ==
    /\ pc = "entries"
    /\ \E m \in 0..GptSlots : \E s \in [1..m -> [first : Lbas, last : Lbas]] :
         /\ read' = s
         /\ parts' = IF GptEntriesValid(s)
                     THEN [k \in 1..m |-> [no |-> k, start |-> s[k].first, count |-> Size(s[k])]]
                     ELSE parts
    /\ pc' = "done"
    /\ UNCHANGED <<mbr, hdr, i, ext, logical, io>>

\* ahci_scan_mbr's loop: a primary partition, or into an extended one.
Primary ==
    /\ pc = "mbr"
    /\ IF i > Slots THEN pc' = "done" /\ UNCHANGED <<i, parts, ext>>
       ELSE LET e == mbr[i] IN
            IF e.type = "extended"
            THEN /\ pc' = "ebr" /\ UNCHANGED <<i, parts>>
                 /\ ext' = [base |-> e.start, count |-> e.count, lba |-> e.start, prev |-> 0, depth |-> 0]
            ELSE /\ i' = i + 1 /\ UNCHANGED <<pc, ext>>
                 /\ parts' = IF Used(e) THEN Register(i, e.start, e.count) ELSE parts
    /\ UNCHANGED <<mbr, hdr, logical, read, io>>

\* Mutant: a record may point back.
ChainAnywhere == /\ ext.depth < MaxChain /\ ext.lba # 0
                 /\ lba_range_valid(ext.lba, 1)
                 /\ ext.base <= ext.lba /\ ext.lba < ext.base + ext.count

\* ahci_scan_ebr's loop.  The chain goes on only upwards, within the extended
\* partition.
ChainOn == /\ ext.depth < MaxChain /\ ext.lba # 0
           /\ lba_range_valid(ext.lba, 1)
           /\ ext.base <= ext.lba /\ ext.lba < ext.base + ext.count
           /\ ext.prev # 0 => ext.lba > ext.prev
\* The logical partition of a record, relative to the record.
LogicalValid(e) ==
    LET s == ext.lba + e.start
    IN /\ e.start # 0 /\ lba_range_valid(s, e.count)
       /\ s >= ext.base /\ s + e.count <= ext.base + ext.count
NextValid(e) == /\ e.type = "extended" /\ e.count # 0 /\ e.start # 0
                /\ e.start < ext.count
                /\ (e.start + e.count) % Word <= ext.count

LeaveExt == pc' = "mbr" /\ i' = i + 1 /\ ext' = NoExt
Extended ==
    /\ pc = "ebr"
    /\ IF ~ChainOn THEN LeaveExt /\ UNCHANGED <<logical, parts, read>>
       ELSE \E l \in Record, x \in Record :
         /\ read' = Append(read, [lba |-> ext.lba, logical |-> l, next |-> x])
         /\ LET plain == Used(l) /\ l.type # "extended"
                good == /\ mbr_entry_basic_valid(l) /\ mbr_entry_basic_valid(x)
                        /\ plain => LogicalValid(l)
            IN /\ IF good /\ plain
                  THEN parts' = Register(logical, ext.lba + l.start, l.count) /\ logical' = logical + 1
                  ELSE UNCHANGED <<parts, logical>>
               /\ IF good /\ NextValid(x)
                  THEN /\ ext' = [ext EXCEPT !.prev = ext.lba, !.lba = (ext.base + x.start) % Word,
                                             !.depth = @ + 1]
                       /\ UNCHANGED <<pc, i>>
                  ELSE LeaveExt
    /\ UNCHANGED <<mbr, hdr, io>>

\* scan_partitions of the USB driver: a protective entry anywhere makes it a GPT.
UsbStart ==
    /\ Driver = "usb" /\ pc = "start"
    /\ pc' = IF \E k \in 1..Slots : mbr[k].type = "protective" THEN "usb_gpt" ELSE "usb_mbr"
    /\ UNCHANGED <<mbr, hdr, i, ext, logical, parts, read, io>>

\* Its scan_mbr: every used entry is registered under its slot's number if it
\* lies on the disk, an extended one too; its chain is not read.
UsbMbr ==
    /\ pc = "usb_mbr"
    /\ IF i > Slots THEN pc' = "done" /\ UNCHANGED <<i, parts>>
       ELSE /\ i' = i + 1 /\ UNCHANGED pc
            /\ parts' = IF Used(mbr[i]) /\ mbr[i].type # "protective"
                        THEN Register(i, mbr[i].start, mbr[i].count) ELSE parts
    /\ UNCHANGED <<mbr, hdr, ext, logical, read, io>>

\* Its scan_gpt: the header's signature and sizes are all that is checked; an
\* unused entry, here None, has a number too.
None == [first |-> 0, last |-> 0, used |-> FALSE]
UsbGpt ==
    /\ pc = "usb_gpt"
    /\ IF ~hdr.ok \/ hdr.entries >= Sectors THEN pc' = "done" /\ UNCHANGED <<i, parts, read>>
       ELSE IF i > GptSlots THEN pc' = "done" /\ UNCHANGED <<i, parts, read>>
       ELSE \E e \in [first : Lbas, last : Lbas, used : {TRUE}] \cup {None} :
         /\ i' = i + 1 /\ read' = Append(read, e) /\ UNCHANGED pc
         /\ parts' = IF e.used /\ e.last >= e.first THEN Register(i, e.first, Size(e)) ELSE parts
    /\ UNCHANGED <<mbr, hdr, ext, logical, io>>

\* ahci_part_io: a transfer of n sectors at offset at of a partition, cut at its
\* end, on the disk.
PartIo(p, at, n) ==
    IF at >= p.count THEN NoIo
    ELSE [part |-> p.no, at |-> p.start + at, n |-> IF n > p.count - at THEN p.count - at ELSE n]
Transfer ==
    /\ pc = "done" /\ io = NoIo
    /\ \E k \in DOMAIN parts, at \in 0..MaxIo, n \in 1..MaxIo : io' = PartIo(parts[k], at, n)
    /\ UNCHANGED <<mbr, hdr, pc, i, ext, logical, parts, read>>

Next == \/ Start \/ Backup \/ Entries \/ Primary \/ Extended
        \/ UsbStart \/ UsbMbr \/ UsbGpt \/ Transfer

Spec == Init /\ [][Next]_vars

-----------------------------------------------------------------------------
TypeOK ==
    /\ pc \in {"start", "gpt", "entries", "mbr", "ebr", "usb_mbr", "usb_gpt", "done"} /\ i \in 1..(Slots + GptSlots + 1)
    /\ \A k \in DOMAIN parts : parts[k].start \in 0..(Sectors - 1) /\ parts[k].count \in 1..Sectors

Sect(p) == p.start..(p.start + p.count - 1)
IsLogical(p) == Driver = "ahci" /\ ~HeaderValid(hdr, 1) /\ p.no >= 5
Extends == {k \in 1..Slots : mbr[k].type = "extended"}
\* Whatever the tables hold, the partitions are safe to use together: each lies
\* on the disk and has a number of its own, two that a table's overlap check
\* covers (the USB driver has none) never share a sector, a GPT partition stays
\* clear of the entry array, a logical one stays in its extended partition, and
\* a transfer on a partition touches no sector outside it.
PartitionsSound ==
    /\ \A k \in DOMAIN parts : Sect(parts[k]) \subseteq 0..(Sectors - 1)
    /\ \A k, l \in DOMAIN parts : k # l =>
         /\ parts[k].no # parts[l].no
         /\ Driver = "ahci" /\ ~(IsLogical(parts[k]) /\ IsLogical(parts[l])) => Sect(parts[k]) \cap Sect(parts[l]) = {}
    /\ Driver = "ahci" /\ HeaderValid(hdr, 1) => \A k \in DOMAIN parts :
         Sect(parts[k]) \cap (hdr.entries..(hdr.entries + hdr.n - 1)) = {}
    /\ \A k \in DOMAIN parts : IsLogical(parts[k]) =>
         \E x \in Extends : Sect(parts[k]) \subseteq Sect(mbr[x])
    /\ io # NoIo => \E k \in DOMAIN parts : io.part = parts[k].no /\ io.at..(io.at + io.n - 1) \subseteq Sect(parts[k])

\* A chain of boot records is followed upwards and never round: no sector is
\* read twice, so the scan ends however the records point at each other.
ChainsEnd ==
    Driver = "ahci" /\ hdr = NoGpt => \A k, l \in DOMAIN read : k < l /\ (\E x \in Extends :
        {read[k].lba, read[l].lba} \subseteq Sect(mbr[x])) => read[k].lba < read[l].lba

\* The tables a partitioner writes are read whole: with a valid MBR each primary
\* partition is registered under its slot's number, and the logical ones are
\* numbered from 5 in the order of the chain, each where its record says.  The
\* USB driver finds the same primary partitions under the same numbers, and of
\* a GPT every entry that AHCI would accept, numbered by its place.
Logicals == SelectSeq(parts, IsLogical)
WantLogicals == SelectSeq(read, LAMBDA r : Used(r.logical) /\ r.logical.type = "plain"
                            /\ r.logical.start # 0 /\ mbr_entry_basic_valid(r.next)
                            /\ \E x \in Extends : r.lba \in Sect(mbr[x]) /\
                                 (r.lba + r.logical.start)..(r.lba + r.logical.start + r.logical.count - 1)
                                    \subseteq Sect(mbr[x]))
Found(no, s, n) == \E p \in DOMAIN parts : parts[p] = [no |-> no, start |-> s, count |-> n]
TablesRead ==
    /\ pc = "usb_gpt" => \A k \in DOMAIN read : read[k].used /\ read[k].first \in 1..read[k].last /\ read[k].last < Sectors =>
         Found(k, read[k].first, Size(read[k]))
    /\ pc \in {"mbr", "usb_mbr"} =>
         \A k \in 1..(i - 1) : mbr[k].type = "plain" /\ mbr_entry_valid(mbr[k]) /\ Used(mbr[k]) =>
           Found(k, mbr[k].start, mbr[k].count)
    /\ pc = "mbr" =>
      /\ Len(Logicals) = Len(WantLogicals)
      /\ \A k \in DOMAIN Logicals : Logicals[k] =
           [no |-> 4 + k, start |-> WantLogicals[k].lba + WantLogicals[k].logical.start,
            count |-> WantLogicals[k].logical.count]

-----------------------------------------------------------------------------
\* PartitionsSound for disks of any size and tables of any content.

Entry == [type : {"empty", "plain", "extended", "protective"}, start : Nat, count : Nat]
Part == [no : Nat, start : Nat, count : Nat]
\* What the constants stand for.  An MBR has four slots, so the numbers of the
\* logical partitions begin at 5.
ConstantsOK ==
    /\ Sectors \in Nat \ {0} /\ Word \in Nat \ {0} /\ Slots \in 0..4 /\ GptSlots \in Nat
    /\ Lbas \subseteq Nat /\ Boot \subseteq Entry /\ Record \subseteq Entry /\ MaxIo \in Nat

Types ==
    /\ mbr \in [1..Slots -> Entry]
    /\ hdr \in [ok : BOOLEAN, backup : Nat, first : Nat, last : Nat, entries : Nat, n : Nat]
    /\ ext \in [base : Nat, count : Nat, lba : Nat, prev : Nat, depth : Nat]
    /\ i \in Nat \ {0} /\ logical \in Nat /\ logical >= 5
    /\ parts \in Seq(Part)
    /\ pc \in {"start", "gpt", "entries", "mbr", "ebr", "usb_mbr", "usb_gpt", "done"}

\* Where the scan is says what it has checked.
Place ==
    /\ pc \in {"gpt", "entries"} => Driver = "ahci" /\ HeaderValid(hdr, 1)
    /\ pc \in {"mbr", "ebr"} => Driver = "ahci" /\ ~HeaderValid(hdr, 1) /\ MbrValid /\ i <= Slots + 1
    /\ pc = "ebr" => /\ i <= Slots /\ mbr[i].type = "extended"
                     /\ ext.base = mbr[i].start /\ ext.count = mbr[i].count
    /\ pc \in {"usb_mbr", "usb_gpt"} => Driver = "usb" /\ logical = 5
    /\ pc \in {"start", "gpt", "entries"} => parts = <<>>
    /\ pc = "start" => i = 1 /\ logical = 5
    /\ pc # "done" => io = NoIo

\* A partition of an MBR is a slot of it, or lies in an extended one.
FromMbr(p) ==
    /\ MbrValid
    /\ \/ /\ p.no \in 1..Slots /\ Used(mbr[p.no]) /\ mbr[p.no].type # "extended"
          /\ p.start = mbr[p.no].start /\ p.count = mbr[p.no].count
       \/ /\ p.no >= 5
          /\ \E x \in Extends : /\ Used(mbr[x]) /\ mbr[x].start <= p.start
                                /\ p.start + p.count <= mbr[x].start + mbr[x].count
FromGpt(p) == hdr.first <= p.start /\ p.start + p.count <= hdr.last + 1
Origin(p) ==
    /\ lba_range_valid(p.start, p.count)
    /\ Driver = "ahci" /\ HeaderValid(hdr, 1) => FromGpt(p)
    /\ Driver = "ahci" /\ ~HeaderValid(hdr, 1) => FromMbr(p)
Numbered(p) == p.no < i \/ p.no \in 5..(logical - 1)
Partitioned ==
    /\ \A k \in DOMAIN parts : Origin(parts[k])
    /\ pc # "done" => \A k \in DOMAIN parts : Numbered(parts[k])
    /\ \A k, l \in DOMAIN parts : k # l => parts[k].no # parts[l].no
    /\ Driver = "ahci" /\ HeaderValid(hdr, 1) => \A k, l \in DOMAIN parts : k # l =>
         ~lba_ranges_overlap(parts[k].start, parts[k].count, parts[l].start, parts[l].count)
Moved ==
    io # NoIo => \E k \in DOMAIN parts : /\ io.part = parts[k].no /\ io.at \in Nat /\ io.n \in Nat
                                         /\ parts[k].start <= io.at
                                         /\ io.at + io.n <= parts[k].start + parts[k].count
IInv == Types /\ Place /\ Partitioned /\ Moved

\* Ranges that do not overlap by lba_ranges_overlap have no sector in common.
LEMMA RangesApart ==
    ASSUME NEW s \in Nat, NEW n \in Nat, NEW t \in Nat, NEW m \in Nat, ~lba_ranges_overlap(s, n, t, m)
    PROVE  (s..(s + n - 1)) \cap (t..(t + m - 1)) = {}
BY DEF lba_ranges_overlap

\* A range within another has its sectors in it.
LEMMA RangeWithin ==
    ASSUME NEW s \in Nat, NEW n \in Nat, NEW t \in Nat, NEW m \in Nat, t <= s, s + n <= t + m
    PROVE  (s..(s + n - 1)) \subseteq (t..(t + m - 1))
OBVIOUS

\* What ahci_read_gpt_header has checked of a header: the usable range lies on
\* the disk, and the entry array outside it.
LEMMA HeaderFacts ==
    ASSUME ConstantsOK, Types, HeaderValid(hdr, 1)
    PROVE  /\ hdr.first <= hdr.last /\ hdr.last < Sectors
           /\ ~lba_ranges_overlap(hdr.entries, hdr.n, hdr.first, hdr.last - hdr.first + 1)
BY DEF HeaderValid

\* A valid MBR: used entries lie on the disk and two of them apart, and an
\* extended entry is used.
LEMMA MbrFacts ==
    ASSUME ConstantsOK, Types, MbrValid
    PROVE  /\ \A k \in 1..Slots : mbr[k].type = "extended" => Used(mbr[k])
           /\ \A k, l \in 1..Slots : k # l /\ Used(mbr[k]) /\ Used(mbr[l]) =>
                ~lba_ranges_overlap(mbr[k].start, mbr[k].count, mbr[l].start, mbr[l].count)
<1>0. \A k \in 1..Slots : mbr[k] \in Entry
  BY DEF Types
<1>1. \A k \in 1..Slots : mbr[k].type = "extended" => Used(mbr[k])
  BY <1>0 DEF MbrValid, mbr_entry_valid, mbr_entry_basic_valid, Used, Blank, Entry
<1>2. ASSUME NEW k \in 1..Slots, NEW l \in 1..Slots, k # l, Used(mbr[k]), Used(mbr[l])
      PROVE  ~lba_ranges_overlap(mbr[k].start, mbr[k].count, mbr[l].start, mbr[l].count)
  <2>1. k \in Int /\ l \in Int
    BY DEF ConstantsOK
  <2>2. CASE k < l
    BY <1>2, <2>2 DEF MbrValid
  <2>3. CASE l < k
    <3>1. ~lba_ranges_overlap(mbr[l].start, mbr[l].count, mbr[k].start, mbr[k].count)
      BY <1>2, <2>3 DEF MbrValid
    <3> QED
      BY <3>1 DEF lba_ranges_overlap
  <2> QED
    BY <1>2, <2>1, <2>2, <2>3
<1> QED
  BY <1>1, <1>2

\* The strengthened invariant gives the property.
THEOREM IInvSound ==
    ASSUME ConstantsOK, IInv
    PROVE  PartitionsSound
<1> USE DEF IInv
<1>0. \A k \in DOMAIN parts : parts[k] \in Part /\ Origin(parts[k])
  <2>1. parts \in Seq(Part)
    BY DEF Types
  <2>2. \A k \in DOMAIN parts : parts[k] \in Part
    BY <2>1
  <2> QED
    BY <2>2 DEF Partitioned
<1>1. ASSUME NEW k \in DOMAIN parts
      PROVE  Sect(parts[k]) \subseteq 0..(Sectors - 1)
  BY <1>0 DEF Origin, lba_range_valid, Sect, Part, ConstantsOK
<1>2. \A k, l \in DOMAIN parts : k # l => parts[k].no # parts[l].no
  BY DEF Partitioned
<1>3. ASSUME NEW k \in DOMAIN parts, NEW l \in DOMAIN parts, k # l, Driver = "ahci",
             ~(IsLogical(parts[k]) /\ IsLogical(parts[l]))
      PROVE  Sect(parts[k]) \cap Sect(parts[l]) = {}
  <2> DEFINE p == parts[k]
             q == parts[l]
  <2>1. p \in Part /\ q \in Part /\ p.no # q.no /\ Origin(p) /\ Origin(q)
    BY <1>0, <1>2, <1>3
  <2>2. SUFFICES ~lba_ranges_overlap(p.start, p.count, q.start, q.count)
    BY <2>1, RangesApart DEF Sect, Part
  <2>3. CASE HeaderValid(hdr, 1)
    BY <1>3, <2>3 DEF Partitioned
  <2>4. CASE ~HeaderValid(hdr, 1)
    <3>1. FromMbr(p) /\ FromMbr(q) /\ (p.no < 5 \/ q.no < 5)
      BY <1>3, <2>1, <2>4 DEF Origin, IsLogical, Part
    <3>2. MbrValid
      BY <3>1 DEF FromMbr
    <3>3. \A x \in 1..Slots : mbr[x].start \in Nat /\ mbr[x].count \in Nat
      BY DEF Types, Entry
    <3>4. CASE p.no < 5 /\ q.no < 5
      BY <2>1, <3>1, <3>2, <3>4, MbrFacts DEF FromMbr, Part
    <3>5. CASE p.no < 5 /\ q.no >= 5
      <4>1. p.no \in 1..Slots /\ Used(mbr[p.no]) /\ mbr[p.no].type # "extended"
            /\ p.start = mbr[p.no].start /\ p.count = mbr[p.no].count
        BY <2>1, <3>1, <3>5 DEF FromMbr, Part
      <4>2. PICK x \in Extends : /\ Used(mbr[x]) /\ mbr[x].start <= q.start
                                 /\ q.start + q.count <= mbr[x].start + mbr[x].count
        BY <2>1, <3>1, <3>5 DEF FromMbr, Part, ConstantsOK
      <4>3. ~lba_ranges_overlap(mbr[p.no].start, mbr[p.no].count, mbr[x].start, mbr[x].count)
        BY <3>2, <4>1, <4>2, MbrFacts DEF Extends
      <4> QED
        BY <2>1, <3>3, <4>1, <4>2, <4>3 DEF lba_ranges_overlap, Part, Extends
    <3>6. CASE p.no >= 5 /\ q.no < 5
      <4>1. q.no \in 1..Slots /\ Used(mbr[q.no]) /\ mbr[q.no].type # "extended"
            /\ q.start = mbr[q.no].start /\ q.count = mbr[q.no].count
        BY <2>1, <3>1, <3>6 DEF FromMbr, Part
      <4>2. PICK x \in Extends : /\ Used(mbr[x]) /\ mbr[x].start <= p.start
                                 /\ p.start + p.count <= mbr[x].start + mbr[x].count
        BY <2>1, <3>1, <3>6 DEF FromMbr, Part, ConstantsOK
      <4>3. ~lba_ranges_overlap(mbr[q.no].start, mbr[q.no].count, mbr[x].start, mbr[x].count)
        BY <3>2, <4>1, <4>2, MbrFacts DEF Extends
      <4> QED
        BY <2>1, <3>3, <4>1, <4>2, <4>3 DEF lba_ranges_overlap, Part, Extends
    <3> QED
      BY <2>1, <3>1, <3>4, <3>5, <3>6 DEF Part
  <2> QED
    BY <2>3, <2>4
<1>4. ASSUME Driver = "ahci", HeaderValid(hdr, 1), NEW k \in DOMAIN parts
      PROVE  Sect(parts[k]) \cap (hdr.entries..(hdr.entries + hdr.n - 1)) = {}
  <2>1. parts[k] \in Part /\ FromGpt(parts[k])
    BY <1>0, <1>4 DEF Origin
  <2>2. /\ hdr.first <= hdr.last
        /\ ~lba_ranges_overlap(hdr.entries, hdr.n, hdr.first, hdr.last - hdr.first + 1)
    BY <1>4, HeaderFacts
  <2>3. hdr.first \in Nat /\ hdr.last \in Nat /\ hdr.entries \in Nat /\ hdr.n \in Nat
    <3>1. hdr \in [ok : BOOLEAN, backup : Nat, first : Nat, last : Nat, entries : Nat, n : Nat]
      BY DEF Types
    <3> QED
      BY <3>1
  <2>4. ~lba_ranges_overlap(parts[k].start, parts[k].count, hdr.entries, hdr.n)
    BY <2>1, <2>2, <2>3 DEF FromGpt, lba_ranges_overlap, Part
  <2> QED
    BY <2>1, <2>3, <2>4, RangesApart DEF Sect, Part
<1>5. ASSUME NEW k \in DOMAIN parts, IsLogical(parts[k])
      PROVE  \E x \in Extends : Sect(parts[k]) \subseteq Sect(mbr[x])
  <2>1. parts[k] \in Part /\ FromMbr(parts[k]) /\ parts[k].no >= 5
    BY <1>0, <1>5 DEF Origin, IsLogical
  <2>2. PICK x \in Extends : /\ mbr[x].start <= parts[k].start
                             /\ parts[k].start + parts[k].count <= mbr[x].start + mbr[x].count
    BY <2>1 DEF FromMbr, Part, ConstantsOK
  <2>3. mbr[x].start \in Nat /\ mbr[x].count \in Nat
    BY DEF Types, Entry, Extends
  <2> QED
    BY <2>1, <2>2, <2>3, RangeWithin DEF Sect, Part
<1>6. ASSUME io # NoIo
      PROVE  \E k \in DOMAIN parts : /\ io.part = parts[k].no
                                     /\ io.at..(io.at + io.n - 1) \subseteq Sect(parts[k])
  <2>1. PICK k \in DOMAIN parts : /\ io.part = parts[k].no /\ io.at \in Nat /\ io.n \in Nat
                                  /\ parts[k].start <= io.at
                                  /\ io.at + io.n <= parts[k].start + parts[k].count
    BY <1>6 DEF Moved
  <2> QED
    BY <1>0, <2>1, RangeWithin DEF Sect, Part
<1> QED
  BY <1>1, <1>2, <1>3, <1>4, <1>5, <1>6 DEF PartitionsSound

\* The tables stay what they are, and with them what has been checked of them.
LEMMA TablesStay ==
    ASSUME UNCHANGED <<mbr, hdr>>
    PROVE  /\ HeaderValid(hdr, 1)' = HeaderValid(hdr, 1)
           /\ MbrValid' = MbrValid
           /\ Extends' = Extends
BY DEF HeaderValid, MbrValid, Extends

\* ahci_register_partition adds at most one partition, at the end.
LEMMA Registered ==
    ASSUME parts \in Seq(Part), NEW no \in Nat, NEW s \in Nat, NEW n \in Nat
    PROVE  /\ Register(no, s, n) \in Seq(Part)
           /\ \A k \in DOMAIN Register(no, s, n) :
                \/ k \in DOMAIN parts /\ Register(no, s, n)[k] = parts[k]
                \/ /\ k = Len(parts) + 1 /\ lba_range_valid(s, n)
                   /\ Register(no, s, n)[k] = [no |-> no, start |-> s, count |-> n]
<1>1. [no |-> no, start |-> s, count |-> n] \in Part
  BY DEF Part
<1> QED
  BY <1>1 DEF Register

\* Registering a partition with a number of its own keeps what is known of them.
LEMMA RegisterKeeps ==
    ASSUME ConstantsOK, Types, Partitioned, pc # "done", UNCHANGED <<mbr, hdr>>,
           NEW no \in Nat, NEW s \in Nat, NEW n \in Nat, parts' = Register(no, s, n),
           i' \in Nat, logical' \in Nat, i <= i', logical <= logical',
           no < i' \/ no \in 5..(logical' - 1),
           \A k \in DOMAIN parts : parts[k].no # no,
           ~(Driver = "ahci" /\ HeaderValid(hdr, 1)),
           lba_range_valid(s, n) /\ Driver = "ahci" => FromMbr([no |-> no, start |-> s, count |-> n])
    PROVE  Partitioned' /\ parts' \in Seq(Part)
<1> DEFINE p == [no |-> no, start |-> s, count |-> n]
<1>0. parts \in Seq(Part) /\ i \in Nat /\ logical \in Nat
  BY DEF Types
<1>1. /\ parts' \in Seq(Part)
      /\ \A k \in DOMAIN parts' : \/ k \in DOMAIN parts /\ parts'[k] = parts[k]
                                  \/ k = Len(parts) + 1 /\ parts'[k] = p /\ lba_range_valid(s, n)
  <2>1. /\ Register(no, s, n) \in Seq(Part)
        /\ \A k \in DOMAIN Register(no, s, n) :
             \/ k \in DOMAIN parts /\ Register(no, s, n)[k] = parts[k]
             \/ /\ k = Len(parts) + 1 /\ lba_range_valid(s, n)
                /\ Register(no, s, n)[k] = [no |-> no, start |-> s, count |-> n]
    BY <1>0, Registered, Zenon
  <2> QED
    BY <2>1, Zenon
<1>2. \A k \in DOMAIN parts : parts[k] \in Part /\ k # Len(parts) + 1
  BY <1>0
<1>3. /\ HeaderValid(hdr, 1)' = HeaderValid(hdr, 1)
      /\ MbrValid' = MbrValid /\ Extends' = Extends
  BY TablesStay
<1>4. ASSUME NEW k \in DOMAIN parts'
      PROVE  Origin(parts[k])'
  <2>1. CASE k \in DOMAIN parts /\ parts'[k] = parts[k]
    <3>1. Origin(parts[k])
      BY <2>1 DEF Partitioned
    <3> QED
      BY <1>3, <2>1, <3>1 DEF Origin, FromMbr, FromGpt
  <2>2. CASE parts'[k] = p /\ lba_range_valid(s, n)
    <3>1. Driver = "ahci" => FromMbr(p)
      BY <2>2
    <3>2. p.start = s /\ p.count = n
      OBVIOUS
    <3> QED
      BY <1>3, <2>2, <3>1, <3>2 DEF Origin, FromMbr
  <2> QED
    BY <1>1, <1>4, <2>1, <2>2
<1>5. ASSUME NEW k \in DOMAIN parts'
      PROVE  Numbered(parts[k])'
  <2>1. CASE k \in DOMAIN parts /\ parts'[k] = parts[k]
    <3>1. Numbered(parts[k]) /\ parts[k].no \in Nat
      BY <1>2, <2>1 DEF Partitioned, Part
    <3> QED
      BY <1>0, <2>1, <3>1 DEF Numbered
  <2>2. CASE parts'[k] = p
    <3>1. parts'[k].no = no
      BY <2>2
    <3> QED
      BY <3>1 DEF Numbered
  <2> QED
    BY <1>1, <1>5, <2>1, <2>2
<1>6. ASSUME NEW k \in DOMAIN parts', NEW l \in DOMAIN parts', k # l
      PROVE  parts'[k].no # parts'[l].no
  <2>1. p.no = no
    OBVIOUS
  <2> QED
    BY <1>1, <1>2, <1>6, <2>1 DEF Partitioned
<1> QED
  BY <1>1, <1>3, <1>4, <1>5, <1>6 DEF Partitioned

\* The tables of a disk, before the scan.
LEMMA InitIInv ==
    ASSUME ConstantsOK, Init
    PROVE  IInv
<1>1. mbr \in [1..Slots -> Entry]
  <2>1. CASE mbr \in [1..Slots -> Boot]
    BY <2>1 DEF ConstantsOK
  <2>2. CASE mbr = [k \in 1..Slots |-> IF k = 1 THEN [type |-> "protective", start |-> 1,
                                                      count |-> ProtectiveCount] ELSE Blank]
    <3>1. Blank \in Entry
      BY DEF Blank, Entry
    <3>2. ProtectiveCount \in Nat
      BY DEF ProtectiveCount, ConstantsOK
    <3>3. [type |-> "protective", start |-> 1, count |-> ProtectiveCount] \in Entry
      BY <3>2 DEF Entry
    <3> QED
      BY <2>2, <3>1, <3>3
  <2> QED
    BY <2>1, <2>2 DEF Init
<1>2. hdr \in [ok : BOOLEAN, backup : Nat, first : Nat, last : Nat, entries : Nat, n : Nat]
  <2>1. NoGpt \in [ok : BOOLEAN, backup : Nat, first : Nat, last : Nat, entries : Nat, n : Nat]
    BY DEF NoGpt
  <2>2. CASE hdr = NoGpt
    BY <2>1, <2>2
  <2>3. CASE hdr \in Header
    <3>1. Lbas \subseteq Nat /\ 1..GptSlots \subseteq Nat
      BY DEF ConstantsOK
    <3> QED
      BY <2>3, <3>1 DEF Header
  <2>4. CASE hdr \in UsbHeader
    <3>1. Lbas \subseteq Nat /\ {0} \subseteq Nat /\ {1} \subseteq Nat
      BY DEF ConstantsOK
    <3> QED
      BY <2>4, <3>1 DEF UsbHeader
  <2>5. hdr = NoGpt \/ hdr \in Header \/ hdr \in UsbHeader
    BY DEF Init
  <2> QED
    BY <2>2, <2>3, <2>4, <2>5
<1>3. ext \in [base : Nat, count : Nat, lba : Nat, prev : Nat, depth : Nat]
  BY DEF Init, NoExt
<1>4. parts = <<>> /\ pc = "start" /\ i = 1 /\ logical = 5 /\ io = NoIo
  BY DEF Init
<1>5. Types
  BY <1>1, <1>2, <1>3, <1>4 DEF Types
<1> QED
  BY <1>4, <1>5 DEF IInv, Place, Partitioned, Moved

\* A step that leaves the tables and the partitions alone keeps what is known of
\* the partitions, if their numbers still fit.
LEMMA PartsStay ==
    ASSUME Types, Partitioned, UNCHANGED <<mbr, hdr, parts>>,
           i' \in Nat, i <= i', logical' = logical, pc = "done" => pc' = "done"
    PROVE  Partitioned' /\ parts' \in Seq(Part)
<1>0. parts \in Seq(Part) /\ i \in Nat /\ logical \in Nat
  BY DEF Types
<1>1. \A k \in DOMAIN parts : parts[k].no \in Nat
  <2>1. \A k \in DOMAIN parts : parts[k] \in Part
    BY <1>0
  <2> QED
    BY <2>1 DEF Part
<1>2. /\ HeaderValid(hdr, 1)' = HeaderValid(hdr, 1)
      /\ MbrValid' = MbrValid /\ Extends' = Extends
  BY TablesStay
<1>3. ASSUME NEW k \in DOMAIN parts
      PROVE  Origin(parts[k])'
  <2>1. Origin(parts[k])
    BY DEF Partitioned
  <2> QED
    BY <1>2, <2>1 DEF Origin, FromMbr, FromGpt
<1>4. ASSUME pc' # "done", NEW k \in DOMAIN parts
      PROVE  Numbered(parts[k])'
  <2>1. Numbered(parts[k])
    BY <1>4 DEF Partitioned
  <2> QED
    BY <1>0, <1>1, <2>1 DEF Numbered
<1> QED
  BY <1>0, <1>2, <1>3, <1>4 DEF Partitioned

\* Before anything is registered there is nothing to keep.
LEMMA NothingYet ==
    ASSUME parts' = <<>>, io' = NoIo
    PROVE  Partitioned' /\ Moved' /\ parts' \in Seq(Part)
BY DEF Partitioned, Moved

\* ahci_scan_partitions takes the GPT only under a valid header, the MBR only when
\* its entries are valid and apart.
LEMMA StartStep ==
    ASSUME ConstantsOK, IInv, Start
    PROVE  IInv'
<1>1. Types /\ Place /\ parts = <<>> /\ io = NoIo
  BY DEF IInv, Place, Start
<1>2. UNCHANGED <<mbr, hdr, i, ext, logical, parts, io>> /\ Driver = "ahci" /\ pc = "start"
  BY DEF Start
<1>3. /\ pc' \in {"gpt", "mbr", "done"}
      /\ pc' = "gpt" => HeaderValid(hdr, 1)
      /\ pc' = "mbr" => ~HeaderValid(hdr, 1) /\ MbrValid
  BY DEF Start, ahci_has_gpt
<1>4. /\ HeaderValid(hdr, 1)' = HeaderValid(hdr, 1) /\ MbrValid' = MbrValid
  BY <1>2, TablesStay
<1>5. Types'
  BY <1>1, <1>2, <1>3 DEF Types
<1>6. i <= Slots + 1
  BY <1>1, <1>2 DEF Place, ConstantsOK
<1> QED
  BY <1>1, <1>2, <1>3, <1>4, <1>5, <1>6, NothingYet DEF IInv, Place

\* Reading the backup header registers nothing.
LEMMA BackupStep ==
    ASSUME ConstantsOK, IInv, Backup
    PROVE  IInv'
<1>1. Types /\ Place /\ parts = <<>> /\ io = NoIo /\ Driver = "ahci" /\ HeaderValid(hdr, 1)
  BY DEF IInv, Place, Backup
<1>2. UNCHANGED <<mbr, hdr, i, ext, logical, parts, io>> /\ pc' \in {"entries", "done"}
  BY DEF Backup
<1>3. HeaderValid(hdr, 1)' = HeaderValid(hdr, 1)
  BY <1>2, TablesStay
<1>4. Types'
  BY <1>1, <1>2 DEF Types
<1> QED
  BY <1>1, <1>2, <1>3, <1>4, NothingYet DEF IInv, Place

\* The whole entry array is checked before the first partition is registered.
LEMMA EntriesStep ==
    ASSUME ConstantsOK, IInv, Entries
    PROVE  IInv'
<1>1. Types /\ parts = <<>> /\ io = NoIo /\ Driver = "ahci" /\ HeaderValid(hdr, 1)
  BY DEF IInv, Place, Entries
<1>2. UNCHANGED <<mbr, hdr, i, ext, logical, io>> /\ pc' = "done"
  BY DEF Entries
<1>3. HeaderValid(hdr, 1)' /\ hdr' = hdr
  BY <1>1, <1>2, TablesStay
<1>m. PICK m \in 0..GptSlots : \E s \in [1..m -> [first : Lbas, last : Lbas]] :
        parts' = IF GptEntriesValid(s)
                 THEN [k \in 1..m |-> [no |-> k, start |-> s[k].first, count |-> Size(s[k])]]
                 ELSE parts
  BY DEF Entries
<1>4. PICK s \in [1..m -> [first : Lbas, last : Lbas]] :
        parts' = IF GptEntriesValid(s)
                 THEN [k \in 1..m |-> [no |-> k, start |-> s[k].first, count |-> Size(s[k])]]
                 ELSE parts
  BY <1>m
<1>5. Partitioned' /\ Moved' /\ parts' \in Seq(Part)
  <2>1. CASE ~GptEntriesValid(s)
    BY <1>1, <1>2, <1>4, <2>1, NothingYet
  <2>2. CASE GptEntriesValid(s)
    <3>1. parts' = [k \in 1..m |-> [no |-> k, start |-> s[k].first, count |-> Size(s[k])]]
      BY <1>4, <2>2
    <3>2. m \in Nat /\ DOMAIN s = 1..m
      BY DEF ConstantsOK
    <3>3. \A k \in 1..m : s[k].first \in Nat /\ s[k].last \in Nat
      <4>1. Lbas \subseteq Nat
        BY DEF ConstantsOK
      <4> QED
        BY <4>1
    <3>4. hdr.first \in Nat /\ hdr.last \in Nat
      <4>1. hdr \in [ok : BOOLEAN, backup : Nat, first : Nat, last : Nat, entries : Nat, n : Nat]
        BY <1>1 DEF Types
      <4> QED
        BY <4>1
    <3>5. \A k \in 1..m : /\ s[k].first <= s[k].last /\ hdr.first <= s[k].first
                          /\ s[k].last <= hdr.last
      BY <2>2, <3>2, <3>3, <3>4 DEF GptEntriesValid, GptEntryValid
    <3>6. \A k \in 1..m : Size(s[k]) \in Nat \ {0} /\ s[k].first + Size(s[k]) = s[k].last + 1
      BY <3>3, <3>5 DEF Size
    <3>7. DOMAIN parts' = 1..m
      BY <3>1
    <3>8. \A k \in 1..m : /\ parts'[k] \in Part /\ parts'[k].no = k
                          /\ parts'[k].start = s[k].first /\ parts'[k].count = Size(s[k])
      BY <3>1, <3>2, <3>3, <3>6 DEF Part
    <3>9. parts' \in Seq(Part)
      BY <3>1, <3>2, <3>7, <3>8
    <3>10. ASSUME NEW k \in DOMAIN parts'
           PROVE  Origin(parts[k])'
      <4>1. hdr.last < Sectors
        BY <1>1, HeaderFacts
      <4>2. k \in 1..m
        BY <3>7
      <4> QED
        BY SMTT(30), <1>3, <3>3, <3>4, <3>5, <3>6, <3>8, <4>1, <4>2 DEF Origin, FromGpt, lba_range_valid, ConstantsOK
    <3>11. ASSUME NEW k \in DOMAIN parts', NEW l \in DOMAIN parts', k # l
           PROVE  /\ parts'[k].no # parts'[l].no
                  /\ ~lba_ranges_overlap(parts'[k].start, parts'[k].count, parts'[l].start, parts'[l].count)
      <4>1. k \in 1..m /\ l \in 1..m
        BY <3>7
      <4>2. ~lba_ranges_overlap(s[k].first, Size(s[k]), s[l].first, Size(s[l]))
        <5>1. CASE k < l
          BY <2>2, <3>2, <4>1, <5>1 DEF GptEntriesValid
        <5>2. CASE l < k
          <6>1. ~lba_ranges_overlap(s[l].first, Size(s[l]), s[k].first, Size(s[k]))
            BY <2>2, <3>2, <4>1, <5>2 DEF GptEntriesValid
          <6> QED
            BY <6>1 DEF lba_ranges_overlap
        <5> QED
          BY <3>11, <4>1, <5>1, <5>2
      <4> QED
        BY <3>8, <3>11, <4>1, <4>2
    <3>12. Moved'
      BY <1>1, <1>2 DEF Moved
    <3> QED
      BY <1>2, <3>9, <3>10, <3>11, <3>12 DEF Partitioned
  <2> QED
    BY <2>1, <2>2
<1>6. Types'
  BY <1>1, <1>2, <1>5 DEF Types
<1> QED
  BY <1>2, <1>5, <1>6 DEF IInv, Place

\* The primary partitions: a slot is registered under its own number.
LEMMA PrimaryStep ==
    ASSUME ConstantsOK, IInv, Primary
    PROVE  IInv'
<1>1. /\ Types /\ Partitioned /\ pc = "mbr" /\ io = NoIo /\ Driver = "ahci" /\ ~HeaderValid(hdr, 1)
      /\ MbrValid /\ i <= Slots + 1
  BY DEF IInv, Place, Primary
<1>2. UNCHANGED <<mbr, hdr, logical, io>>
  BY DEF Primary
<1>3. i \in Nat \ {0} /\ logical \in Nat /\ logical >= 5 /\ Slots \in 0..4
  BY <1>1 DEF Types, ConstantsOK
<1>4. /\ HeaderValid(hdr, 1)' = HeaderValid(hdr, 1) /\ MbrValid' = MbrValid
  BY <1>2, TablesStay
<1>5. Moved'
  BY <1>1, <1>2 DEF Moved
<1>6. CASE i > Slots
  <2>1. pc' = "done" /\ UNCHANGED <<i, parts, ext>>
    BY <1>6 DEF Primary
  <2>2. Partitioned' /\ parts' \in Seq(Part)
    BY <1>1, <1>2, <1>3, <2>1, PartsStay
  <2>3. Types'
    BY <1>1, <1>2, <2>1 DEF Types
  <2> QED
    BY <1>5, <2>1, <2>2, <2>3 DEF IInv, Place
<1>7. CASE i <= Slots /\ mbr[i].type = "extended"
  <2>1. /\ pc' = "ebr" /\ UNCHANGED <<i, parts>>
        /\ ext' = [base |-> mbr[i].start, count |-> mbr[i].count, lba |-> mbr[i].start, prev |-> 0, depth |-> 0]
    BY SMTT(30), <1>3, <1>7 DEF Primary
  <2>2. mbr[i].start \in Nat /\ mbr[i].count \in Nat
    <3>1. mbr \in [1..Slots -> Entry] /\ i \in 1..Slots
      BY <1>1, <1>3, <1>7 DEF Types
    <3>2. mbr[i] \in Entry
      BY <3>1
    <3> QED
      BY <3>2 DEF Entry
  <2>3. Partitioned' /\ parts' \in Seq(Part)
    BY <1>1, <1>2, <1>3, <2>1, PartsStay
  <2>4. ext' \in [base : Nat, count : Nat, lba : Nat, prev : Nat, depth : Nat]
    BY <2>1, <2>2
  <2>5. Types'
    BY <1>1, <1>2, <2>1, <2>3, <2>4 DEF Types
  <2>6. ext'.base = mbr[i].start /\ ext'.count = mbr[i].count
    BY <2>1
  <2> QED
    BY <1>1, <1>2, <1>4, <1>5, <1>7, <2>1, <2>3, <2>5, <2>6 DEF IInv, Place
<1>8. CASE i <= Slots /\ mbr[i].type # "extended"
  <2>1. /\ i' = i + 1 /\ UNCHANGED <<pc, ext>>
        /\ parts' = IF Used(mbr[i]) THEN Register(i, mbr[i].start, mbr[i].count) ELSE parts
    BY <1>3, <1>8 DEF Primary
  <2>2. mbr[i].start \in Nat /\ mbr[i].count \in Nat
    <3>1. mbr \in [1..Slots -> Entry] /\ i \in 1..Slots
      BY <1>1, <1>3, <1>8 DEF Types
    <3>2. mbr[i] \in Entry
      BY <3>1
    <3> QED
      BY <3>2 DEF Entry
  <2>3. Partitioned' /\ parts' \in Seq(Part)
    <3>1. CASE ~Used(mbr[i])
      BY <1>1, <1>2, <1>3, <2>1, <3>1, PartsStay
    <3>2. CASE Used(mbr[i])
      <4>1. parts' = Register(i, mbr[i].start, mbr[i].count)
        BY <2>1, <3>2
      <4>2. \A k \in DOMAIN parts : parts[k].no # i
        <5>1. parts \in Seq(Part)
          BY <1>1 DEF Types
        <5>2. \A k \in DOMAIN parts : parts[k] \in Part
          BY <5>1
        <5> QED
          BY <1>1, <1>3, <1>8, <5>2 DEF Partitioned, Numbered, Part
      <4>3. FromMbr([no |-> i, start |-> mbr[i].start, count |-> mbr[i].count])
        BY SMTT(30), <1>1, <1>3, <1>8, <3>2 DEF FromMbr
      <4>4. i < i' /\ i <= i' /\ i' \in Nat /\ logical' \in Nat /\ logical <= logical'
        BY <1>2, <1>3, <2>1
      <4> QED
        BY <1>1, <1>2, <1>3, <2>2, <4>1, <4>2, <4>3, <4>4, RegisterKeeps
    <3> QED
      BY <3>1, <3>2
  <2>4. Types'
    BY <1>1, <1>2, <1>3, <2>1, <2>3 DEF Types
  <2>5. i' <= Slots + 1
    BY <1>3, <1>8, <2>1
  <2> QED
    BY <1>1, <1>2, <1>4, <1>5, <2>1, <2>3, <2>4, <2>5 DEF IInv, Place
<1> QED
  BY <1>3, <1>6, <1>7, <1>8

\* A record of the chain: its logical partition lies in the extended one.
LEMMA ExtendedStep ==
    ASSUME ConstantsOK, IInv, Extended
    PROVE  IInv'
<1>1. /\ Types /\ Partitioned /\ pc = "ebr" /\ io = NoIo /\ Driver = "ahci" /\ ~HeaderValid(hdr, 1)
      /\ MbrValid /\ i <= Slots /\ mbr[i].type = "extended"
      /\ ext.base = mbr[i].start /\ ext.count = mbr[i].count
  BY DEF IInv, Place, Extended
<1>2. UNCHANGED <<mbr, hdr, io>>
  BY DEF Extended
<1>3. i \in Nat \ {0} /\ logical \in Nat /\ logical >= 5 /\ Slots \in 0..4 /\ Word \in Nat \ {0}
  BY <1>1 DEF Types, ConstantsOK
<1>4. HeaderValid(hdr, 1)' = HeaderValid(hdr, 1) /\ MbrValid' = MbrValid
  BY <1>2, TablesStay
<1>5. Moved'
  BY <1>1, <1>2 DEF Moved
<1>6. ext \in [base : Nat, count : Nat, lba : Nat, prev : Nat, depth : Nat]
  BY <1>1 DEF Types
<1>7. /\ ext' \in [base : Nat, count : Nat, lba : Nat, prev : Nat, depth : Nat]
      /\ \/ pc' = "mbr" /\ i' = i + 1
         \/ UNCHANGED <<pc, i>> /\ ext'.base = ext.base /\ ext'.count = ext.count
  <2>1. CASE LeaveExt
    BY <2>1 DEF LeaveExt, NoExt
  <2>2. ASSUME NEW x \in Record, UNCHANGED <<pc, i>>,
               ext' = [ext EXCEPT !.prev = ext.lba, !.lba = (ext.base + x.start) % Word, !.depth = @ + 1]
        PROVE  /\ ext' \in [base : Nat, count : Nat, lba : Nat, prev : Nat, depth : Nat]
               /\ ext'.base = ext.base /\ ext'.count = ext.count
    <3>1. x.start \in Nat
      BY DEF ConstantsOK, Entry
    <3>2. (ext.base + x.start) % Word \in Nat
      BY <1>3, <1>6, <3>1
    <3>3. ext' = [base |-> ext.base, count |-> ext.count, lba |-> (ext.base + x.start) % Word,
                  prev |-> ext.lba, depth |-> ext.depth + 1]
      BY <1>6, <2>2
    <3> QED
      BY <1>6, <3>2, <3>3
  <2>3. \/ LeaveExt
        \/ \E x \in Record : /\ UNCHANGED <<pc, i>>
                             /\ ext' = [ext EXCEPT !.prev = ext.lba, !.lba = (ext.base + x.start) % Word,
                                                   !.depth = @ + 1]
    BY DEF Extended
  <2> QED
    BY <2>1, <2>2, <2>3 DEF LeaveExt
<1>8. /\ Partitioned' /\ parts' \in Seq(Part)
      /\ logical' \in Nat /\ logical' >= 5
  <2>1. i' \in Nat /\ i <= i'
    BY <1>3, <1>7
  <2>2. CASE UNCHANGED <<parts, logical>>
    BY <1>1, <1>2, <1>3, <2>1, <2>2, PartsStay
  <2>3. ASSUME NEW l \in Record, LogicalValid(l), logical' = logical + 1,
               parts' = Register(logical, ext.lba + l.start, l.count)
        PROVE  Partitioned' /\ parts' \in Seq(Part)
    <3> DEFINE s == ext.lba + l.start
    <3>1. l.start \in Nat /\ l.count \in Nat /\ s \in Nat
      BY <1>6 DEF ConstantsOK, Entry
    <3>2. \A k \in DOMAIN parts : parts[k].no # logical
      <4>1. parts \in Seq(Part)
        BY <1>1 DEF Types
      <4>2. \A k \in DOMAIN parts : parts[k] \in Part
        BY <4>1
      <4> QED
        BY SMTT(30), <1>1, <1>3, <4>2 DEF Partitioned, Numbered, Part
    <3>3. FromMbr([no |-> logical, start |-> s, count |-> l.count])
      <4>1. i \in Extends /\ Used(mbr[i])
        BY SMTT(30), <1>1, <1>3, MbrFacts DEF Extends
      <4>2. mbr[i].start <= s /\ s + l.count <= mbr[i].start + mbr[i].count
        BY <1>1, <1>6, <2>3, <3>1 DEF LogicalValid
      <4> QED
        BY <1>1, <1>3, <4>1, <4>2 DEF FromMbr
    <3>4. logical \in 5..(logical' - 1) /\ logical' \in Nat /\ logical <= logical'
      BY <1>3, <2>3
    <3>5. parts' = Register(logical, s, l.count)
      BY <2>3
    <3> HIDE DEF s
    <3> QED
      BY <1>1, <1>2, <1>3, <2>1, <3>1, <3>2, <3>3, <3>4, <3>5, RegisterKeeps
  <2>4. \/ UNCHANGED <<parts, logical>>
        \/ \E l \in Record : /\ LogicalValid(l) /\ logical' = logical + 1
                             /\ parts' = Register(logical, ext.lba + l.start, l.count)
    BY DEF Extended
  <2> QED
    BY <1>3, <2>2, <2>3, <2>4
<1>9. pc' \in {"mbr", "ebr"} /\ i' \in Nat \ {0} /\ i' <= Slots + 1
  BY <1>1, <1>3, <1>7
<1>10. ext' \in [base : Nat, count : Nat, lba : Nat, prev : Nat, depth : Nat]
  BY <1>7
<1>11. Types'
  BY <1>1, <1>2, <1>8, <1>9, <1>10 DEF Types
<1>12. pc' = "ebr" => /\ i' <= Slots /\ mbr'[i'].type = "extended"
                      /\ ext'.base = mbr'[i'].start /\ ext'.count = mbr'[i'].count
  BY <1>1, <1>2, <1>7
<1>13. Place'
  BY <1>1, <1>2, <1>4, <1>9, <1>12 DEF Place
<1> QED
  BY <1>5, <1>8, <1>11, <1>13 DEF IInv

\* The USB driver's scan begins with nothing registered.
LEMMA UsbStartStep ==
    ASSUME ConstantsOK, IInv, UsbStart
    PROVE  IInv'
<1>1. Types /\ parts = <<>> /\ io = NoIo /\ logical = 5
  BY DEF IInv, Place, UsbStart
<1>2. /\ UNCHANGED <<mbr, hdr, i, ext, logical, parts, io>> /\ Driver = "usb"
      /\ pc' \in {"usb_mbr", "usb_gpt"}
  BY DEF UsbStart
<1>3. Types'
  BY <1>1, <1>2 DEF Types
<1> QED
  BY <1>1, <1>2, <1>3, NothingYet DEF IInv, Place

\* A step of the USB driver's loops: the end, an entry passed over, or one
\* registered under the number of its place.
UsbMoves ==
    \/ pc' = "done" /\ UNCHANGED <<i, parts>>
    \/ i' = i + 1 /\ UNCHANGED <<pc, parts>>
    \/ i' = i + 1 /\ UNCHANGED pc /\ \E s, n \in Nat : parts' = Register(i, s, n)

\* register_partition of the USB driver keeps to the disk: what it adds lies on it.
LEMMA UsbStep ==
    ASSUME ConstantsOK, IInv, pc \in {"usb_mbr", "usb_gpt"}, UNCHANGED <<mbr, hdr, ext, logical, io>>, UsbMoves
    PROVE  IInv'
<1>1. Types /\ Partitioned /\ io = NoIo /\ Driver = "usb" /\ logical = 5 /\ Driver # "ahci" /\ pc # "done"
  BY DEF IInv, Place
<1>2. i \in Nat \ {0} /\ parts \in Seq(Part)
  BY <1>1 DEF Types
<1>3. /\ i' \in Nat \ {0} /\ i <= i'
      /\ pc' = "done" \/ pc' = pc
  BY <1>2 DEF UsbMoves
<1>4. Partitioned' /\ parts' \in Seq(Part)
  <2>1. CASE UNCHANGED parts
    BY <1>1, <1>3, <2>1, PartsStay
  <2>2. ASSUME i' = i + 1, NEW s \in Nat, NEW n \in Nat, parts' = Register(i, s, n)
        PROVE  Partitioned' /\ parts' \in Seq(Part)
    <3>1. \A k \in DOMAIN parts : parts[k].no # i
      <4>1. \A k \in DOMAIN parts : parts[k] \in Part
        BY <1>2
      <4> QED
        BY <1>1, <1>2, <4>1 DEF Partitioned, Numbered, Part
    <3>2. i < i' /\ logical' \in Nat /\ logical <= logical'
      BY <1>1, <1>2, <2>2
    <3> QED
      BY <1>1, <1>2, <1>3, <2>2, <3>1, <3>2, RegisterKeeps
  <2> QED
    BY <2>1, <2>2 DEF UsbMoves
<1>5. Types'
  BY <1>1, <1>3, <1>4 DEF Types
<1>6. Moved'
  BY <1>1 DEF Moved
<1>7. Place'
  BY <1>1, <1>3 DEF Place
<1> QED
  BY <1>4, <1>5, <1>6, <1>7 DEF IInv

\* scan_mbr of the USB driver: a slot is registered under its own number.
LEMMA UsbMbrStep ==
    ASSUME ConstantsOK, IInv, UsbMbr
    PROVE  IInv'
<1>1. pc \in {"usb_mbr", "usb_gpt"} /\ UNCHANGED <<mbr, hdr, ext, logical, io>>
  BY DEF UsbMbr
<1>2. UsbMoves
  <2>1. CASE i > Slots
    BY <2>1 DEF UsbMbr, UsbMoves
  <2>2. CASE ~(i > Slots)
    <3>1. i \in 1..Slots /\ mbr \in [1..Slots -> Entry]
      BY <2>2 DEF IInv, Types, ConstantsOK
    <3>2. mbr[i].start \in Nat /\ mbr[i].count \in Nat
      BY <3>1 DEF Entry
    <3> QED
      BY <2>2, <3>2 DEF UsbMbr, UsbMoves
  <2> QED
    BY <2>1, <2>2
<1> QED
  BY <1>1, <1>2, UsbStep

\* scan_gpt of the USB driver: the number goes up with every entry, used or not.
LEMMA UsbGptStep ==
    ASSUME ConstantsOK, IInv, UsbGpt
    PROVE  IInv'
<1>1. pc \in {"usb_mbr", "usb_gpt"} /\ UNCHANGED <<mbr, hdr, ext, logical, io>>
  BY DEF UsbGpt
<1>2. UsbMoves
  <2>1. CASE pc' = "done" /\ UNCHANGED <<i, parts>>
    BY <2>1 DEF UsbMoves
  <2>2. ASSUME NEW e \in [first : Lbas, last : Lbas, used : {TRUE}] \cup {None},
               i' = i + 1, UNCHANGED pc,
               parts' = IF e.used /\ e.last >= e.first THEN Register(i, e.first, Size(e)) ELSE parts
        PROVE  UsbMoves
    <3>1. e.first \in Nat /\ e.last \in Nat
      <4>1. Lbas \subseteq Nat
        BY DEF ConstantsOK
      <4>2. CASE e \in [first : Lbas, last : Lbas, used : {TRUE}]
        BY <4>1, <4>2
      <4>3. CASE e = None
        BY <4>3 DEF None
      <4> QED
        BY <4>2, <4>3
    <3>2. e.last >= e.first => Size(e) \in Nat
      BY <3>1 DEF Size
    <3> QED
      BY <2>2, <3>1, <3>2 DEF UsbMoves
  <2> QED
    BY <2>1, <2>2 DEF UsbGpt
<1> QED
  BY <1>1, <1>2, UsbStep

\* A transfer is cut at the end of its partition.
LEMMA TransferStep ==
    ASSUME ConstantsOK, IInv, Transfer
    PROVE  IInv'
<1>1. Types /\ Place /\ Partitioned /\ pc = "done"
  BY DEF IInv, Transfer
<1>2. UNCHANGED <<mbr, hdr, pc, i, ext, logical, parts>>
  BY DEF Transfer
<1>3. i \in Nat /\ parts \in Seq(Part)
  BY <1>1 DEF Types
<1>4. Partitioned'
  BY <1>1, <1>2, <1>3, PartsStay
<1>5. Types'
  BY <1>1, <1>2 DEF Types
<1>6. Place'
  BY <1>1, <1>2 DEF Place
<1>7. Moved'
  <2>1. PICK k \in DOMAIN parts, at \in 0..MaxIo, n \in 1..MaxIo : io' = PartIo(parts[k], at, n)
    BY DEF Transfer
  <2>2. parts[k] \in Part /\ at \in Nat /\ n \in Nat
    BY <1>3 DEF ConstantsOK
  <2>3. CASE at >= parts[k].count
    BY <2>1, <2>3 DEF PartIo, Moved, NoIo
  <2>4. CASE at < parts[k].count
    <3>1. /\ io'.part = parts[k].no /\ io'.at = parts[k].start + at
          /\ io'.n = IF n > parts[k].count - at THEN parts[k].count - at ELSE n
      BY <2>1, <2>2, <2>4 DEF PartIo, Part
    <3>2. /\ io'.at \in Nat /\ io'.n \in Nat /\ parts[k].start <= io'.at
          /\ io'.at + io'.n <= parts[k].start + parts[k].count
      BY <2>2, <2>4, <3>1 DEF Part
    <3> QED
      BY <1>2, <3>1, <3>2 DEF Moved
  <2> QED
    BY <2>2, <2>3, <2>4 DEF Part
<1> QED
  BY <1>4, <1>5, <1>6, <1>7 DEF IInv

\* Whatever the tables of a disk hold, and whatever its size: the partitions that
\* the two drivers register lie on the disk under numbers of their own; on AHCI any
\* two but two logical ones are apart, a logical one lies in an extended one and a
\* GPT partition off the entry array; and a transfer stays in its partition
\* (ahci_scan_partitions, scan_partitions, ahci_part_io).
THEOREM ScanSound ==
    ASSUME ConstantsOK
    PROVE  Spec => []PartitionsSound
<1>1. Init => IInv
  BY InitIInv
<1>2. IInv /\ [Next]_vars => IInv'
  <2>1. ASSUME IInv, UNCHANGED vars
        PROVE  IInv'
    <3>1. /\ HeaderValid(hdr, 1)' = HeaderValid(hdr, 1) /\ MbrValid' = MbrValid
      BY <2>1, TablesStay DEF vars
    <3>2. Types' /\ i \in Nat
      BY <2>1 DEF IInv, Types, vars
    <3>3. Partitioned'
      BY <2>1, <3>2, PartsStay DEF IInv, vars
    <3>4. Place'
      BY <2>1, <3>1 DEF IInv, Place, vars
    <3>5. Moved'
      BY <2>1 DEF IInv, Moved, vars
    <3> QED
      BY <3>2, <3>3, <3>4, <3>5 DEF IInv
  <2> QED
    BY <2>1, StartStep, BackupStep, EntriesStep, PrimaryStep, ExtendedStep, UsbStartStep,
       UsbMbrStep, UsbGptStep, TransferStep DEF Next
<1>3. IInv => PartitionsSound
  BY IInvSound
<1> QED
  BY <1>1, <1>2, <1>3, PTL DEF Spec

=============================================================================
