----------------------------- MODULE FatProofs -----------------------------
(***************************************************************************)
(* Theorems about FatRead and FatDir for every geometry of the card: the   *)
(* partition and the cached table sector are never half valid, a read      *)
(* writes nothing behind the last sector it was asked for, what it counts  *)
(* as read is the file, which it leaves early only where the chain ends,   *)
(* and a walk over the directory finds and lists what the card has there.  *)
(***************************************************************************)
EXTENDS FatRead, FatDir, SequenceTheorems, WellFoundedInduction, NaturalsInduction, TLAPS

----------------------------------------------------------------------------
(* Arithmetic of sectors.                                                  *)
LEMMA Division ==
    ASSUME NEW s \in Nat \ {0}, NEW a \in Nat
    PROVE  /\ a \div s \in Nat /\ a % s \in 0 .. (s - 1)
           /\ a = (a \div s) * s + (a % s)
OBVIOUS

LEMMA DivisionIs ==
    ASSUME NEW s \in Nat \ {0}, NEW d \in Nat, NEW m \in 0 .. (s - 1)
    PROVE  (d * s + m) \div s = d
OBVIOUS

LEMMA Monotone ==
    ASSUME NEW a \in Nat, NEW b \in Nat, NEW s \in Nat, a <= b
    PROVE  a * s <= b * s /\ a * s \in Nat
OBVIOUS

(* Rounding up to whole sectors.                                           *)
LEMMA RoundsUp ==
    ASSUME NEW q \in Nat, NEW r \in Nat
    PROVE  /\ RoundedUp(q * SectorBytes + r) = (q + (r + SectorBytes - 1) \div SectorBytes) * SectorBytes
           /\ RoundedUp(q * SectorBytes + r) >= q * SectorBytes + r
<1>. DEFINE s == SectorBytes
            d == (r + s - 1) \div s
            m == (r + s - 1) % s
<1>1. s \in Nat \ {0} /\ r + s - 1 \in Nat /\ q * s \in Nat
  BY VolumeAssumption
<1>2. d \in Nat /\ m \in 0 .. (s - 1) /\ r + s - 1 = d * s + m
  BY <1>1, Division
<1>. HIDE DEF d, m
<1>3. (q + d) * s = q * s + d * s /\ q + d \in Nat
  BY <1>1, <1>2
<1>4. (q * s + r) + s - 1 = (q + d) * s + m
  BY <1>1, <1>2, <1>3
<1>5. ((q + d) * s + m) \div s = q + d
  BY <1>1, <1>2, <1>3, DivisionIs
<1>6. RoundedUp(q * s + r) = (q + d) * s
  BY <1>4, <1>5 DEF RoundedUp
<1>7. (q + d) * s >= q * s + r
  BY <1>1, <1>2, <1>3
<1>. QED
  BY <1>6, <1>7 DEF d

----------------------------------------------------------------------------
(* The volume.                                                             *)
LEMMA Least ==
    ASSUME NEW T, T \subseteq Nat, T # {}
    PROVE  \E x \in T : \A y \in T : x <= y
<1>. DEFINE Less == OpToRel(<, Nat)
<1>1. IsWellFoundedOn(Less, Nat)
  BY NatLessThanWellFounded
<1>2. \A x, y \in Nat : y < x => <<y, x>> \in Less
  BY Zenon DEF OpToRel
<1>. HIDE DEF Less
<1>3. PICK x \in T : \A y \in T : ~ (<<y, x>> \in Less)
  BY <1>1, WFMin
<1>4. \A y \in T : ~ (y < x)
  BY <1>2, <1>3
<1>5. \A y \in T : x <= y
  BY <1>3, <1>4
<1>. QED
  BY <1>5

LEMMA Member ==
    ASSUME NEW S, NEW q \in Seq(S), NEW k \in DOMAIN q
    PROVE  q[k] \in S
OBVIOUS

(* The partition found has a boot record.                                  *)
LEMMA FirstPartHasRecord ==
    ASSUME card \in Cards, FirstPart # 0
    PROVE  FirstPart \in Word /\ card.boot[FirstPart] \in BootRecord
<1>1. /\ card.parts \in Seq([fat : BOOLEAN, lba : Word])
      /\ \A k \in DOMAIN card.parts : card.parts[k].fat => card.boot[card.parts[k].lba] \in BootRecord
  BY VolumeAssumption
<1>2. FatParts # {} /\ FatParts \subseteq DOMAIN card.parts
  BY DEF FirstPart, FatParts
<1>3. DOMAIN card.parts \subseteq Nat
  BY <1>1
<1>4. \E k \in FatParts : \A j \in FatParts : k <= j
  BY <1>2, <1>3, Least, Zenon
<1>5. PICK k \in FatParts : FirstPart = card.parts[k].lba
  BY <1>2, <1>4, Zenon DEF FirstPart
<1>6. k \in DOMAIN card.parts /\ card.parts[k].fat
  BY <1>5, Zenon DEF FatParts
<1>7. card.parts[k].lba \in Word
  <2>1. card.parts[k] \in [fat : BOOLEAN, lba : Word]
    BY <1>1, <1>6, Member
  <2>. QED
    BY <2>1
<1>. QED
  BY <1>1, <1>5, <1>6, <1>7

(* What is read from a sector is a table sector.                           *)
LEMMA ContentsAreEntries ==
    ASSUME NEW l \in Nat, card \in Cards
    PROVE  Contents(l) \subseteq TableSector
<1>. DEFINE n == EntriesPerSector
            g == l - TableStart(FirstPart)
<1>1. n \in Nat \ {0} /\ EndOfChain \in Nat /\ ForeignEntries \subseteq Entry /\ card.fat \in Seq(Entry)
  BY VolumeAssumption
<1>2. CASE IsTable(l)
  <2>1. FirstPart # 0 /\ l >= TableStart(FirstPart) /\ (g + 1) * n <= Len(card.fat)
    BY <1>2 DEF IsTable
  <2>2. TableStart(FirstPart) \in Nat
    <3>1. FirstPart \in Nat /\ card.boot[FirstPart] \in BootRecord
      BY <2>1, FirstPartHasRecord DEF Word
    <3>2. card.boot[FirstPart].rsc \in Nat
      BY <3>1 DEF BootRecord, Word
    <3>. QED
      BY <3>1, <3>2 DEF TableStart
  <2>3. g \in Nat
    BY <2>1, <2>2
  <2>. HIDE DEF g
  <2>4. ASSUME NEW e \in 0 .. (n - 1)
        PROVE  card.fat[g * n + e + 1] \in Entry
    <3>1. g * n \in Nat /\ g * n + n <= Len(card.fat)
      BY <1>1, <2>1, <2>3
    <3>2. g * n + e + 1 \in 1 .. Len(card.fat)
      BY <1>1, <3>1
    <3>. QED
      BY <1>1, <3>2
  <2>5. Contents(l) = {[e \in 0 .. (n - 1) |-> card.fat[g * n + e + 1]]}
    BY <1>2 DEF Contents, g
  <2>. QED
    BY <2>4, <2>5 DEF TableSector
<1>3. CASE ~ IsTable(l)
  <2>1. Contents(l) = {[e \in 0 .. (n - 1) |-> v] : v \in ForeignEntries}
    BY <1>3 DEF Contents
  <2>. QED
    BY <1>1, <2>1 DEF TableSector
<1>. QED
  BY <1>2, <1>3

VolumeInv == TypeOK /\ PartitionIsSound /\ CacheIsCoherent

(* What the card alone decides.                                            *)
LEMMA CardDecides ==
    ASSUME card' = card
    PROVE  /\ FirstPart' = FirstPart
           /\ \A l, n : Readable(l, n)' <=> Readable(l, n)
           /\ \A l : Contents(l)' = Contents(l)
<1>1. FirstPart' = FirstPart
  BY DEF FirstPart, FatParts
<1>2. \A l, n : Readable(l, n)' <=> Readable(l, n)
  BY DEF Readable
<1>3. \A l : Contents(l)' = Contents(l)
  BY <1>1 DEF Contents, IsTable, TableStart
<1>. QED
  BY <1>1, <1>2, <1>3

LEMMA VolumeStays ==
    ASSUME VolumeInv, UNCHANGED volume
    PROVE  VolumeInv'
<1>1. TypeOK'
  BY DEF VolumeInv, TypeOK, volume
<1>2. PartitionIsSound'
  BY CardDecides DEF VolumeInv, PartitionIsSound, Sane, volume
<1>3. CacheIsCoherent'
  BY CardDecides DEF VolumeInv, CacheIsCoherent, volume, NoSector
<1>. QED
  BY <1>1, <1>2, <1>3 DEF VolumeInv

LEMMA VolumeInit == Init => VolumeInv
<1>. SUFFICES ASSUME Init PROVE VolumeInv
  OBVIOUS
<1>1. TypeOK
  BY VolumeAssumption DEF Init, TypeOK, Word, TableSector, Entry, NoSector, NoRecord, BootRecord
<1>2. PartitionIsSound /\ CacheIsCoherent
  BY DEF Init, PartitionIsSound, CacheIsCoherent
<1>. QED
  BY <1>1, <1>2 DEF VolumeInv

(* fat_getpartition.                                                       *)
LEMMA GetPartitionKeeps ==
    ASSUME VolumeInv, NEW found, GetPartition(found)
    PROVE  VolumeInv'
<1>1. CASE UNCHANGED volume
  BY <1>1, VolumeStays
<1>2. CASE /\ partitionlba = 0 /\ FirstPart # 0 /\ bpb' = card.boot[FirstPart]
           /\ \/ UNCHANGED <<partitionlba, cached_fat_lba>>
              \/ Sane(bpb') /\ partitionlba' = FirstPart /\ cached_fat_lba' = NoSector
           /\ UNCHANGED <<card, fat_cache_buf>>
  <2>1. FirstPart \in Word /\ card.boot[FirstPart] \in BootRecord
    BY <1>2, FirstPartHasRecord DEF VolumeInv, TypeOK
  <2>2. NoSector \in Word
    BY VolumeAssumption DEF NoSector, Word
  <2>3. TypeOK'
    BY <1>2, <2>1, <2>2 DEF VolumeInv, TypeOK
  <2>4. PartitionIsSound'
    BY <1>2, CardDecides DEF PartitionIsSound, Sane
  <2>5. CacheIsCoherent'
    BY <1>2, CardDecides DEF VolumeInv, CacheIsCoherent, NoSector
  <2>. QED
    BY <2>3, <2>4, <2>5 DEF VolumeInv
<1>. QED
  BY <1>1, <1>2 DEF GetPartition

(* fat_get_next_cluster.                                                   *)
LEMMA NextClusterKeeps ==
    ASSUME VolumeInv, NEW c \in Entry, NEW next, NextCluster(c, next)
    PROVE  VolumeInv' /\ next \in Entry
<1>. DEFINE l == (partitionlba + bpb.rsc + c \div EntriesPerSector) % WordSpace
            e == c % EntriesPerSector
<1>1. /\ card \in Cards /\ partitionlba \in Nat /\ cached_fat_lba \in Word
      /\ fat_cache_buf \in TableSector /\ bpb \in BootRecord
  BY VolumeAssumption DEF VolumeInv, TypeOK, Word
<1>2. bpb.rsc \in Nat
  BY <1>1 DEF BootRecord, Word
<1>3. /\ EntriesPerSector \in Nat \ {0} /\ WordSpace \in Nat \ {0}
      /\ c \in Nat /\ BadCluster \in Entry
  BY VolumeAssumption DEF Entry
<1>4. c \div EntriesPerSector \in Nat /\ e \in 0 .. (EntriesPerSector - 1)
  BY <1>3, Division
<1>5. l \in Word
  <2>1. partitionlba + bpb.rsc + c \div EntriesPerSector \in Nat
    BY <1>1, <1>2, <1>4
  <2>. QED
    BY <1>3, <2>1, Division DEF Word
<1>6. l \in Nat /\ NoSector \in Word
  BY <1>3, <1>5 DEF Word, NoSector
<1>7. UNCHANGED <<card, partitionlba, bpb>>
  BY DEF NextCluster
<1>8. PartitionIsSound'
  BY <1>7, CardDecides DEF VolumeInv, PartitionIsSound, Sane
<1>9. Contents(l) \subseteq TableSector
  BY <1>1, <1>6, ContentsAreEntries
<1>10. \A b \in TableSector : b[e] \in Entry
  BY <1>4 DEF TableSector
<1>. HIDE DEF l, e
<1>11. CASE UNCHANGED <<cached_fat_lba, fat_cache_buf>> /\ next \in {BadCluster, fat_cache_buf[e]}
  BY <1>1, <1>3, <1>7, <1>10, <1>11, VolumeStays DEF volume
<1>12. CASE /\ Readable(l, 1) /\ fat_cache_buf' \in Contents(l) /\ cached_fat_lba' = l
            /\ next = fat_cache_buf'[e]
  <2>1. TypeOK'
    BY <1>1, <1>5, <1>7, <1>9, <1>12 DEF TypeOK, VolumeInv
  <2>2. CacheIsCoherent'
    BY <1>7, <1>12, CardDecides DEF CacheIsCoherent
  <2>. QED
    BY <1>8, <1>9, <1>10, <1>12, <2>1, <2>2 DEF VolumeInv
<1>13. CASE TableReadFails(l) /\ next = BadCluster
  <2>1. fat_cache_buf' \in TableSector /\ cached_fat_lba' = NoSector
    BY <1>1, <1>9, <1>13 DEF TableReadFails
  <2>2. TypeOK'
    BY <1>1, <1>6, <1>7, <2>1 DEF TypeOK, VolumeInv
  <2>3. CacheIsCoherent'
    BY <2>1 DEF CacheIsCoherent, NoSector
  <2>. QED
    BY <1>3, <1>8, <1>13, <2>2, <2>3 DEF VolumeInv
<1>. QED
  BY <1>11, <1>12, <1>13 DEF NextCluster, l, e

----------------------------------------------------------------------------
(* The read.  What was read before a run are whole sectors, and the last   *)
(* part begins behind them.                                                *)
Aligned ==
    pc \in {"next", "run", "read"} =>
        total_read < max_size /\ \E q \in Nat : total_read = q * SectorBytes

Remaining == pc = "read" => bytes_remaining = max_size - total_read

Sectorwise ==
    pc = "sectors" =>
        /\ sectors_done < sectors_to_read
        /\ \E q \in Nat : /\ max_size = q * SectorBytes + bytes_remaining
                          /\ total_read <= (q + sectors_done) * SectorBytes

IInv ==
    /\ VolumeInv /\ ReadTypeOK
    /\ Aligned /\ Remaining /\ Sectorwise /\ StaysInLastSector

LEMMA Geometry ==
    ASSUME VolumeInv
    PROVE  /\ SectorBytes \in Nat \ {0} /\ WordSpace \in Nat \ {0}
           /\ bpb.spc \in Nat /\ cluster_bytes \in Nat
           /\ \A c \in Entry : ClusterLba(c) \in Nat
<1>1. SectorBytes \in Nat \ {0} /\ WordSpace \in Nat \ {0}
  BY VolumeAssumption
<1>2. /\ bpb.spc \in Nat /\ bpb.rsc \in Nat /\ bpb.nf \in Nat /\ bpb.spf32 \in Nat
      /\ partitionlba \in Nat
  BY DEF VolumeInv, TypeOK, BootRecord, Word
<1>3. cluster_bytes \in Nat
  BY <1>1, <1>2, Monotone DEF cluster_bytes
<1>4. data_sec \in Nat
  <2>1. bpb.nf * bpb.spf32 \in Nat
    BY <1>2
  <2>. QED
    BY <1>2, <2>1 DEF data_sec
<1>5. ASSUME NEW c \in Entry
      PROVE  ClusterLba(c) \in Nat
  <2>1. c - 2 \in Int
    BY DEF Entry
  <2>2. (c - 2) * bpb.spc \in Int
    BY <1>2, <2>1
  <2>3. data_sec + (c - 2) * bpb.spc \in Int
    BY <1>4, <2>2
  <2>. QED
    BY <1>1, <2>3 DEF ClusterLba
<1>. QED
  BY <1>1, <1>2, <1>3, <1>5

(* A copy that ends within the last sector.                                *)
LEMMA CopyStays ==
    ASSUME ReadTypeOK, StaysInLastSector, NEW a \in Nat, NEW n \in Nat, NEW b \in Int,
           a + n <= RoundedUp(max_size), RoundedUp(max_size) \in Nat
    PROVE  /\ Copied(a, b, n) \in [0 .. (Span - 1) -> Int]
           /\ \A k \in DOMAIN Copied(a, b, n) :
                 k >= RoundedUp(max_size) => Copied(a, b, n)[k] = Untouched
<1>. DEFINE u == RoundedUp(max_size)
<1>1. dest \in [0 .. (Span - 1) -> Int] /\ Span \in Nat
  BY ReadAssumption DEF ReadTypeOK
<1>2. \A k \in DOMAIN dest : k >= u => dest[k] = Untouched
  BY DEF StaysInLastSector
<1>. HIDE DEF u
<1>3. Copied(a, b, n) = [k \in 0 .. (Span - 1) |->
                           IF k \in a .. (a + n - 1) THEN b + (k - a) ELSE dest[k]]
  BY <1>1 DEF Copied
<1>4. Copied(a, b, n) \in [0 .. (Span - 1) -> Int]
  BY <1>1, <1>3
<1>5. a + n <= u /\ u \in Nat
  BY DEF u
<1>6. ASSUME NEW k \in 0 .. (Span - 1), k >= u
      PROVE  Copied(a, b, n)[k] = Untouched
  <2>1. k \notin a .. (a + n - 1)
    BY <1>5, <1>6
  <2>. QED
    BY <1>1, <1>2, <1>3, <1>6, <2>1
<1>. QED
  BY <1>3, <1>4, <1>6 DEF u

LEMMA RoundedUpHolds ==
    ASSUME VolumeInv, NEW m \in Nat
    PROVE  RoundedUp(m) \in Nat /\ RoundedUp(m) >= m
<1>1. SectorBytes \in Nat \ {0}
  BY Geometry
<1>2. 0 * SectorBytes + m = m
  BY <1>1
<1>3. RoundedUp(m) >= m
  BY <1>2, RoundsUp
<1>4. (m + SectorBytes - 1) \div SectorBytes \in Nat
  BY <1>1, Division
<1>5. RoundedUp(m) \in Nat
  BY <1>1, <1>4, Monotone DEF RoundedUp
<1>. QED
  BY <1>3, <1>5

LEMMA InitHolds == ReadInit => IInv
<1>. SUFFICES ASSUME ReadInit PROVE IInv
  OBVIOUS
<1>1. VolumeInv
  BY VolumeInit DEF ReadInit
<1>2. ReadTypeOK
  BY <1>1, VolumeAssumption DEF ReadInit, Init, ReadTypeOK, VolumeInv, PcValues, Entry, Untouched
<1>3. Aligned /\ Remaining /\ Sectorwise
  BY DEF ReadInit, Aligned, Remaining, Sectorwise
<1>4. StaysInLastSector
  BY DEF ReadInit, StaysInLastSector
<1>. QED
  BY <1>1, <1>2, <1>3, <1>4 DEF IInv

LEMMA CallKeeps ==
    ASSUME IInv, NEW c \in Firsts, NEW n \in Sizes, Call(c, n)
    PROVE  IInv'
<1>1. PICK found \in BOOLEAN :
          /\ GetPartition(found)
          /\ \/ /\ found /\ c >= 2 /\ n # 0
                /\ pc' = IF InChain(c) THEN "next" ELSE "done"
                /\ first' = c /\ max_size' = n /\ cluster' = c
                /\ total_read' = 0 /\ failed' = {}
                /\ run_start' = c /\ run_clusters' = 1 /\ next_cl' = 0
                /\ sectors_done' = 0 /\ bytes_remaining' = 0
                /\ dest' = [k \in DOMAIN dest |-> Untouched]
                /\ UNCHANGED lastFileDimension
             \/ /\ ~ (found /\ c >= 2 /\ n # 0)
                /\ UNCHANGED read
  BY DEF Call
<1>2. VolumeInv'
  BY <1>1, GetPartitionKeeps DEF IInv
<1>3. c \in Entry /\ n \in Nat /\ SectorBytes \in Nat
  BY ReadAssumption, VolumeAssumption DEF Word
<1>4. CASE UNCHANGED read
  <2>1. pc = "out"
    BY DEF Call
  <2>2. ReadTypeOK'
    BY <1>2, <1>4 DEF IInv, ReadTypeOK, VolumeInv, read
  <2>3. StaysInLastSector'
    BY <1>4 DEF IInv, StaysInLastSector, read, RoundedUp
  <2>4. Aligned' /\ Remaining' /\ Sectorwise'
    BY <1>4, <2>1 DEF Aligned, Remaining, Sectorwise, read
  <2>. QED
    BY <1>2, <2>2, <2>3, <2>4 DEF IInv
<1>5. CASE /\ n # 0 /\ pc' \in {"next", "done"}
           /\ first' = c /\ max_size' = n /\ cluster' = c
           /\ total_read' = 0 /\ failed' = {}
           /\ run_start' = c /\ run_clusters' = 1 /\ next_cl' = 0
           /\ sectors_done' = 0 /\ bytes_remaining' = 0
           /\ dest' = [k \in DOMAIN dest |-> Untouched]
           /\ UNCHANGED lastFileDimension
  <2>1. dest' = [k \in 0 .. (Span - 1) |-> Untouched]
    BY <1>5 DEF IInv, ReadTypeOK
  <2>2. ReadTypeOK'
    BY <1>2, <1>3, <1>5, <2>1, VolumeAssumption DEF IInv, ReadTypeOK, VolumeInv, PcValues, Entry, Untouched
  <2>3. StaysInLastSector'
    BY <2>1 DEF StaysInLastSector
  <2>4. total_read' < max_size' /\ total_read' = 0 * SectorBytes
    BY <1>3, <1>5
  <2>5. Aligned' /\ Remaining' /\ Sectorwise'
    BY <1>5, <2>4 DEF Aligned, Remaining, Sectorwise
  <2>. QED
    BY <1>2, <2>2, <2>3, <2>5 DEF IInv
<1>. QED
  BY <1>1, <1>4, <1>5

LEMMA LookupKeeps ==
    ASSUME IInv, Lookup
    PROVE  IInv'
<1>1. VolumeInv' /\ next_cl' \in Entry
  BY NextClusterKeeps DEF IInv, ReadTypeOK, Lookup
<1>2. ReadTypeOK'
  BY <1>1 DEF IInv, ReadTypeOK, VolumeInv, Lookup, PcValues
<1>3. StaysInLastSector'
  BY DEF IInv, StaysInLastSector, Lookup, RoundedUp
<1>4. Aligned' /\ Remaining' /\ Sectorwise'
  BY DEF IInv, Aligned, Remaining, Sectorwise, Lookup
<1>. QED
  BY <1>1, <1>2, <1>3, <1>4 DEF IInv

LEMMA CoalesceKeeps ==
    ASSUME IInv, Coalesce
    PROVE  IInv'
<1>1. VolumeInv'
  BY VolumeStays DEF IInv, Coalesce
<1>2. total_read < max_size /\ total_read \in Nat /\ max_size \in Nat
  BY DEF IInv, Aligned, ReadTypeOK, Coalesce
<1>3. ReadTypeOK'
  BY <1>1, <1>2 DEF IInv, ReadTypeOK, VolumeInv, Coalesce, PcValues
<1>4. StaysInLastSector'
  BY DEF IInv, StaysInLastSector, Coalesce, RoundedUp
<1>5. Aligned' /\ Remaining' /\ Sectorwise'
  BY DEF IInv, Aligned, Remaining, Sectorwise, Coalesce
<1>. QED
  BY <1>1, <1>3, <1>4, <1>5 DEF IInv

(* What a run holds, and that it ends within the request if it fits.       *)
LEMMA RunFits ==
    ASSUME IInv, pc = "read", Fits
    PROVE  /\ run_bytes = (run_clusters * bpb.spc) * SectorBytes
           /\ run_clusters * bpb.spc \in Nat /\ run_bytes \in Nat
           /\ total_read + run_bytes <= max_size
           /\ max_size <= RoundedUp(max_size) /\ RoundedUp(max_size) \in Nat
<1>1. /\ SectorBytes \in Nat /\ bpb.spc \in Nat /\ run_clusters \in Nat
      /\ total_read \in Nat /\ max_size \in Nat
  BY Geometry DEF IInv, ReadTypeOK
<1>2. run_clusters * bpb.spc \in Nat
  BY <1>1, Monotone
<1>3. run_bytes = (run_clusters * bpb.spc) * SectorBytes
  BY <1>1 DEF run_bytes, cluster_bytes
<1>4. run_bytes \in Nat
  BY <1>1, <1>2, <1>3, Monotone
<1>5. total_read + run_bytes <= max_size
  BY <1>1, <1>4 DEF IInv, Remaining, Fits
<1>. QED
  BY <1>1, <1>2, <1>3, <1>4, <1>5, RoundedUpHolds DEF IInv

LEMMA ReadRunKeeps ==
    ASSUME IInv, ReadRun
    PROVE  IInv'
<1>. DEFINE n == run_clusters * bpb.spc
            b == ClusterLba(run_start) * SectorBytes
<1>1. VolumeInv'
  BY VolumeStays DEF IInv, ReadRun
<1>2. /\ run_bytes = n * SectorBytes /\ n \in Nat /\ run_bytes \in Nat
      /\ total_read + run_bytes <= max_size
      /\ max_size <= RoundedUp(max_size) /\ RoundedUp(max_size) \in Nat
  BY RunFits DEF ReadRun
<1>3. SectorBytes \in Nat /\ total_read \in Nat /\ max_size \in Nat /\ next_cl \in Entry
  BY Geometry DEF IInv, ReadTypeOK
<1>4. b \in Int
  BY <1>3, Geometry DEF IInv, ReadTypeOK
<1>. HIDE DEF n, b
<1>5. /\ dest' = Copied(total_read, b, run_bytes) /\ total_read' = total_read + run_bytes
      /\ UNCHANGED <<volume, first, max_size, next_cl, sectors_done, bytes_remaining,
                     lastFileDimension, failed>>
      /\ cluster' = next_cl /\ run_start' = next_cl /\ run_clusters' = 1
      /\ pc' \in {"next", "done"}
      /\ pc' = "next" => total_read' < max_size
  BY DEF ReadRun, Loop, b
<1>6. total_read + run_bytes <= RoundedUp(max_size)
  BY <1>2, <1>3
<1>7. /\ Copied(total_read, b, run_bytes) \in [0 .. (Span - 1) -> Int]
      /\ \A k \in DOMAIN Copied(total_read, b, run_bytes) :
            k >= RoundedUp(max_size) => Copied(total_read, b, run_bytes)[k] = Untouched
  BY <1>2, <1>3, <1>4, <1>6, CopyStays DEF IInv
<1>8. ReadTypeOK'
  BY <1>1, <1>2, <1>3, <1>5, <1>7 DEF IInv, ReadTypeOK, VolumeInv, PcValues
<1>9. StaysInLastSector'
  BY <1>5, <1>7 DEF StaysInLastSector, RoundedUp
<1>10. PICK q \in Nat : total_read = q * SectorBytes
  BY DEF IInv, Aligned, ReadRun
<1>11. q + n \in Nat /\ total_read' = (q + n) * SectorBytes
  BY <1>2, <1>3, <1>5, <1>10
<1>12. Aligned' /\ Remaining' /\ Sectorwise'
  BY <1>5, <1>11 DEF Aligned, Remaining, Sectorwise
<1>. QED
  BY <1>1, <1>8, <1>9, <1>12 DEF IInv

LEMMA RunFailsKeeps ==
    ASSUME IInv, RunFails
    PROVE  IInv'
<1>. DEFINE n == run_clusters * bpb.spc
            b == ClusterLba(run_start) * SectorBytes
<1>1. VolumeInv'
  BY VolumeStays DEF IInv, RunFails
<1>2. /\ run_bytes = n * SectorBytes /\ n \in Nat /\ run_bytes \in Nat
      /\ total_read + run_bytes <= max_size
      /\ max_size <= RoundedUp(max_size) /\ RoundedUp(max_size) \in Nat
  BY RunFits DEF RunFails
<1>3. SectorBytes \in Nat /\ total_read \in Nat /\ max_size \in Nat
  BY Geometry DEF IInv, ReadTypeOK
<1>4. b \in Int
  BY <1>3, Geometry DEF IInv, ReadTypeOK
<1>5. PICK k \in 0 .. RunSectors :
          k \in 0 .. n /\ dest' = Copied(total_read, b, k * SectorBytes)
  BY DEF RunFails, FailsAfter
<1>. HIDE DEF n, b
<1>6. k \in Nat /\ k <= n
  BY <1>2, <1>5
<1>7. k * SectorBytes \in Nat /\ k * SectorBytes <= run_bytes
  BY <1>2, <1>3, <1>6, Monotone
<1>. DEFINE w == k * SectorBytes
<1>. HIDE DEF w
<1>8. w \in Nat /\ total_read + w <= RoundedUp(max_size)
  BY <1>2, <1>3, <1>7 DEF w
<1>9. /\ Copied(total_read, b, w) \in [0 .. (Span - 1) -> Int]
      /\ \A j \in DOMAIN Copied(total_read, b, w) :
            j >= RoundedUp(max_size) => Copied(total_read, b, w)[j] = Untouched
  BY <1>2, <1>3, <1>4, <1>8, CopyStays DEF IInv
<1>10. /\ pc' = "done" /\ failed' = failed \union {"data"} /\ dest' = Copied(total_read, b, w)
       /\ UNCHANGED <<volume, first, max_size, cluster, run_start, run_clusters, next_cl,
                      total_read, sectors_done, bytes_remaining, lastFileDimension>>
  BY <1>5 DEF RunFails, w
<1>11. ReadTypeOK'
  BY <1>1, <1>9, <1>10 DEF IInv, ReadTypeOK, VolumeInv, PcValues
<1>12. StaysInLastSector'
  BY <1>9, <1>10 DEF StaysInLastSector, RoundedUp
<1>13. Aligned' /\ Remaining' /\ Sectorwise'
  BY <1>10 DEF Aligned, Remaining, Sectorwise
<1>. QED
  BY <1>1, <1>11, <1>12, <1>13 DEF IInv

LEMMA ReadLastSectorKeeps ==
    ASSUME IInv, ReadLastSector
    PROVE  IInv'
<1>. DEFINE b == ClusterLba(run_start) * SectorBytes
<1>1. VolumeInv'
  BY VolumeStays DEF IInv, ReadLastSector
<1>2. /\ SectorBytes \in Nat /\ total_read \in Nat /\ max_size \in Nat /\ bytes_remaining \in Nat
      /\ max_size <= RoundedUp(max_size) /\ RoundedUp(max_size) \in Nat
  BY Geometry, RoundedUpHolds DEF IInv, ReadTypeOK
<1>3. total_read + bytes_remaining = max_size
  BY <1>2 DEF IInv, Remaining, ReadLastSector
<1>4. b \in Int
  BY <1>2, Geometry DEF IInv, ReadTypeOK
<1>. HIDE DEF b
<1>5. /\ Copied(total_read, b, bytes_remaining) \in [0 .. (Span - 1) -> Int]
      /\ \A j \in DOMAIN Copied(total_read, b, bytes_remaining) :
            j >= RoundedUp(max_size) => Copied(total_read, b, bytes_remaining)[j] = Untouched
  BY <1>2, <1>3, <1>4, CopyStays DEF IInv
<1>6. /\ \/ /\ dest' = Copied(total_read, b, bytes_remaining)
            /\ total_read' = total_read + bytes_remaining /\ UNCHANGED failed
         \/ failed' = failed \union {"data"} /\ UNCHANGED <<dest, total_read>>
      /\ pc' = "done"
      /\ UNCHANGED <<volume, first, max_size, cluster, run_start, run_clusters, next_cl,
                     sectors_done, bytes_remaining, lastFileDimension>>
  BY DEF ReadLastSector, b
<1>7. ReadTypeOK'
  <2>1. dest' \in [0 .. (Span - 1) -> Int]
    BY <1>5, <1>6 DEF IInv, ReadTypeOK
  <2>2. total_read' \in Nat
    BY <1>2, <1>6
  <2>3. failed' \subseteq {"table", "data"}
    <3>1. failed \subseteq {"table", "data"}
      BY DEF IInv, ReadTypeOK
    <3>. QED
      BY <1>6, <3>1
  <2>. QED
    BY <1>1, <1>6, <2>1, <2>2, <2>3 DEF IInv, ReadTypeOK, VolumeInv, PcValues
<1>8. StaysInLastSector'
  BY <1>5, <1>6 DEF IInv, StaysInLastSector, RoundedUp
<1>9. Aligned' /\ Remaining' /\ Sectorwise'
  BY <1>6 DEF Aligned, Remaining, Sectorwise
<1>. QED
  BY <1>1, <1>7, <1>8, <1>9 DEF IInv

LEMMA GoBySectorsKeeps ==
    ASSUME IInv, GoBySectors
    PROVE  IInv'
<1>1. VolumeInv'
  BY VolumeStays DEF IInv, GoBySectors
<1>2. ReadTypeOK'
  BY <1>1 DEF IInv, ReadTypeOK, VolumeInv, GoBySectors, PcValues
<1>3. StaysInLastSector'
  BY DEF IInv, StaysInLastSector, GoBySectors, RoundedUp
<1>4. PICK q \in Nat : total_read = q * SectorBytes
  BY DEF IInv, Aligned, GoBySectors
<1>5. /\ total_read \in Nat /\ max_size \in Nat /\ bytes_remaining = max_size - total_read
      /\ SectorBytes \in Nat
  BY Geometry DEF IInv, ReadTypeOK, Remaining, GoBySectors
<1>6. max_size' = q * SectorBytes + bytes_remaining' /\ total_read' <= (q + sectors_done') * SectorBytes
  BY <1>4, <1>5 DEF GoBySectors
<1>7. sectors_done' < sectors_to_read'
  <2>1. sectors_to_read' = sectors_to_read /\ sectors_to_read > 1 /\ sectors_done' = 0
    BY DEF GoBySectors, sectors_to_read
  <2>2. sectors_to_read \in Nat
    <3>1. bytes_remaining + SectorBytes - 1 \in Nat
      BY Geometry DEF IInv, ReadTypeOK
    <3>. QED
      BY <3>1, Geometry, Division DEF IInv, sectors_to_read
  <2>. QED
    BY <2>1, <2>2
<1>8. Aligned' /\ Remaining' /\ Sectorwise'
  BY <1>6, <1>7 DEF Aligned, Remaining, Sectorwise, GoBySectors
<1>. QED
  BY <1>1, <1>2, <1>3, <1>8 DEF IInv

LEMMA ReadSectorKeeps ==
    ASSUME IInv, ReadSector
    PROVE  IInv'
<1>. DEFINE l == (ClusterLba(run_start) + sectors_done) % WordSpace
            b == l * SectorBytes
            d == (bytes_remaining + SectorBytes - 1) \div SectorBytes
<1>1. VolumeInv'
  BY VolumeStays DEF IInv, ReadSector
<1>2. /\ SectorBytes \in Nat \ {0} /\ WordSpace \in Nat \ {0}
      /\ total_read \in Nat /\ max_size \in Nat /\ bytes_remaining \in Nat /\ sectors_done \in Nat
      /\ RoundedUp(max_size) \in Nat /\ ClusterLba(run_start) \in Nat
  BY Geometry, RoundedUpHolds DEF IInv, ReadTypeOK
<1>3. b \in Int
  <2>1. ClusterLba(run_start) + sectors_done \in Nat
    BY <1>2
  <2>2. l \in Nat
    BY <1>2, <2>1, Division
  <2>. QED
    BY <1>2, <2>2
<1>4. copy \in 0 .. SectorBytes
  <2>1. (bytes_remaining - total_read) % WordSpace \in Nat
    <3>1. bytes_remaining - total_read \in Int
      BY <1>2
    <3>. QED
      BY <1>2, <3>1
  <2>. QED
    BY <1>2, <2>1 DEF copy
<1>5. PICK q \in Nat : /\ max_size = q * SectorBytes + bytes_remaining
                       /\ total_read <= (q + sectors_done) * SectorBytes
  BY DEF IInv, Sectorwise, ReadSector
<1>6. sectors_done < d
  BY DEF IInv, Sectorwise, ReadSector, sectors_to_read
<1>7. RoundedUp(max_size) = (q + d) * SectorBytes
  BY <1>2, <1>5, RoundsUp
<1>8. d \in Nat
  <2>1. bytes_remaining + SectorBytes - 1 \in Nat
    BY <1>2
  <2>. QED
    BY <1>2, <2>1, Division
<1>9. /\ dest' = Copied(total_read, b, copy)
      /\ total_read' = total_read + copy /\ sectors_done' = sectors_done + 1
      /\ pc' \in {"sectors", "done"} /\ (pc' = "sectors" => sectors_done' < d)
      /\ UNCHANGED <<volume, first, max_size, cluster, run_start, run_clusters, next_cl,
                     bytes_remaining, lastFileDimension, failed>>
  BY DEF ReadSector, sectors_to_read
<1>. HIDE DEF l, b, d
<1>10. total_read + copy <= (q + (sectors_done + 1)) * SectorBytes
  <2>1. (q + (sectors_done + 1)) * SectorBytes = (q + sectors_done) * SectorBytes + SectorBytes
    BY <1>2
  <2>2. (q + sectors_done) * SectorBytes \in Nat
    BY <1>2
  <2>. QED
    BY <1>2, <1>4, <1>5, <2>1, <2>2
<1>11. (q + (sectors_done + 1)) * SectorBytes <= (q + d) * SectorBytes
  <2>1. /\ q + (sectors_done + 1) \in Nat /\ q + d \in Nat
        /\ q + (sectors_done + 1) <= q + d
    BY <1>2, <1>6, <1>8
  <2>. QED
    BY <1>2, <2>1, Monotone
<1>12. total_read + copy <= RoundedUp(max_size)
  <2>1. /\ (q + (sectors_done + 1)) * SectorBytes \in Int /\ (q + d) * SectorBytes \in Int
        /\ total_read + copy \in Int
    BY <1>2, <1>4, <1>8
  <2>. QED
    BY <1>7, <1>10, <1>11, <2>1
<1>13. /\ Copied(total_read, b, copy) \in [0 .. (Span - 1) -> Int]
       /\ \A j \in DOMAIN Copied(total_read, b, copy) :
             j >= RoundedUp(max_size) => Copied(total_read, b, copy)[j] = Untouched
  BY <1>2, <1>3, <1>4, <1>12, CopyStays DEF IInv
<1>14. ReadTypeOK'
  <2>1. total_read' \in Nat /\ sectors_done' \in Nat
    BY <1>2, <1>4, <1>9
  <2>. QED
    BY <1>1, <1>9, <1>13, <2>1 DEF IInv, ReadTypeOK, VolumeInv, PcValues
<1>15. StaysInLastSector'
  BY <1>9, <1>13 DEF StaysInLastSector, RoundedUp
<1>16. sectors_to_read' = d
  BY <1>9 DEF sectors_to_read, d
<1>17. Aligned' /\ Remaining' /\ Sectorwise'
  BY <1>5, <1>9, <1>10, <1>16 DEF Aligned, Remaining, Sectorwise
<1>. QED
  BY <1>1, <1>14, <1>15, <1>17 DEF IInv

(* A failing sector, and the return.                                       *)
LEMMA EndsKeep ==
    ASSUME IInv, SectorFails \/ Return
    PROVE  IInv'
<1>1. /\ UNCHANGED <<volume, first, max_size, cluster, run_start, run_clusters, next_cl,
                     total_read, sectors_done, bytes_remaining, dest>>
      /\ pc' = "out" /\ failed' \in {failed, failed \union {"data"}}
      /\ lastFileDimension' \in {lastFileDimension, total_read}
  BY DEF SectorFails, Return
<1>2. VolumeInv'
  BY <1>1, VolumeStays DEF IInv
<1>3. ReadTypeOK'
  BY <1>1, <1>2 DEF IInv, ReadTypeOK, VolumeInv, PcValues
<1>4. StaysInLastSector'
  BY <1>1 DEF IInv, StaysInLastSector, RoundedUp
<1>5. Aligned' /\ Remaining' /\ Sectorwise'
  BY <1>1 DEF Aligned, Remaining, Sectorwise
<1>. QED
  BY <1>2, <1>3, <1>4, <1>5 DEF IInv

LEMMA NextHolds == IInv /\ [Next]_vars => IInv'
<1>. SUFFICES ASSUME IInv, [Next]_vars PROVE IInv'
  OBVIOUS
<1>1. CASE ReadFile
  BY <1>1, LookupKeeps, CoalesceKeeps, ReadRunKeeps, RunFailsKeeps, ReadLastSectorKeeps,
     GoBySectorsKeeps, ReadSectorKeeps, EndsKeep DEF ReadFile
<1>2. CASE \E c \in Firsts, n \in Sizes : Call(c, n)
  BY <1>2, CallKeeps
<1>3. CASE UNCHANGED vars
  <2>1. VolumeInv'
    BY <1>3, VolumeStays DEF IInv, vars
  <2>2. ReadTypeOK'
    BY <1>3, <2>1 DEF IInv, ReadTypeOK, VolumeInv, vars, read
  <2>3. StaysInLastSector'
    BY <1>3 DEF IInv, StaysInLastSector, RoundedUp, vars, read
  <2>4. Aligned' /\ Remaining' /\ Sectorwise'
    BY <1>3 DEF IInv, Aligned, Remaining, Sectorwise, sectors_to_read, vars, read
  <2>. QED
    BY <2>1, <2>2, <2>3, <2>4 DEF IInv
<1>. QED
  BY <1>1, <1>2, <1>3 DEF Next

LEMMA Invariant == Spec => []IInv
<1>. QED
  BY InitHolds, NextHolds, PTL DEF Spec

(* The variables keep their types; in particular every entry of the table  *)
(* that is followed is one (fat.c:110-147, 454-626).                       *)
THEOREM ReadTypeCorrect == Spec => []ReadTypeOK
<1>1. IInv => ReadTypeOK
  BY DEF IInv
<1>. QED
  BY <1>1, Invariant, PTL

(* A partition in use is the card's and was checked.                       *)
THEOREM PartitionStaysSound == Spec => []PartitionIsSound
<1>1. IInv => PartitionIsSound
  BY DEF IInv, VolumeInv
<1>. QED
  BY <1>1, Invariant, PTL

(* The cached sector is the one it is taken for.                           *)
THEOREM CacheStaysCoherent == Spec => []CacheIsCoherent
<1>1. IInv => CacheIsCoherent
  BY DEF IInv, VolumeInv
<1>. QED
  BY <1>1, Invariant, PTL

(* No read writes behind the last sector it was asked for, for every       *)
(* geometry, chain, size and failure, although line 567 wraps.             *)
THEOREM ReadStaysInLastSector == Spec => []StaysInLastSector
<1>1. IInv => StaysInLastSector
  BY DEF IInv
<1>. QED
  BY <1>1, Invariant, PTL

----------------------------------------------------------------------------
(* The chain, cluster after cluster.                                       *)
LEMMA ChainIs ==
    ASSUME NEW c, NEW table, NEW span \in Nat
    PROVE  LET f == ChainFrom(c, table, span) IN
           /\ f[0] = c
           /\ \A n \in 0 .. (span - 1) :
                 f[n + 1] = IF f[n] \in 2 .. (Len(table) - 1) THEN table[f[n] + 1] ELSE EndOfChain
<1>. DEFINE After(v) == IF v \in 2 .. (Len(table) - 1) THEN table[v + 1] ELSE EndOfChain
            Chains(f, m) == f = [n \in 0 .. m |-> IF n = 0 THEN c ELSE After(f[n - 1])]
            T == {m \in Nat : m <= span /\ ~ \E f : Chains(f, m)}
<1>1. ASSUME T # {} PROVE FALSE
  <2>1. PICK x \in T : \A y \in T : x <= y
    BY <1>1, Least
  <2>2. x \in Nat /\ x <= span /\ ~ \E f : Chains(f, x)
    BY <2>1
  <2>3. CASE x = 0
    <3>. DEFINE f == [n \in 0 .. 0 |-> c]
    <3>1. f = [n \in 0 .. 0 |-> IF n = 0 THEN c ELSE After(f[n - 1])]
      OBVIOUS
    <3>. QED
      BY <2>2, <2>3, <3>1
  <2>4. CASE x # 0
    <3>1. x - 1 \in Nat /\ x - 1 <= span /\ ~ (x <= x - 1)
      BY <2>2, <2>4
    <3>a. x - 1 \notin T
      <4>. HIDE DEF T
      <4>. QED
        BY <2>1, <3>1
    <3>2. PICK f : Chains(f, x - 1)
      BY <3>1, <3>a
    <3>. DEFINE g == [n \in 0 .. x |-> IF n = x THEN After(f[x - 1]) ELSE f[n]]
    <3>. HIDE DEF After
    <3>3. \A n \in 0 .. (x - 1) : f[n] = IF n = 0 THEN c ELSE After(f[n - 1])
      BY <3>2
    <3>4. ASSUME NEW n \in 0 .. x PROVE g[n] = IF n = 0 THEN c ELSE After(g[n - 1])
      BY <3>3, <2>2, <2>4
    <3>5. g = [n \in 0 .. x |-> IF n = 0 THEN c ELSE After(g[n - 1])]
      BY <3>4
    <3>. QED
      BY <2>2, <3>5
  <2>. QED
    BY <2>3, <2>4
<1>2. \E f : Chains(f, span)
  <2>1. span \in Nat /\ span <= span
    OBVIOUS
  <2>2. span \notin T
    <3>. HIDE DEF T
    <3>. QED
      BY <1>1
  <2>. HIDE DEF Chains
  <2>. QED
    BY <2>1, <2>2
<1>. DEFINE h == ChainFrom(c, table, span)
<1>3. h = CHOOSE f : Chains(f, span)
  BY DEF ChainFrom
<1>. HIDE DEF h, After
<1>4. Chains(h, span)
  BY <1>2, <1>3
<1>5. h[0] = c
  BY <1>4
<1>6. ASSUME NEW n \in 0 .. (span - 1) PROVE h[n + 1] = After(h[n])
  <2>1. n + 1 \in 0 .. span /\ n + 1 # 0 /\ (n + 1) - 1 = n
    OBVIOUS
  <2>. QED
    BY <1>4, <2>1
<1>. QED
  BY <1>5, <1>6 DEF h, After

(* What a whole sector's end and a cluster's start have in common.          *)
LEMMA Splits ==
    ASSUME NEW s \in Nat \ {0}, NEW q \in Nat, NEW m \in 0 .. (s - 1)
    PROVE  (q * s + m) \div s = q /\ (q * s + m) % s = m
OBVIOUS

LEMMA OfNothing == \A s \in Nat \ {0} : 0 * s = 0 /\ 0 \div s = 0
OBVIOUS

LEMMA Distributes ==
    ASSUME NEW a \in Nat, NEW b \in Nat, NEW s \in Nat
    PROVE  (a + b) * s = a * s + b * s
OBVIOUS

LEMMA AddsUp ==
    ASSUME NEW w \in Nat \ {0}, NEW x \in Nat, NEW d \in Nat, (x % w) + d < w
    PROVE  (x + d) % w = (x % w) + d
<1>. DEFINE a == x \div w
            m == x % w
<1>1. a \in Nat /\ m \in 0 .. (w - 1) /\ x = a * w + m
  BY Division
<1>. HIDE DEF a
<1>2. m + d \in 0 .. (w - 1)
  BY <1>1
<1>. HIDE DEF m
<1>3. (a * w + (m + d)) % w = m + d
  BY <1>1, <1>2, Splits
<1>4. x + d = a * w + (m + d)
  BY <1>1, <1>2
<1>. QED
  BY <1>3, <1>4 DEF m

----------------------------------------------------------------------------
(* What the read of a file follows and shows, while no lookup has failed.  *)
RunAt(q) ==
    /\ run_start = chain[q] /\ InChain(run_start)
    /\ q + run_clusters <= Span
    /\ total_read = q * cluster_bytes
    /\ cluster = run_start + run_clusters - 1 /\ InChain(cluster)
    /\ \A k \in 0 .. (run_clusters - 1) : chain[q + k] = run_start + k
    /\ run_clusters = 1 \/ total_read + run_bytes <= max_size
    /\ pc # "next" => next_cl = chain[q + run_clusters]

SectorAt(q) ==
    /\ run_start = chain[q] /\ InChain(run_start) /\ run_clusters = 1
    /\ max_size = q * cluster_bytes + bytes_remaining
    /\ total_read = q * cluster_bytes + sectors_done * SectorBytes
    /\ total_read < max_size
    /\ SectorBytes < bytes_remaining /\ bytes_remaining < cluster_bytes
    /\ sectors_done > 0 => Readable(ClusterLba(run_start), sectors_done)

Sound == ChainIsWhole /\ "table" \notin failed
FollowsRuns == Sound /\ pc \in {"next", "run", "read"} => \E q \in 0 .. Span : RunAt(q)
FollowsSectors == Sound /\ pc = "sectors" => \E q \in 0 .. Span : SectorAt(q)
InUse == pc # "out" \/ total_read > 0 => partitionlba # 0
Bounded == max_size <= Span /\ max_size \in Word
Shown == Sound => ExposesTheFile
Ends == Sound => ShortOnlyAtTheEnd

FInv == IInv /\ FollowsRuns /\ FollowsSectors /\ InUse /\ Bounded /\ Shown /\ Ends

LEMMA Clusters ==
    ASSUME VolumeInv, partitionlba # 0
    PROVE  /\ SectorBytes \in Nat \ {0} /\ bpb.spc \in Nat \ {0} /\ bpb.rsc \in Nat \ {0}
           /\ cluster_bytes = bpb.spc * SectorBytes /\ cluster_bytes \in Nat \ {0}
           /\ FirstPart # 0 /\ partitionlba \in Nat
           /\ TableStart(FirstPart) = partitionlba + bpb.rsc
<1>1. partitionlba = FirstPart /\ bpb = card.boot[FirstPart] /\ Sane(bpb)
  BY DEF VolumeInv, PartitionIsSound
<1>2. /\ SectorBytes \in Nat \ {0} /\ bpb.spc \in Nat /\ bpb.rsc \in Nat /\ partitionlba \in Nat
  BY VolumeAssumption DEF VolumeInv, TypeOK, BootRecord, Word
<1>3. bpb.spc # 0 /\ bpb.rsc # 0
  BY <1>1 DEF Sane
<1>4. bpb.spc * SectorBytes \in Nat \ {0}
  BY <1>2, <1>3
<1>. QED
  BY <1>1, <1>2, <1>3, <1>4 DEF cluster_bytes, TableStart

(* The card holds fewer sectors than a word counts.                        *)
LEMMA OnTheCard ==
    ASSUME VolumeInv, NEW l \in Nat, NEW n \in Nat, Readable(l, n)
    PROVE  l + n < WordSpace
<1>1. card.sectors \in Word /\ WordSpace \in Nat
  BY VolumeAssumption DEF VolumeInv, TypeOK
<1>. QED
  BY <1>1 DEF Readable, Word

(* What the card, the call and the boot record decide.                     *)
LEMMA Decided ==
    ASSUME UNCHANGED <<card, partitionlba, bpb, first>>
    PROVE  /\ chain' = chain /\ (ChainIsWhole' <=> ChainIsWhole)
           /\ cluster_bytes' = cluster_bytes
           /\ \A c : ClusterLba(c)' = ClusterLba(c)
           /\ \A k : FileByte(k)' = FileByte(k)
           /\ \A l, n : Readable(l, n)' <=> Readable(l, n)
<1>1. chain' = chain
  BY DEF chain
<1>2. FirstPart' = FirstPart /\ \A l, n : Readable(l, n)' <=> Readable(l, n)
  BY CardDecides
<1>3. \A c : HasEntry(c)' <=> HasEntry(c)
  BY <1>2 DEF HasEntry, InTable, IsTable, TableStart
<1>4. ChainIsWhole' <=> ChainIsWhole
  BY <1>1, <1>3 DEF ChainIsWhole, InChain
<1>5. cluster_bytes' = cluster_bytes /\ \A c : ClusterLba(c)' = ClusterLba(c)
  BY DEF cluster_bytes, ClusterLba, data_sec
<1>6. \A k : FileByte(k)' = FileByte(k)
  BY <1>1, <1>5 DEF FileByte
<1>. QED
  BY <1>1, <1>2, <1>4, <1>5, <1>6

(* A lookup that does not fail gives the entry the card has.               *)
LEMMA LookupIs ==
    ASSUME VolumeInv, partitionlba # 0, NEW c \in Entry, c >= 2, InTable(c), NEW next,
           NextCluster(c, next), cached_fat_lba' # NoSector
    PROVE  c \in 2 .. (Len(card.fat) - 1) /\ next = card.fat[c + 1]
<1>. DEFINE n == EntriesPerSector
            g == c \div n
            e == c % n
            t == TableStart(FirstPart)
            w == (partitionlba + bpb.rsc + g) % WordSpace
            l == t + g
<1>1. /\ n \in Nat \ {0} /\ WordSpace \in Nat \ {0} /\ c \in Nat
  BY VolumeAssumption DEF Entry
<1>2. g \in Nat /\ e \in 0 .. (n - 1) /\ c = g * n + e
  BY <1>1, Division
<1>3. t = partitionlba + bpb.rsc /\ t \in Nat /\ bpb.rsc # 0 /\ FirstPart # 0
  BY Clusters
<1>. HIDE DEF g, e, t
<1>4. IsTable(l) /\ Readable(l, 1) /\ l \in Nat
  BY <1>2, <1>3 DEF InTable, g, t
<1>5. l < WordSpace
  <2>1. l + 1 < WordSpace
    <3>. HIDE DEF l
    <3>. QED
      BY <1>4, OnTheCard
  <2>. QED
    BY <1>1, <1>4, <2>1
<1>6. w = l
  <2>1. partitionlba + bpb.rsc + g = l
    BY <1>3
  <2>2. l % WordSpace = l
    BY <1>1, <1>4, <1>5
  <2>. QED
    BY <2>1, <2>2
<1>7. Contents(l) = {[x \in 0 .. (n - 1) |-> card.fat[g * n + x + 1]]}
  <2>1. l - t = g
    BY <1>2, <1>3
  <2>. QED
    BY <1>4, <2>1 DEF Contents, t
<1>8. \A b \in Contents(l) : b[e] = card.fat[c + 1]
  BY <1>2, <1>7
<1>9. (g + 1) * n <= Len(card.fat)
  <2>1. l - t = g
    BY <1>2, <1>3
  <2>. QED
    BY <1>4, <2>1 DEF IsTable, t
<1>10. c \in 2 .. (Len(card.fat) - 1)
  <2>1. Len(card.fat) \in Nat
    <3>1. card.fat \in Seq(Entry)
      BY VolumeAssumption DEF VolumeInv, TypeOK
    <3>. QED
      BY <3>1
  <2>2. (g + 1) * n = g * n + n /\ g * n \in Nat
    BY <1>1, <1>2
  <2>. QED
    BY <1>1, <1>2, <1>9, <2>1, <2>2
<1>11. \/ w = cached_fat_lba /\ next = fat_cache_buf[e] /\ UNCHANGED <<cached_fat_lba, fat_cache_buf>>
       \/ fat_cache_buf' \in Contents(w) /\ next = fat_cache_buf'[e]
  BY <1>3 DEF NextCluster, TableReadFails, g, e
<1>. HIDE DEF w, l
<1>12. CASE w = cached_fat_lba /\ next = fat_cache_buf[e] /\ UNCHANGED <<cached_fat_lba, fat_cache_buf>>
  <2>1. fat_cache_buf \in Contents(l)
    BY <1>6, <1>12 DEF VolumeInv, CacheIsCoherent
  <2>. QED
    BY <1>8, <1>10, <1>12, <2>1
<1>13. CASE fat_cache_buf' \in Contents(w) /\ next = fat_cache_buf'[e]
  BY <1>6, <1>8, <1>10, <1>13
<1>. QED
  BY <1>11, <1>12, <1>13

(* Adjacent clusters are adjacent on the card, as far as it goes.          *)
LEMMA Adjacent ==
    ASSUME VolumeInv, NEW c \in Entry, c >= 2, NEW k \in Nat,
           ClusterLba(c) + k * bpb.spc < WordSpace
    PROVE  ClusterLba(c + k) = ClusterLba(c) + k * bpb.spc
<1>. DEFINE x == data_sec + (c - 2) * bpb.spc
            d == k * bpb.spc
<1>1. bpb.spc \in Nat /\ WordSpace \in Nat \ {0} /\ c - 2 \in Nat
  BY Geometry DEF Entry
<1>2. data_sec \in Nat
  <2>1. partitionlba \in Nat /\ bpb.rsc \in Nat /\ bpb.nf \in Nat /\ bpb.spf32 \in Nat
    BY DEF VolumeInv, TypeOK, BootRecord, Word
  <2>2. bpb.nf * bpb.spf32 \in Nat
    BY <2>1
  <2>. QED
    BY <2>1, <2>2 DEF data_sec
<1>3. x \in Nat /\ d \in Nat
  <2>1. (c - 2) * bpb.spc \in Nat /\ d \in Nat
    BY <1>1
  <2>. QED
    BY <1>2, <2>1
<1>4. data_sec + ((c + k) - 2) * bpb.spc = x + d
  <2>1. ((c + k) - 2) * bpb.spc = (c - 2) * bpb.spc + k * bpb.spc
    <3>1. (c + k) - 2 = (c - 2) + k
      BY <1>1 DEF Entry
    <3>2. ((c - 2) + k) * bpb.spc = (c - 2) * bpb.spc + k * bpb.spc
      BY <1>1, Distributes
    <3>. QED
      BY <3>1, <3>2
  <2>2. (c - 2) * bpb.spc \in Nat /\ k * bpb.spc \in Nat
    BY <1>1
  <2>. QED
    BY <1>2, <2>1, <2>2
<1>5. ClusterLba(c) = x % WordSpace /\ ClusterLba(c + k) = (x + d) % WordSpace
  BY <1>4 DEF ClusterLba
<1>6. (x % WordSpace) + d < WordSpace
  BY <1>5
<1>. HIDE DEF x, d
<1>7. (x + d) % WordSpace = (x % WordSpace) + d
  BY <1>1, <1>3, <1>6, AddsUp
<1>. QED
  BY <1>5, <1>7 DEF d

(* Where a byte of the file is.                                            *)
LEMMA ByteAt ==
    ASSUME VolumeInv, partitionlba # 0, NEW q \in Nat, NEW m \in 0 .. (cluster_bytes - 1)
    PROVE  FileByte(q * cluster_bytes + m) = ClusterLba(chain[q]) * SectorBytes + m
<1>1. cluster_bytes \in Nat \ {0}
  BY Clusters
<1>2. (q * cluster_bytes + m) \div cluster_bytes = q /\ (q * cluster_bytes + m) % cluster_bytes = m
  BY <1>1, Splits
<1>. QED
  BY <1>2 DEF FileByte

(* A copy to the end of what has been read, of the file's next bytes.      *)
LEMMA CopyShows ==
    ASSUME FInv, ExposesTheFile, "table" \notin failed, NEW n \in Nat, NEW b \in Int,
           \A m \in 0 .. (n - 1) : total_read + m < max_size => FileByte(total_read + m) = b + m
    PROVE  \A k \in 0 .. (total_read + n - 1) :
              k < max_size => Copied(total_read, b, n)[k] = FileByte(k)
<1>1. /\ total_read \in Nat /\ max_size \in Nat /\ max_size <= Span /\ Span \in Nat
      /\ dest \in [0 .. (Span - 1) -> Int]
  BY ReadAssumption DEF FInv, IInv, ReadTypeOK, Bounded
<1>2. SUFFICES ASSUME NEW k \in 0 .. (total_read + n - 1), k < max_size
               PROVE  Copied(total_read, b, n)[k] = FileByte(k)
  OBVIOUS
<1>3. k \in 0 .. (Span - 1) /\ k \in Int
  BY <1>1, <1>2
<1>4. Copied(total_read, b, n)[k]
        = IF k \in total_read .. (total_read + n - 1) THEN b + (k - total_read) ELSE dest[k]
  BY <1>1, <1>3 DEF Copied
<1>5. CASE k < total_read
  <2>1. dest[k] = FileByte(k)
    BY <1>1, <1>2, <1>5 DEF ExposesTheFile
  <2>2. k \notin total_read .. (total_read + n - 1)
    BY <1>1, <1>5
  <2>. QED
    BY <1>4, <2>1, <2>2
<1>6. CASE ~ (k < total_read)
  <2>. DEFINE m == k - total_read
  <2>1. m \in 0 .. (n - 1) /\ total_read + m = k /\ k \in total_read .. (total_read + n - 1)
    BY <1>1, <1>2, <1>6
  <2>2. FileByte(total_read + m) = b + m
    BY <1>2, <2>1
  <2>. QED
    BY <1>4, <2>1, <2>2
<1>. QED
  BY <1>5, <1>6

(* A step that counts nothing as read.                                     *)
LEMMA ShownStays ==
    ASSUME FInv, UNCHANGED <<card, partitionlba, bpb, first, max_size, total_read>>,
           failed \subseteq failed',
           \A k \in 0 .. (total_read - 1) : k < max_size => dest'[k] = dest[k]
    PROVE  Shown'
<1>. SUFFICES ASSUME Sound' PROVE ExposesTheFile'
  BY DEF Shown
<1>1. Sound
  BY Decided DEF Sound
<1>2. \A k \in 0 .. (total_read - 1) : k < max_size => dest[k] = FileByte(k)
  BY <1>1 DEF FInv, Shown, Sound, ExposesTheFile
<1>3. \A k \in 0 .. (total_read - 1) : k < max_size => dest'[k] = FileByte(k)
  BY <1>2
<1>4. \A k : FileByte(k)' = FileByte(k)
  BY Decided
<1>. QED
  BY <1>3, <1>4 DEF ExposesTheFile

LEMMA FInit == ReadInit => FInv
<1>. SUFFICES ASSUME ReadInit PROVE FInv
  OBVIOUS
<1>1. /\ pc = "out" /\ total_read = 0 /\ max_size = 0
  BY DEF ReadInit
<1>2. FollowsRuns /\ FollowsSectors /\ InUse /\ Ends
  BY <1>1 DEF FollowsRuns, FollowsSectors, InUse, Ends, ShortOnlyAtTheEnd
<1>3. Bounded
  BY <1>1, ReadAssumption, VolumeAssumption DEF Bounded, Word
<1>4. Shown
  BY <1>1 DEF Shown, ExposesTheFile
<1>. QED
  BY <1>2, <1>3, <1>4, InitHolds DEF FInv

LEMMA ChainStarts ==
    /\ chain[0] = first
    /\ \A n \in 0 .. (Span - 1) :
          chain[n + 1] = IF chain[n] \in 2 .. (Len(card.fat) - 1)
                         THEN card.fat[chain[n] + 1] ELSE EndOfChain
BY ReadAssumption, ChainIs DEF chain

LEMMA CallFollows ==
    ASSUME FInv, NEW c \in Firsts, NEW n \in Sizes, Call(c, n)
    PROVE  FInv'
<1>0. IInv'
  BY CallKeeps DEF FInv
<1>1. PICK found \in BOOLEAN :
          /\ GetPartition(found)
          /\ \/ /\ found /\ c >= 2 /\ n # 0
                /\ pc' = IF InChain(c) THEN "next" ELSE "done"
                /\ first' = c /\ max_size' = n /\ cluster' = c
                /\ total_read' = 0 /\ failed' = {}
                /\ run_start' = c /\ run_clusters' = 1 /\ next_cl' = 0
                /\ sectors_done' = 0 /\ bytes_remaining' = 0
                /\ dest' = [k \in DOMAIN dest |-> Untouched]
                /\ UNCHANGED lastFileDimension
             \/ /\ ~ (found /\ c >= 2 /\ n # 0)
                /\ UNCHANGED read
  BY DEF Call
<1>2. pc = "out" /\ total_read \in Nat
  BY DEF Call, FInv, IInv, ReadTypeOK
<1>3. CASE UNCHANGED read
  <2>1. UNCHANGED <<pc, first, max_size, total_read, failed, dest>>
    BY <1>3 DEF read
  <2>2. FollowsRuns' /\ FollowsSectors' /\ Ends'
    BY <1>2, <2>1 DEF FollowsRuns, FollowsSectors, Ends, ShortOnlyAtTheEnd
  <2>3. Bounded'
    BY <2>1 DEF FInv, Bounded
  <2>4. CASE total_read = 0
    <3>1. InUse'
      BY <1>2, <2>1, <2>4 DEF InUse
    <3>2. Shown'
      BY <2>1, <2>4 DEF Shown, ExposesTheFile
    <3>. QED
      BY <1>0, <2>2, <2>3, <3>1, <3>2 DEF FInv
  <2>5. CASE total_read > 0
    <3>1. partitionlba # 0
      BY <2>5 DEF FInv, InUse
    <3>2. UNCHANGED volume
      BY <1>1, <3>1 DEF GetPartition
    <3>3. UNCHANGED <<card, partitionlba, bpb, first, max_size, total_read>>
      BY <2>1, <3>2 DEF volume
    <3>4. Shown'
      BY <2>1, <3>3, ShownStays
    <3>5. InUse'
      BY <3>1, <3>3 DEF InUse
    <3>. QED
      BY <1>0, <2>2, <2>3, <3>4, <3>5 DEF FInv
  <2>. QED
    BY <1>2, <2>4, <2>5
<1>4. CASE /\ found /\ c >= 2 /\ n # 0
           /\ pc' = IF InChain(c) THEN "next" ELSE "done"
           /\ first' = c /\ max_size' = n /\ cluster' = c
           /\ total_read' = 0 /\ failed' = {}
           /\ run_start' = c /\ run_clusters' = 1 /\ next_cl' = 0
  <2>1. partitionlba' # 0
    <3>1. found = TRUE
      BY <1>4
    <3>. QED
      BY <1>1, <3>1 DEF GetPartition, volume
  <2>2. c \in Nat /\ n \in Word /\ n <= Span /\ n \in Nat /\ Span \in Nat
    BY ReadAssumption, VolumeAssumption DEF Entry, Word
  <2>3. chain'[0] = c
    <3>1. chain' = ChainFrom(c, card'.fat, Span)
      BY <1>4 DEF chain
    <3>. QED
      BY <3>1, ReadAssumption, ChainIs
  <2>4. VolumeInv'
    BY <1>0 DEF IInv
  <2>5. cluster_bytes' \in Nat \ {0}
    <3>1. Sane(bpb)' /\ bpb'.spc \in Nat
      BY <2>1, <2>4 DEF VolumeInv, PartitionIsSound, TypeOK, BootRecord, Word
    <3>2. bpb'.spc \in Nat \ {0} /\ SectorBytes \in Nat \ {0}
      BY <3>1, VolumeAssumption DEF Sane
    <3>. QED
      BY <3>2 DEF cluster_bytes
  <2>6. InUse' /\ Bounded'
    BY <1>4, <2>1, <2>2 DEF InUse, Bounded
  <2>7. Shown'
    BY <1>4 DEF Shown, ExposesTheFile
  <2>8. FollowsSectors'
    BY <1>4 DEF FollowsSectors
  <2>9. FollowsRuns'
    <3>1. CASE InChain(c)
      <4>1. RunAt(0)'
        <5>1. 0 + run_clusters' <= Span
          BY <1>4, <2>2
        <5>2. total_read' = 0 * cluster_bytes'
          <6>1. 0 * cluster_bytes' = 0
            BY <2>5, OfNothing
          <6>. QED
            BY <1>4, <6>1
        <5>3. cluster' = run_start' + run_clusters' - 1
          BY <1>4, <2>2
        <5>4. \A k \in 0 .. (run_clusters' - 1) : chain'[0 + k] = run_start' + k
          BY <1>4, <2>2, <2>3
        <5>5. InChain(c)' /\ run_start' = c /\ cluster' = c /\ pc' = "next" /\ run_clusters' = 1
          BY <1>4, <3>1 DEF InChain
        <5>. QED
          BY <2>3, <5>1, <5>2, <5>3, <5>4, <5>5 DEF RunAt, InChain
      <4>. QED
        BY <2>2, <4>1 DEF FollowsRuns
    <3>2. CASE ~ InChain(c)
      BY <1>4, <3>2 DEF FollowsRuns
    <3>. QED
      BY <3>1, <3>2
  <2>10. Ends'
    <3>1. CASE InChain(c)
      BY <1>4, <3>1 DEF Ends, ShortOnlyAtTheEnd
    <3>2. CASE ~ InChain(c)
      <4>1. total_read' \div cluster_bytes' = 0
        <5>1. 0 \div cluster_bytes' = 0
          BY <2>5, OfNothing
        <5>. QED
          BY <1>4, <5>1
      <4>. QED
        BY <2>3, <3>2, <4>1 DEF Ends, ShortOnlyAtTheEnd, InChain
    <3>. QED
      BY <3>1, <3>2
  <2>. QED
    BY <1>0, <2>6, <2>7, <2>8, <2>9, <2>10 DEF FInv
<1>. QED
  BY <1>1, <1>3, <1>4

(* What a run that is followed tells of the numbers.                       *)
LEMMA RunNumbers ==
    ASSUME FInv, pc \in {"next", "run", "read"}
    PROVE  /\ VolumeInv /\ partitionlba # 0 /\ Span \in Nat
           /\ SectorBytes \in Nat \ {0} /\ bpb.spc \in Nat \ {0}
           /\ cluster_bytes = bpb.spc * SectorBytes /\ cluster_bytes \in Nat \ {0}
           /\ total_read \in Nat /\ max_size \in Nat /\ max_size <= Span
           /\ total_read < max_size
           /\ cluster \in Entry /\ run_start \in Entry /\ next_cl \in Entry
           /\ run_clusters \in Nat \ {0} /\ Entry \subseteq Nat
<1>1. VolumeInv /\ partitionlba # 0 /\ Span \in Nat /\ max_size <= Span /\ total_read < max_size
  BY ReadAssumption DEF FInv, IInv, InUse, Bounded, Aligned
<1>2. /\ total_read \in Nat /\ max_size \in Nat /\ cluster \in Entry /\ run_start \in Entry
      /\ next_cl \in Entry /\ run_clusters \in Nat \ {0} /\ Entry \subseteq Nat
  BY VolumeAssumption DEF FInv, IInv, ReadTypeOK, Entry
<1>. QED
  BY <1>1, <1>2, Clusters

LEMMA LookupFollows ==
    ASSUME FInv, Lookup
    PROVE  FInv'
<1>1. IInv'
  BY LookupKeeps DEF FInv
<1>2. /\ pc = "next" /\ pc' = "run"
      /\ UNCHANGED <<card, partitionlba, bpb, first, max_size, cluster, run_start, run_clusters,
                     total_read, dest>>
      /\ failed' = IF cached_fat_lba' = NoSector THEN failed \union {"table"} ELSE failed
  BY DEF Lookup, NextCluster
<1>3. Shown'
  BY <1>2, ShownStays
<1>4. InUse' /\ Bounded'
  BY <1>2 DEF FInv, InUse, Bounded
<1>5. FollowsSectors' /\ Ends'
  BY <1>2 DEF FollowsSectors, Ends, ShortOnlyAtTheEnd
<1>6. FollowsRuns'
  <2>. SUFFICES ASSUME Sound' PROVE \E q \in 0 .. Span : RunAt(q)'
    BY DEF FollowsRuns
  <2>1. Sound /\ ChainIsWhole /\ cached_fat_lba' # NoSector
    BY <1>2, Decided DEF Sound
  <2>2. PICK q \in 0 .. Span : RunAt(q)
    BY <1>2, <2>1 DEF FInv, FollowsRuns
  <2>. DEFINE r == run_clusters
              j == q + (r - 1)
  <2>3. /\ VolumeInv /\ partitionlba # 0 /\ Span \in Nat /\ r \in Nat \ {0}
        /\ cluster \in Entry /\ run_start \in Entry /\ Entry \subseteq Nat
    BY <1>2, RunNumbers
  <2>4. r - 1 \in 0 .. (r - 1) /\ q + r <= Span
    BY <2>2, <2>3 DEF RunAt
  <2>5. j \in 0 .. (Span - 1) /\ j \in 0 .. Span /\ j + 1 = q + r
    BY <2>3, <2>4
  <2>6. chain[j] = cluster /\ InChain(cluster)
    <3>1. chain[q + (r - 1)] = run_start + (r - 1)
      BY <2>2, <2>4 DEF RunAt
    <3>2. run_start + (r - 1) = cluster
      BY <2>2, <2>3 DEF RunAt
    <3>. QED
      BY <2>2, <3>1, <3>2 DEF RunAt
  <2>. HIDE DEF j, r
  <2>7. HasEntry(cluster)
    BY <2>1, <2>5, <2>6 DEF ChainIsWhole
  <2>8. cluster >= 2
    BY <2>6 DEF InChain
  <2>9. NextCluster(cluster, next_cl')
    BY DEF Lookup
  <2>10. cluster \in 2 .. (Len(card.fat) - 1) /\ next_cl' = card.fat[cluster + 1]
    BY <2>1, <2>3, <2>7, <2>8, <2>9, LookupIs DEF HasEntry
  <2>11. chain[j + 1] = card.fat[cluster + 1]
    BY <2>5, <2>6, <2>10, ChainStarts
  <2>12. next_cl' = chain[q + r]
    BY <2>5, <2>10, <2>11
  <2>13. chain' = chain /\ cluster_bytes' = cluster_bytes
    BY <1>2, Decided
  <2>14. run_bytes' = run_bytes
    BY <1>2, <2>13 DEF run_bytes
  <2>15. RunAt(q)'
    BY <1>2, <2>2, <2>12, <2>13, <2>14 DEF RunAt, InChain, r
  <2>. QED
    BY <2>15
<1>. QED
  BY <1>1, <1>3, <1>4, <1>5, <1>6 DEF FInv

(* Where a run that may grow ends.                                         *)
LEMMA GrownFits ==
    ASSUME NEW q \in Nat, NEW r \in Nat, NEW s \in Nat \ {0}, NEW m \in Nat,
           q * s + r * s <= m
    PROVE  q + r <= m
<1>1. (q + r) * s = q * s + r * s
  BY Distributes
<1>2. (q + r) * 1 <= (q + r) * s
  <2>1. q + r \in Nat
    OBVIOUS
  <2>. QED
    BY <2>1
<1>. QED
  BY <1>1, <1>2

LEMMA CoalesceFollows ==
    ASSUME FInv, Coalesce
    PROVE  FInv'
<1>1. IInv'
  BY CoalesceKeeps DEF FInv
<1>2. /\ pc = "run" /\ pc' \in {"next", "read"}
      /\ UNCHANGED <<card, partitionlba, bpb, first, max_size, run_start, next_cl,
                     total_read, dest, failed>>
  BY DEF Coalesce, volume
<1>3. Shown'
  BY <1>2, ShownStays
<1>4. InUse' /\ Bounded'
  BY <1>2 DEF FInv, InUse, Bounded
<1>5. FollowsSectors' /\ Ends'
  BY <1>2 DEF FollowsSectors, Ends, ShortOnlyAtTheEnd
<1>6. FollowsRuns'
  <2>. SUFFICES ASSUME Sound' PROVE \E q \in 0 .. Span : RunAt(q)'
    BY DEF FollowsRuns
  <2>1. Sound /\ ChainIsWhole
    BY <1>2, Decided DEF Sound
  <2>2. PICK q \in 0 .. Span : RunAt(q)
    BY <1>2, <2>1 DEF FInv, FollowsRuns
  <2>3. /\ VolumeInv /\ partitionlba # 0 /\ Span \in Nat /\ run_clusters \in Nat \ {0}
        /\ cluster \in Entry /\ run_start \in Entry /\ Entry \subseteq Nat /\ next_cl \in Entry
        /\ cluster_bytes \in Nat \ {0} /\ max_size \in Nat /\ max_size <= Span
        /\ total_read \in Nat
    BY <1>2, RunNumbers
  <2>4. chain' = chain /\ cluster_bytes' = cluster_bytes
    BY <1>2, Decided
  <2>5. CASE Grows
    <3>. DEFINE r == run_clusters
                t == run_clusters + 1
    <3>1. run_clusters' = t /\ cluster' = next_cl /\ pc' = "next" /\ next_cl = cluster + 1
      BY <2>5 DEF Coalesce, Grows
    <3>2. total_read + t * cluster_bytes <= max_size
      BY <2>5 DEF Grows
    <3>3. total_read = q * cluster_bytes /\ cluster = run_start + run_clusters - 1 /\ InChain(cluster)
      BY <2>2 DEF RunAt
    <3>4. q + t <= Span
      <4>1. q + t <= max_size
        <5>1. q \in Nat /\ t \in Nat
          BY <2>3
        <5>. HIDE DEF t
        <5>. QED
          BY <2>3, <3>2, <3>3, <5>1, GrownFits
      <4>. QED
        BY <2>3, <4>1
    <3>5. chain[q + r] = next_cl /\ next_cl = run_start + r
      <4>1. chain[q + r] = next_cl
        BY <1>2, <2>2 DEF RunAt
      <4>. QED
        BY <2>3, <3>1, <3>3, <4>1
    <3>6. \A k \in 0 .. (t - 1) : chain[q + k] = run_start + k
      <4>1. \A k \in 0 .. (r - 1) : chain[q + k] = run_start + k
        BY <2>2 DEF RunAt
      <4>2. \A k \in 0 .. (t - 1) : k = r \/ k \in 0 .. (r - 1)
        BY <2>3
      <4>. QED
        BY <3>5, <4>1, <4>2
    <3>7. InChain(next_cl)
      <4>1. chain[q + (r - 1)] = cluster /\ q + (r - 1) \in 0 .. Span
        <5>1. r - 1 \in 0 .. (r - 1)
          BY <2>3
        <5>2. chain[q + (r - 1)] = run_start + (r - 1)
          BY <2>2, <5>1 DEF RunAt
        <5>3. run_start + (r - 1) = cluster
          BY <2>3, <3>3
        <5>. QED
          BY <2>3, <3>4, <5>2, <5>3
      <4>2. HasEntry(cluster)
        <5>. DEFINE j == q + (r - 1)
        <5>1. chain[j] = cluster /\ j \in 0 .. Span
          BY <4>1
        <5>. HIDE DEF j
        <5>. QED
          BY <2>1, <3>3, <5>1 DEF ChainIsWhole
      <4>3. cluster + 1 < EndOfChain
        BY <4>2 DEF HasEntry
      <4>. QED
        BY <2>3, <3>1, <3>3, <4>3 DEF InChain
    <3>8. run_bytes' = t * cluster_bytes
      BY <2>4, <3>1 DEF run_bytes
    <3>9. cluster' = run_start' + run_clusters' - 1 /\ InChain(cluster)'
      <4>1. cluster' = run_start' + run_clusters' - 1
        BY <1>2, <2>3, <3>1, <3>5
      <4>. QED
        BY <3>1, <3>7, <4>1 DEF InChain
    <3>10. run_start' = chain'[q] /\ InChain(run_start)' /\ total_read' = q * cluster_bytes'
      BY <1>2, <2>2, <2>4 DEF RunAt, InChain
    <3>11. RunAt(q)'
      <4>. HIDE DEF t
      <4>. QED
        BY <1>2, <2>4, <3>1, <3>2, <3>4, <3>6, <3>8, <3>9, <3>10 DEF RunAt
    <3>. QED
      BY <3>11
  <2>6. CASE ~ Grows
    <3>1. UNCHANGED <<cluster, run_clusters>>
      BY <2>6 DEF Coalesce
    <3>2. run_bytes' = run_bytes
      BY <2>4, <3>1 DEF run_bytes
    <3>3. RunAt(q)'
      BY <1>2, <2>2, <2>4, <3>1, <3>2 DEF RunAt, InChain
    <3>. QED
      BY <3>3
  <2>. QED
    BY <2>5, <2>6
<1>. QED
  BY <1>1, <1>3, <1>4, <1>5, <1>6 DEF FInv

(* The bytes of a run that is on the card are the file's next ones.        *)
LEMMA RunHolds ==
    ASSUME FInv, pc = "read", NEW q \in 0 .. Span, RunAt(q),
           Readable(ClusterLba(run_start), run_clusters * bpb.spc)
    PROVE  \A m \in 0 .. (run_bytes - 1) :
              FileByte(total_read + m) = ClusterLba(run_start) * SectorBytes + m
<1>. DEFINE r == run_clusters
            s == SectorBytes
            p == bpb.spc
            b == cluster_bytes
            c == ClusterLba(run_start)
<1>1. /\ VolumeInv /\ partitionlba # 0 /\ Span \in Nat
      /\ s \in Nat \ {0} /\ p \in Nat \ {0} /\ b = p * s /\ b \in Nat \ {0}
      /\ r \in Nat \ {0} /\ run_start \in Entry /\ Entry \subseteq Nat
  BY RunNumbers
<1>2. c \in Nat
  BY <1>1, Geometry
<1>3. total_read = q * b /\ run_start >= 2 /\ \A k \in 0 .. (r - 1) : chain[q + k] = run_start + k
  BY DEF RunAt, InChain
<1>4. r * p \in Nat
  <2>1. \A x, y \in Nat : x * y \in Nat
    OBVIOUS
  <2>. QED
    BY <1>1, <2>1
<1>5. c + r * p < WordSpace
  <2>1. Readable(c, r * p)
    OBVIOUS
  <2>. HIDE DEF c, r, p
  <2>. QED
    BY <1>1, <1>2, <1>4, <2>1, OnTheCard
<1>6. SUFFICES ASSUME NEW m \in 0 .. (run_bytes - 1)
               PROVE  FileByte(total_read + m) = c * s + m
  OBVIOUS
<1>. DEFINE k == m \div b
            j == m % b
<1>7. run_bytes = r * b /\ m \in Nat /\ m < r * b
  <2>1. run_bytes = r * b
    BY DEF run_bytes
  <2>2. r * b \in Nat
    BY <1>1
  <2>. QED
    BY <1>6, <2>1, <2>2
<1>8. k \in Nat /\ j \in 0 .. (b - 1) /\ m = k * b + j
  <2>. HIDE DEF b
  <2>. QED
    BY <1>1, <1>7, Division
<1>. HIDE DEF k, j
<1>9. k \in 0 .. (r - 1)
  <2>1. ASSUME k >= r PROVE FALSE
    <3>1. r * b <= k * b
      <4>. HIDE DEF b, r
      <4>. QED
        BY <1>1, <1>8, <2>1, Monotone
    <3>2. k * b \in Nat /\ r * b \in Nat
      <4>1. \A x, y \in Nat : x * y \in Nat
        OBVIOUS
      <4>. QED
        BY <1>1, <1>8, <4>1
    <3>. HIDE DEF b, r
    <3>. QED
      BY <1>1, <1>7, <1>8, <3>1, <3>2
  <2>. QED
    BY <1>1, <1>8, <2>1
<1>10. q + k \in Nat /\ total_read + m = (q + k) * b + j
  <2>1. (q + k) * b = q * b + k * b
    <3>. HIDE DEF b
    <3>. QED
      BY <1>1, <1>8, Distributes
  <2>2. q * b \in Nat /\ k * b \in Nat
    <3>1. \A x, y \in Nat : x * y \in Nat
      OBVIOUS
    <3>. QED
      BY <1>1, <1>8, <3>1
  <2>. HIDE DEF b
  <2>. QED
    BY <1>1, <1>3, <1>8, <2>1, <2>2
<1>11. FileByte(total_read + m) = ClusterLba(chain[q + k]) * s + j
  BY <1>1, <1>8, <1>10, ByteAt
<1>12. k * p \in Nat /\ k * p <= r * p
  <2>. HIDE DEF p, r
  <2>. QED
    BY <1>1, <1>8, <1>9, Monotone
<1>13. ClusterLba(run_start + k) = c + k * p
  <2>1. c + k * p < WordSpace
    <3>1. WordSpace \in Nat
      BY VolumeAssumption
    <3>. HIDE DEF c, p, r
    <3>. QED
      BY <1>2, <1>4, <1>5, <1>12, <3>1
  <2>. QED
    BY <1>1, <1>3, <1>8, <2>1, Adjacent
<1>14. chain[q + k] = run_start + k
  BY <1>3, <1>9
<1>15. (c + k * p) * s + j = c * s + m
  <2>1. (c + k * p) * s = c * s + (k * p) * s
    <3>. HIDE DEF c, p, s
    <3>. QED
      BY <1>1, <1>2, <1>12, Distributes
  <2>2. (k * p) * s = k * (p * s)
    <3>1. \A x, y, z \in Nat : (x * y) * z = x * (y * z)
      OBVIOUS
    <3>. QED
      BY <1>1, <1>8, <3>1
  <2>3. c * s \in Nat /\ k * b \in Nat
    <3>1. \A x, y \in Nat : x * y \in Nat
      OBVIOUS
    <3>. QED
      BY <1>1, <1>2, <1>8, <3>1
  <2>4. (c + k * p) * s = c * s + k * b
    BY <1>1, <2>1, <2>2
  <2>. HIDE DEF c, p, s, b
  <2>. QED
    BY <1>8, <1>1, <2>3, <2>4
<1>. QED
  BY <1>11, <1>13, <1>14, <1>15

LEMMA ReadRunFollows ==
    ASSUME FInv, ReadRun
    PROVE  FInv'
<1>. DEFINE r == run_clusters
            b == cluster_bytes
            t == total_read + run_bytes
<1>1. IInv'
  BY ReadRunKeeps DEF FInv
<1>2. /\ pc = "read" /\ Readable(ClusterLba(run_start), run_clusters * bpb.spc)
      /\ dest' = Copied(total_read, ClusterLba(run_start) * SectorBytes, run_bytes)
      /\ total_read' = t /\ pc' = Loop(next_cl, t)
      /\ cluster' = next_cl /\ run_start' = next_cl /\ run_clusters' = 1
      /\ UNCHANGED <<card, partitionlba, bpb, first, max_size, next_cl, failed>>
      /\ Loop(next_cl, total_read') = Loop(next_cl, t)
  BY DEF ReadRun, volume
<1>3. /\ VolumeInv /\ partitionlba # 0 /\ Span \in Nat /\ SectorBytes \in Nat
      /\ b \in Nat \ {0} /\ r \in Nat \ {0} /\ next_cl \in Entry /\ Entry \subseteq Nat
      /\ run_start \in Entry /\ total_read \in Nat /\ max_size \in Nat /\ max_size <= Span
  BY <1>2, RunNumbers
<1>4. ClusterLba(run_start) * SectorBytes \in Int /\ run_bytes \in Nat /\ run_bytes = r * b
  <2>1. ClusterLba(run_start) \in Nat
    BY <1>3, Geometry
  <2>2. \A x, y \in Nat : x * y \in Nat
    OBVIOUS
  <2>. QED
    BY <1>3, <2>1, <2>2 DEF run_bytes
<1>5. InUse' /\ Bounded'
  BY <1>2, <1>3 DEF FInv, InUse, Bounded
<1>6. pc' \in {"next", "done"}
  BY <1>2 DEF Loop
<1>7. FollowsSectors'
  BY <1>6 DEF FollowsSectors
<1>8. Sound' => Sound /\ ExposesTheFile /\ \E q \in 0 .. Span : RunAt(q)
  BY <1>2, Decided DEF Sound, FInv, FollowsRuns, Shown
<1>9. Shown'
  <2>. SUFFICES ASSUME Sound' PROVE ExposesTheFile'
    BY DEF Shown
  <2>1. PICK q \in 0 .. Span : RunAt(q)
    BY <1>8
  <2>2. \A m \in 0 .. (run_bytes - 1) :
            FileByte(total_read + m) = ClusterLba(run_start) * SectorBytes + m
    BY <1>2, <2>1, RunHolds
  <2>3. "table" \notin failed /\ ExposesTheFile
    BY <1>8 DEF Sound
  <2>4. \A k \in 0 .. (total_read + run_bytes - 1) :
            k < max_size => dest'[k] = FileByte(k)
    <3>. DEFINE x == ClusterLba(run_start) * SectorBytes
    <3>1. \A k \in 0 .. (total_read + run_bytes - 1) :
             k < max_size => Copied(total_read, x, run_bytes)[k] = FileByte(k)
      <4>1. \A m \in 0 .. (run_bytes - 1) : FileByte(total_read + m) = x + m
        BY <2>2
      <4>2. x \in Int
        BY <1>4
      <4>. HIDE DEF x
      <4>. QED
        BY <1>4, <2>3, <4>1, <4>2, CopyShows
    <3>. QED
      BY <1>2, <3>1
  <2>5. \A k : FileByte(k)' = FileByte(k)
    BY <1>2, Decided
  <2>6. \A k \in 0 .. (total_read' - 1) : k < max_size' => dest'[k] = FileByte(k)
    <3>1. total_read' = total_read + run_bytes /\ max_size' = max_size
      BY <1>2
    <3>. HIDE DEF t
    <3>. QED
      BY <1>3, <1>4, <2>4, <3>1
  <2>. QED
    BY <2>5, <2>6 DEF ExposesTheFile
<1>10. ASSUME NEW q \in 0 .. Span, RunAt(q)
       PROVE  /\ q + r \in 0 .. Span /\ t = (q + r) * b /\ next_cl = chain[q + r]
  <2>1. q + r <= Span /\ total_read = q * b /\ next_cl = chain[q + r]
    BY <1>2, <1>10 DEF RunAt
  <2>2. (q + r) * b = q * b + r * b
    <3>. HIDE DEF b, r
    <3>. QED
      BY <1>3, Distributes
  <2>. QED
    BY <1>3, <1>4, <2>1, <2>2
<1>11. chain' = chain /\ cluster_bytes' = b
  BY <1>2, Decided
<1>12. FollowsRuns'
  <2>. SUFFICES ASSUME Sound', pc' = "next" PROVE \E q \in 0 .. Span : RunAt(q)'
    BY <1>6 DEF FollowsRuns
  <2>1. PICK q \in 0 .. Span : RunAt(q)
    BY <1>8
  <2>a. q + r \in 0 .. Span /\ t = (q + r) * b /\ next_cl = chain[q + r]
    BY <1>10, <2>1
  <2>. PICK u \in 0 .. Span : u = q + r
    BY <2>a
  <2>2. u \in 0 .. Span /\ t = u * b /\ next_cl = chain[u]
    BY <2>a
  <2>3. InChain(next_cl) /\ t < max_size
    BY <1>2 DEF Loop
  <2>4. u + 1 <= Span
    <3>1. u \in Nat /\ t = u * b
      BY <1>3, <2>2
    <3>3. u < Span
      <4>1. u * 1 <= u * b
        <5>. HIDE DEF b
        <5>. QED
          BY <1>3, <3>1
      <4>2. u * b \in Nat
        BY <1>3, <3>1
      <4>. HIDE DEF b, t
      <4>. QED
        BY <1>3, <2>3, <3>1, <4>1, <4>2
    <3>. QED
      BY <1>3, <3>1, <3>3
  <2>5. \A k \in 0 .. 0 : chain[u + k] = next_cl + k
    BY <1>3, <2>2
  <2>6. cluster' = run_start' + run_clusters' - 1
    BY <1>2, <1>3
  <2>7. run_start' = chain'[u] /\ InChain(run_start)' /\ InChain(cluster)'
    BY <1>2, <1>11, <2>2, <2>3 DEF InChain
  <2>8. total_read' = u * cluster_bytes'
    BY <1>2, <1>11, <2>2
  <2>9. \A k \in 0 .. (run_clusters' - 1) : chain'[u + k] = run_start' + k
    BY <1>2, <1>11, <2>5
  <2>10. u + run_clusters' <= Span
    BY <1>2, <2>4
  <2>11. RunAt(u)'
    BY <1>2, <2>6, <2>7, <2>8, <2>9, <2>10 DEF RunAt
  <2>. QED
    BY <2>11
<1>13. Ends'
  <2>. SUFFICES ASSUME Sound', pc' = "done", total_read' < max_size'
                PROVE  ~ InChain(chain[total_read \div cluster_bytes])'
    BY DEF Ends, ShortOnlyAtTheEnd
  <2>1. PICK q \in 0 .. Span : RunAt(q)
    BY <1>8
  <2>2. q + r \in 0 .. Span /\ t = (q + r) * b /\ next_cl = chain[q + r]
    BY <1>10, <2>1
  <2>3. ~ InChain(next_cl)
    BY <1>2 DEF Loop
  <2>4. t \div b = q + r
    <3>1. 0 \in 0 .. (b - 1) /\ q + r \in Nat
      BY <1>3, <2>2
    <3>2. ((q + r) * b + 0) \div b = q + r
      <4>. HIDE DEF b
      <4>. QED
        BY <1>3, <3>1, Splits
    <3>3. (q + r) * b + 0 = (q + r) * b
      <4>1. \A x \in Nat : x + 0 = x
        OBVIOUS
      <4>2. (q + r) * b \in Nat
        <5>1. \A x, y \in Nat : x * y \in Nat
          OBVIOUS
        <5>. QED
          BY <1>3, <3>1, <5>1
      <4>. QED
        BY <4>1, <4>2
    <3>. QED
      BY <2>2, <3>2, <3>3
  <2>5. chain'[total_read' \div cluster_bytes'] = next_cl
    BY <1>2, <1>11, <2>2, <2>4
  <2>. QED
    BY <2>3, <2>5 DEF InChain
<1>. QED
  BY <1>1, <1>5, <1>7, <1>9, <1>12, <1>13 DEF FInv

(* A failing request counts nothing.                                       *)
LEMMA RunFailsFollows ==
    ASSUME FInv, RunFails
    PROVE  FInv'
<1>1. IInv'
  BY RunFailsKeeps DEF FInv
<1>2. /\ pc = "read" /\ pc' = "done" /\ failed' = failed \union {"data"}
      /\ UNCHANGED <<card, partitionlba, bpb, first, max_size, total_read>>
  BY DEF RunFails, volume
<1>3. /\ total_read \in Nat /\ max_size \in Nat /\ max_size <= Span /\ Span \in Nat
      /\ dest \in [0 .. (Span - 1) -> Int]
  BY <1>2, RunNumbers DEF FInv, IInv, ReadTypeOK
<1>4. PICK b, n : dest' = Copied(total_read, b, n)
  BY DEF RunFails
<1>5. \A k \in 0 .. (total_read - 1) : k < max_size => dest'[k] = dest[k]
  BY <1>3, <1>4 DEF Copied
<1>6. Shown'
  BY <1>2, <1>5, ShownStays
<1>7. InUse' /\ Bounded'
  BY <1>2 DEF FInv, InUse, Bounded
<1>8. FollowsRuns' /\ FollowsSectors' /\ Ends'
  BY <1>2 DEF FollowsRuns, FollowsSectors, Ends, ShortOnlyAtTheEnd
<1>. QED
  BY <1>1, <1>6, <1>7, <1>8 DEF FInv

(* A part that does not fill its run is in one cluster.                    *)
LEMMA PartIsSmall ==
    ASSUME FInv, pc = "read", ~ Fits, NEW q \in 0 .. Span, RunAt(q)
    PROVE  /\ run_clusters = 1 /\ bytes_remaining \in Nat /\ bytes_remaining < cluster_bytes
           /\ total_read + bytes_remaining = max_size /\ total_read = q * cluster_bytes
           /\ run_start = chain[q] /\ InChain(run_start)
<1>1. /\ cluster_bytes \in Nat \ {0} /\ run_clusters \in Nat \ {0}
      /\ total_read \in Nat /\ max_size \in Nat /\ total_read < max_size
  BY RunNumbers
<1>2. bytes_remaining = max_size - total_read
  BY DEF FInv, IInv, Remaining
<1>3. ~ (bytes_remaining >= run_bytes) /\ run_bytes = run_clusters * cluster_bytes
  BY DEF Fits, run_bytes
<1>4. run_bytes \in Nat
  <2>1. \A x, y \in Nat : x * y \in Nat
    OBVIOUS
  <2>. QED
    BY <1>1, <1>3, <2>1
<1>5. run_clusters = 1 \/ total_read + run_bytes <= max_size
  BY DEF RunAt
<1>6. run_clusters = 1
  BY <1>1, <1>2, <1>3, <1>4, <1>5
<1>7. run_bytes = cluster_bytes
  BY <1>1, <1>3, <1>6
<1>8. total_read = q * cluster_bytes /\ run_start = chain[q] /\ InChain(run_start)
  BY DEF RunAt
<1>. HIDE DEF run_bytes, cluster_bytes
<1>. QED
  BY <1>1, <1>2, <1>3, <1>6, <1>7, <1>8

LEMMA ReadLastSectorFollows ==
    ASSUME FInv, ReadLastSector
    PROVE  FInv'
<1>. DEFINE b == ClusterLba(run_start) * SectorBytes
<1>1. IInv'
  BY ReadLastSectorKeeps DEF FInv
<1>2. /\ pc = "read" /\ pc' = "done" /\ ~ Fits /\ sectors_to_read <= 1
      /\ UNCHANGED <<card, partitionlba, bpb, first, max_size>>
      /\ \/ /\ dest' = Copied(total_read, b, bytes_remaining)
            /\ total_read' = total_read + bytes_remaining
            /\ UNCHANGED failed
         \/ failed' = failed \union {"data"} /\ UNCHANGED <<dest, total_read>>
  BY DEF ReadLastSector, volume
<1>3. /\ VolumeInv /\ partitionlba # 0 /\ Span \in Nat /\ SectorBytes \in Nat \ {0}
      /\ cluster_bytes \in Nat \ {0} /\ run_start \in Entry
      /\ total_read \in Nat /\ max_size \in Nat /\ max_size <= Span
  BY <1>2, RunNumbers
<1>4. FollowsRuns' /\ FollowsSectors'
  BY <1>2 DEF FollowsRuns, FollowsSectors
<1>5. InUse' /\ Bounded'
  BY <1>2, <1>3 DEF FInv, InUse, Bounded
<1>6. CASE failed' = failed \union {"data"} /\ UNCHANGED <<dest, total_read>>
  <2>1. Shown'
    BY <1>2, <1>6, ShownStays
  <2>2. Ends'
    BY <1>6 DEF Ends, ShortOnlyAtTheEnd
  <2>. QED
    BY <1>1, <1>4, <1>5, <2>1, <2>2 DEF FInv
<1>7. CASE /\ dest' = Copied(total_read, b, bytes_remaining)
           /\ total_read' = total_read + bytes_remaining
           /\ UNCHANGED failed
  <2>1. Sound' => Sound /\ ExposesTheFile /\ \E q \in 0 .. Span : RunAt(q)
    BY <1>2, <1>7, Decided DEF Sound, FInv, FollowsRuns, Shown
  <2>2. Ends'
    <3>. SUFFICES ASSUME Sound' PROVE ShortOnlyAtTheEnd'
      BY DEF Ends
    <3>1. PICK q \in 0 .. Span : RunAt(q)
      BY <2>1
    <3>2. total_read + bytes_remaining = max_size
      BY <1>2, <3>1, PartIsSmall
    <3>3. ~ (total_read' < max_size')
      BY <1>2, <1>3, <1>7, <3>2
    <3>. QED
      BY <3>3 DEF ShortOnlyAtTheEnd
  <2>3. Shown'
    <3>. SUFFICES ASSUME Sound' PROVE ExposesTheFile'
      BY DEF Shown
    <3>1. PICK q \in 0 .. Span : RunAt(q)
      BY <2>1
    <3>2. /\ bytes_remaining \in Nat /\ bytes_remaining < cluster_bytes
          /\ total_read = q * cluster_bytes /\ run_start = chain[q]
      BY <1>2, <3>1, PartIsSmall
    <3>3. b \in Int
      <4>1. ClusterLba(run_start) \in Nat
        BY <1>3, Geometry
      <4>2. \A x, y \in Nat : x * y \in Int
        OBVIOUS
      <4>. QED
        BY <1>3, <4>1, <4>2
    <3>4. \A m \in 0 .. (bytes_remaining - 1) : FileByte(total_read + m) = b + m
      <4>. SUFFICES ASSUME NEW m \in 0 .. (bytes_remaining - 1)
                    PROVE  FileByte(total_read + m) = b + m
        OBVIOUS
      <4>1. m \in 0 .. (cluster_bytes - 1) /\ q \in Nat
        BY <1>3, <3>2
      <4>2. FileByte(q * cluster_bytes + m) = ClusterLba(chain[q]) * SectorBytes + m
        BY <1>3, <4>1, ByteAt
      <4>. QED
        BY <3>2, <4>2
    <3>5. "table" \notin failed /\ ExposesTheFile
      BY <2>1 DEF Sound
    <3>6. \A k \in 0 .. (total_read + bytes_remaining - 1) :
             k < max_size => dest'[k] = FileByte(k)
      <4>. HIDE DEF b
      <4>1. \A k \in 0 .. (total_read + bytes_remaining - 1) :
               k < max_size => Copied(total_read, b, bytes_remaining)[k] = FileByte(k)
        BY <3>2, <3>3, <3>4, <3>5, CopyShows
      <4>. QED
        BY <1>7, <4>1
    <3>7. \A k : FileByte(k)' = FileByte(k)
      BY <1>2, Decided
    <3>8. \A k \in 0 .. (total_read' - 1) : k < max_size' => dest'[k] = FileByte(k)
      <4>1. total_read' = total_read + bytes_remaining /\ max_size' = max_size
        BY <1>2, <1>7
      <4>. QED
        BY <1>3, <3>2, <3>6, <4>1
    <3>. QED
      BY <3>7, <3>8 DEF ExposesTheFile
  <2>. QED
    BY <1>1, <1>4, <1>5, <2>2, <2>3 DEF FInv
<1>. QED
  BY <1>2, <1>6, <1>7

LEMMA GoBySectorsFollows ==
    ASSUME FInv, GoBySectors
    PROVE  FInv'
<1>1. IInv'
  BY GoBySectorsKeeps DEF FInv
<1>2. /\ pc = "read" /\ pc' = "sectors" /\ ~ Fits /\ sectors_to_read > 1 /\ sectors_done' = 0
      /\ UNCHANGED <<card, partitionlba, bpb, first, max_size, run_start, run_clusters,
                     total_read, bytes_remaining, dest, failed>>
  BY DEF GoBySectors, volume
<1>3. Shown'
  BY <1>2, ShownStays
<1>4. InUse' /\ Bounded'
  BY <1>2 DEF FInv, InUse, Bounded
<1>5. FollowsRuns' /\ Ends'
  BY <1>2 DEF FollowsRuns, Ends, ShortOnlyAtTheEnd
<1>6. FollowsSectors'
  <2>. SUFFICES ASSUME Sound' PROVE \E q \in 0 .. Span : SectorAt(q)'
    BY DEF FollowsSectors
  <2>1. Sound
    BY <1>2, Decided DEF Sound
  <2>2. PICK q \in 0 .. Span : RunAt(q)
    BY <1>2, <2>1 DEF FInv, FollowsRuns
  <2>3. /\ run_clusters = 1 /\ bytes_remaining \in Nat /\ bytes_remaining < cluster_bytes
        /\ total_read + bytes_remaining = max_size /\ total_read = q * cluster_bytes
        /\ run_start = chain[q] /\ InChain(run_start)
    BY <1>2, <2>2, PartIsSmall
  <2>4. /\ SectorBytes \in Nat \ {0} /\ total_read \in Nat /\ max_size \in Nat
        /\ total_read < max_size
    BY <1>2, RunNumbers
  <2>5. SectorBytes < bytes_remaining
    <3>1. ASSUME bytes_remaining <= SectorBytes PROVE FALSE
      <4>1. bytes_remaining + SectorBytes - 1 < 2 * SectorBytes
        BY <2>3, <2>4, <3>1
      <4>. DEFINE x == bytes_remaining + SectorBytes - 1
                  d == x \div SectorBytes
      <4>2. x \in Nat
        BY <2>3, <2>4
      <4>3. d \in Nat /\ d * SectorBytes <= x
        <5>1. SectorBytes \in Nat \ {0}
          BY <2>4
        <5>2. d \in Nat /\ \E w \in 0 .. (SectorBytes - 1) : x = d * SectorBytes + w
          <6>. HIDE DEF x
          <6>. QED
            BY <4>2, <5>1, Division
        <5>. HIDE DEF x, d
        <5>3. PICK w \in 0 .. (SectorBytes - 1) : x = d * SectorBytes + w
          BY <5>2
        <5>4. d * SectorBytes \in Nat
          <6>1. \A y, z \in Nat : y * z \in Nat
            OBVIOUS
          <6>. QED
            BY <5>1, <5>2, <6>1
        <5>. QED
          BY <5>1, <5>2, <5>3, <5>4
      <4>4. d > 1
        BY <1>2 DEF sectors_to_read
      <4>5. 2 * SectorBytes <= d * SectorBytes
        <5>. HIDE DEF d
        <5>. QED
          BY <2>4, <4>3, <4>4, Monotone
      <4>6. 2 * SectorBytes \in Nat /\ d * SectorBytes \in Nat
        <5>1. \A y, z \in Nat : y * z \in Nat
          OBVIOUS
        <5>. QED
          BY <2>4, <4>3, <5>1
      <4>7. x < 2 * SectorBytes
        BY <4>1
      <4>. HIDE DEF x, d
      <4>. QED
        BY <4>2, <4>3, <4>5, <4>6, <4>7
    <3>. QED
      BY <2>3, <2>4, <3>1
  <2>6. chain' = chain /\ cluster_bytes' = cluster_bytes
    BY <1>2, Decided
  <2>7. total_read' = q * cluster_bytes' + sectors_done' * SectorBytes
    <3>1. 0 * SectorBytes = 0
      BY <2>4, OfNothing
    <3>2. total_read + 0 = total_read
      BY <2>4
    <3>. QED
      BY <1>2, <2>3, <2>6, <3>1, <3>2
  <2>8. SectorAt(q)'
    BY <1>2, <2>3, <2>4, <2>5, <2>6, <2>7 DEF SectorAt, InChain
  <2>. QED
    BY <2>8
<1>. QED
  BY <1>1, <1>3, <1>4, <1>5, <1>6 DEF FInv

LEMMA Products == \A x, y \in Nat : x * y \in Nat
OBVIOUS

(* A difference of words that is negative.                                 *)
LEMMA Wraps ==
    ASSUME NEW w \in Nat \ {0}, NEW a \in Nat, NEW b \in Nat, a < b, b - a < w
    PROVE  (a - b) % w = w - (b - a)
<1>1. w - (b - a) \in 0 .. (w - 1) /\ a - b = (0 - 1) * w + (w - (b - a))
  OBVIOUS
<1>2. \A m \in 0 .. (w - 1) : ((0 - 1) * w + m) % w = m
  OBVIOUS
<1>. QED
  BY <1>1, <1>2

LEMMA StaysBelow ==
    ASSUME NEW w \in Nat \ {0}, NEW a \in 0 .. (w - 1)
    PROVE  a % w = a
OBVIOUS

(* What is copied of a sector, although line 567 subtracts too much.       *)
LEMMA CopyIs ==
    ASSUME FInv, pc = "sectors", NEW q \in 0 .. Span, SectorAt(q)
    PROVE  copy \in 0 .. SectorBytes /\ (copy # SectorBytes => total_read + copy = max_size)
<1>. DEFINE b == q * cluster_bytes
            d == sectors_done * SectorBytes
            w == WordSpace
<1>1. /\ VolumeInv /\ partitionlba # 0 /\ Span \in Nat /\ max_size \in Word
      /\ total_read \in Nat /\ max_size \in Nat /\ bytes_remaining \in Nat /\ sectors_done \in Nat
  BY ReadAssumption DEF FInv, IInv, InUse, Bounded, ReadTypeOK
<1>2. SectorBytes \in Nat \ {0} /\ w \in Nat \ {0} /\ cluster_bytes \in Nat \ {0} /\ max_size < w
  BY <1>1, Clusters, VolumeAssumption DEF Word
<1>3. /\ max_size = b + bytes_remaining /\ total_read = b + d /\ total_read < max_size
      /\ SectorBytes < bytes_remaining /\ bytes_remaining < cluster_bytes
  BY DEF SectorAt
<1>4. b \in Nat /\ d \in Nat
  BY <1>1, <1>2, Products
<1>5. CASE q = 0
  <2>1. b = 0
    BY <1>2, <1>5, OfNothing
  <2>. HIDE DEF b, d, w
  <2>2. max_size = bytes_remaining /\ bytes_remaining - total_read \in 1 .. (w - 1)
    BY <1>1, <1>2, <1>3, <1>4, <2>1
  <2>3. (bytes_remaining - total_read) % w = bytes_remaining - total_read
    BY <1>2, <2>2, StaysBelow
  <2>4. copy = IF bytes_remaining - total_read > SectorBytes
               THEN SectorBytes ELSE bytes_remaining - total_read
    BY <2>3 DEF copy, w
  <2>. QED
    BY <1>1, <1>2, <2>2, <2>4
<1>6. CASE q # 0
  <2>1. b >= cluster_bytes
    <3>1. 1 \in Nat /\ q \in Nat /\ 1 <= q /\ cluster_bytes \in Nat
      BY <1>1, <1>2, <1>6
    <3>2. 1 * cluster_bytes <= q * cluster_bytes
      BY <3>1, Monotone
    <3>. QED
      BY <1>2, <3>2
  <2>. HIDE DEF b, d, w
  <2>2. /\ bytes_remaining < total_read /\ total_read - bytes_remaining < w
        /\ SectorBytes < w - (total_read - bytes_remaining)
    BY <1>1, <1>2, <1>3, <1>4, <2>1
  <2>3. (bytes_remaining - total_read) % w = w - (total_read - bytes_remaining)
    BY <1>1, <1>2, <2>2, Wraps
  <2>4. copy = SectorBytes
    BY <2>2, <2>3 DEF copy, w
  <2>. QED
    BY <1>2, <2>4
<1>. QED
  BY <1>5, <1>6

LEMMA ReadSectorFollows ==
    ASSUME FInv, ReadSector
    PROVE  FInv'
<1>. DEFINE s == SectorBytes
            c == ClusterLba(run_start)
            l == (c + sectors_done) % WordSpace
<1>1. IInv'
  BY ReadSectorKeeps DEF FInv
<1>2. /\ pc = "sectors" /\ Readable(l, 1) /\ dest' = Copied(total_read, l * s, copy)
      /\ total_read' = total_read + copy /\ sectors_done' = sectors_done + 1
      /\ pc' = IF sectors_done' < sectors_to_read /\ total_read' < max_size
               THEN "sectors" ELSE "done"
      /\ UNCHANGED <<card, partitionlba, bpb, first, max_size, run_start, run_clusters,
                     bytes_remaining, failed>>
  BY DEF ReadSector, volume
<1>3. /\ VolumeInv /\ partitionlba # 0 /\ Span \in Nat
      /\ total_read \in Nat /\ max_size \in Nat /\ bytes_remaining \in Nat /\ sectors_done \in Nat
      /\ run_start \in Entry
  BY <1>2, ReadAssumption DEF FInv, IInv, InUse, Bounded, ReadTypeOK
<1>4. /\ s \in Nat \ {0} /\ WordSpace \in Nat \ {0} /\ bpb.spc \in Nat \ {0}
      /\ cluster_bytes \in Nat \ {0} /\ cluster_bytes = bpb.spc * s /\ c \in Nat
  BY <1>3, Clusters, Geometry, VolumeAssumption
<1>5. pc' \in {"sectors", "done"}
  BY <1>2
<1>6. InUse' /\ Bounded'
  BY <1>2, <1>3 DEF FInv, InUse, Bounded
<1>7. FollowsRuns'
  BY <1>5 DEF FollowsRuns
<1>8. Sound' => Sound /\ ExposesTheFile /\ \E q \in 0 .. Span : SectorAt(q)
  BY <1>2, Decided DEF Sound, FInv, FollowsSectors, Shown
<1>9. ASSUME NEW q \in 0 .. Span, SectorAt(q)
      PROVE  /\ l = c + sectors_done /\ Readable(c, sectors_done + 1)
             /\ copy \in 0 .. s
             /\ \A m \in 0 .. (copy - 1) : FileByte(total_read + m) = l * s + m
             /\ copy # s => ~ (total_read' < max_size)
             /\ copy = s => total_read' = q * cluster_bytes + (sectors_done + 1) * s
  <2>. DEFINE b == q * cluster_bytes
              d == sectors_done * s
              p == bpb.spc
  <2>1. /\ run_start = chain[q]
        /\ max_size = b + bytes_remaining /\ total_read = b + d
        /\ total_read < max_size /\ bytes_remaining < cluster_bytes
        /\ sectors_done > 0 => Readable(c, sectors_done)
    BY <1>9 DEF SectorAt
  <2>2. b \in Nat /\ d \in Nat
    BY <1>3, <1>4, Products
  <2>3. copy \in 0 .. s /\ (copy # s => total_read + copy = max_size)
    BY <1>2, <1>9, CopyIs
  <2>4. c + sectors_done < WordSpace
    <3>1. CASE sectors_done = 0
      <4>1. c \in 0 .. (WordSpace - 1)
        <5>1. PICK x \in Int : c = x % WordSpace
          <6>1. data_sec + (run_start - 2) * bpb.spc \in Int
            <7>1. /\ partitionlba \in Nat /\ bpb.rsc \in Nat /\ bpb.nf \in Nat /\ bpb.spf32 \in Nat
                  /\ run_start - 2 \in Int
              BY <1>3, VolumeAssumption DEF VolumeInv, TypeOK, BootRecord, Word, Entry
            <7>2. bpb.nf * bpb.spf32 \in Nat
              BY <7>1, Products
            <7>3. \A y \in Int, z \in Nat : y * z \in Int
              OBVIOUS
            <7>4. (run_start - 2) * bpb.spc \in Int
              BY <1>4, <7>1, <7>3
            <7>. QED
              BY <7>1, <7>2, <7>4 DEF data_sec
          <6>. QED
            BY <6>1 DEF ClusterLba
        <5>. HIDE DEF c
        <5>. QED
          BY <1>4, <5>1
      <4>. HIDE DEF c
      <4>. QED
        BY <1>3, <1>4, <3>1, <4>1
    <3>2. CASE sectors_done > 0
      <4>. HIDE DEF c
      <4>. QED
        BY <1>3, <1>4, <2>1, <3>2, OnTheCard
    <3>. QED
      BY <1>3, <3>1, <3>2
  <2>5. l = c + sectors_done
    <3>1. c + sectors_done \in 0 .. (WordSpace - 1)
      <4>. HIDE DEF c
      <4>. QED
        BY <1>3, <1>4, <2>4
    <3>. HIDE DEF c
    <3>. QED
      BY <1>4, <3>1, StaysBelow
  <2>6. Readable(c, sectors_done + 1)
    <3>1. (c + sectors_done) + 1 <= card.sectors
      <4>. HIDE DEF c, l
      <4>. QED
        BY <1>2, <2>5 DEF Readable
    <3>2. (c + sectors_done) + 1 = c + (sectors_done + 1)
      <4>. HIDE DEF c
      <4>. QED
        BY <1>3, <1>4
    <3>. HIDE DEF c
    <3>. QED
      BY <3>1, <3>2 DEF Readable
  <2>7. d + s <= cluster_bytes
    <3>1. d < cluster_bytes
      <4>. HIDE DEF b, d
      <4>. QED
        BY <1>3, <1>4, <2>1, <2>2
    <3>2. sectors_done < p
      <4>1. ASSUME sectors_done >= p PROVE FALSE
        <5>1. p * s <= sectors_done * s
          <6>1. p \in Nat /\ sectors_done \in Nat /\ s \in Nat /\ p <= sectors_done
            BY <1>3, <1>4, <4>1
          <6>. HIDE DEF p, s
          <6>. QED
            BY <6>1, Monotone
        <5>2. p * s \in Nat /\ sectors_done * s \in Nat
          BY <1>3, <1>4, Products
        <5>3. d = sectors_done * s /\ cluster_bytes = p * s
          BY <1>4
        <5>. HIDE DEF d, p, s
        <5>. QED
          BY <3>1, <5>1, <5>2, <5>3
      <4>. QED
        BY <1>3, <1>4, <4>1
    <3>3. (sectors_done + 1) * s <= p * s
      <4>1. sectors_done + 1 \in Nat /\ p \in Nat /\ s \in Nat /\ sectors_done + 1 <= p
        BY <1>3, <1>4, <3>2
      <4>. HIDE DEF p, s
      <4>. QED
        BY <4>1, Monotone
    <3>4. (sectors_done + 1) * s = d + 1 * s /\ 1 * s = s
      <4>. HIDE DEF s
      <4>. QED
        BY <1>3, <1>4, Distributes
    <3>. QED
      BY <1>4, <3>3, <3>4
  <2>8. ASSUME NEW m \in 0 .. (copy - 1)
        PROVE  FileByte(total_read + m) = l * s + m
    <3>1. m \in Nat /\ m < s
      <4>. HIDE DEF s
      <4>. QED
        BY <1>4, <2>3
    <3>2. d + m \in 0 .. (cluster_bytes - 1) /\ total_read + m = b + (d + m)
      <4>. HIDE DEF b, d, s
      <4>. QED
        BY <1>4, <2>1, <2>2, <2>7, <3>1
    <3>3. FileByte(b + (d + m)) = ClusterLba(chain[q]) * s + (d + m)
      <4>1. q \in Nat
        BY <1>3
      <4>. DEFINE e == d + m
      <4>2. e \in 0 .. (cluster_bytes - 1)
        BY <3>2
      <4>. HIDE DEF e
      <4>3. FileByte(q * cluster_bytes + e) = ClusterLba(chain[q]) * SectorBytes + e
        BY <1>3, <4>1, <4>2, ByteAt
      <4>. QED
        BY <4>3 DEF e
    <3>4. (c + sectors_done) * s = c * s + d /\ c * s \in Nat
      <4>. HIDE DEF c, s
      <4>. QED
        BY <1>3, <1>4, Distributes, Products
    <3>5. c * s + (d + m) = (c * s + d) + m
      <4>. HIDE DEF c, s, d
      <4>. QED
        BY <2>2, <3>1, <3>4
    <3>. QED
      BY <2>1, <2>5, <3>2, <3>3, <3>4, <3>5
  <2>9. copy # s => ~ (total_read' < max_size)
    BY <1>2, <1>3, <2>3
  <2>10. copy = s => total_read' = b + (sectors_done + 1) * s
    <3>1. (sectors_done + 1) * s = d + 1 * s /\ 1 * s = s
      <4>. HIDE DEF s
      <4>. QED
        BY <1>3, <1>4, Distributes
    <3>. HIDE DEF b, d, s
    <3>. QED
      BY <1>2, <1>4, <2>1, <2>2, <3>1
  <2>. QED
    BY <2>3, <2>5, <2>6, <2>8, <2>9, <2>10
<1>10. chain' = chain /\ cluster_bytes' = cluster_bytes /\ \A k : FileByte(k)' = FileByte(k)
       /\ (\A x, n : Readable(x, n)' <=> Readable(x, n)) /\ \A x : ClusterLba(x)' = ClusterLba(x)
  BY <1>2, Decided
<1>11. Shown'
  <2>. SUFFICES ASSUME Sound' PROVE ExposesTheFile'
    BY DEF Shown
  <2>1. PICK q \in 0 .. Span : SectorAt(q)
    BY <1>8
  <2>2. copy \in 0 .. s /\ \A m \in 0 .. (copy - 1) : FileByte(total_read + m) = l * s + m
    BY <1>9, <2>1
  <2>3. l * s \in Int /\ copy \in Nat
    <3>1. l \in Nat
      BY <1>3, <1>4, <1>9, <2>1
    <3>. HIDE DEF l, s
    <3>. QED
      BY <1>4, <2>2, <3>1, Products
  <2>4. "table" \notin failed /\ ExposesTheFile
    BY <1>8 DEF Sound
  <2>5. \A k \in 0 .. (total_read + copy - 1) : k < max_size => dest'[k] = FileByte(k)
    <3>. DEFINE x == l * s
    <3>1. x \in Int /\ (\A m \in 0 .. (copy - 1) : FileByte(total_read + m) = x + m)
          /\ dest' = Copied(total_read, x, copy)
      BY <1>2, <2>2, <2>3
    <3>. HIDE DEF x
    <3>2. \A k \in 0 .. (total_read + copy - 1) :
             k < max_size => Copied(total_read, x, copy)[k] = FileByte(k)
      BY <2>3, <2>4, <3>1, CopyShows
    <3>. QED
      BY <3>1, <3>2
  <2>6. \A k \in 0 .. (total_read' - 1) : k < max_size' => dest'[k] = FileByte(k)
    <3>1. total_read' = total_read + copy /\ max_size' = max_size
      BY <1>2
    <3>. QED
      BY <1>3, <2>3, <2>5, <3>1
  <2>. QED
    BY <1>10, <2>6 DEF ExposesTheFile
<1>12. FollowsSectors'
  <2>. SUFFICES ASSUME Sound', pc' = "sectors" PROVE \E q \in 0 .. Span : SectorAt(q)'
    BY DEF FollowsSectors
  <2>1. PICK q \in 0 .. Span : SectorAt(q)
    BY <1>8
  <2>2. total_read' < max_size
    BY <1>2
  <2>3. Readable(c, sectors_done + 1) /\ total_read' = q * cluster_bytes + (sectors_done + 1) * s
    BY <1>9, <2>1, <2>2
  <2>4. Readable(ClusterLba(run_start), sectors_done)'
    <3>1. ClusterLba(run_start)' = c
      BY <1>2, <1>10 DEF ClusterLba, data_sec
    <3>. QED
      BY <1>2, <2>3, <3>1 DEF Readable
  <2>. QED
    BY <1>2, <1>10, <2>1, <2>2, <2>3, <2>4 DEF SectorAt, InChain
<1>13. Ends'
  <2>. SUFFICES ASSUME Sound', pc' = "done", total_read' < max_size' PROVE FALSE
    BY DEF Ends, ShortOnlyAtTheEnd
  <2>1. PICK q \in 0 .. Span : SectorAt(q)
    BY <1>8
  <2>. DEFINE b == q * cluster_bytes
              y == bytes_remaining + s - 1
              d == y \div s
  <2>2. total_read' < max_size /\ ~ (sectors_done + 1 < d)
    BY <1>2 DEF sectors_to_read
  <2>3. total_read' = b + (sectors_done + 1) * s
    BY <1>9, <2>1, <2>2
  <2>4. max_size = b + bytes_remaining
    BY <2>1 DEF SectorAt
  <2>5. b \in Nat /\ y \in Nat
    BY <1>3, <1>4, <2>1, Products
  <2>6. d \in Nat /\ bytes_remaining <= d * s /\ d * s \in Nat
    <3>1. d \in Nat /\ \E m \in 0 .. (s - 1) : y = d * s + m
      <4>. HIDE DEF y, s
      <4>. QED
        BY <1>4, <2>5, Division
    <3>2. y = bytes_remaining + s - 1
      OBVIOUS
    <3>. HIDE DEF d, y, s
    <3>3. d * s \in Nat
      BY <1>4, <3>1, Products
    <3>. QED
      BY <1>3, <1>4, <3>1, <3>2, <3>3
  <2>7. d * s <= (sectors_done + 1) * s /\ (sectors_done + 1) * s \in Nat
    <3>1. d \in Nat /\ sectors_done + 1 \in Nat /\ s \in Nat /\ d <= sectors_done + 1
      BY <1>3, <1>4, <2>2, <2>6
    <3>. HIDE DEF d, s
    <3>. QED
      BY <3>1, Monotone, Products
  <2>. DEFINE e == (sectors_done + 1) * s
              f == d * s
  <2>8. f <= e /\ e \in Nat /\ f \in Nat /\ bytes_remaining <= f /\ total_read' = b + e
    BY <2>3, <2>6, <2>7
  <2>. HIDE DEF b, d, e, f, y
  <2>. QED
    BY <1>3, <2>2, <2>4, <2>5, <2>8
<1>. QED
  BY <1>1, <1>6, <1>7, <1>11, <1>12, <1>13 DEF FInv

LEMMA EndsFollow ==
    ASSUME FInv, SectorFails \/ Return
    PROVE  FInv'
<1>1. IInv'
  BY EndsKeep DEF FInv
<1>2. /\ pc \in {"sectors", "done"} /\ pc' = "out" /\ failed \subseteq failed'
      /\ UNCHANGED <<card, partitionlba, bpb, first, max_size, total_read, dest>>
  BY DEF SectorFails, Return, volume
<1>3. Shown'
  BY <1>2, ShownStays
<1>4. InUse' /\ Bounded'
  BY <1>2 DEF FInv, InUse, Bounded
<1>5. FollowsRuns' /\ FollowsSectors' /\ Ends'
  BY <1>2 DEF FollowsRuns, FollowsSectors, Ends, ShortOnlyAtTheEnd
<1>. QED
  BY <1>1, <1>3, <1>4, <1>5 DEF FInv

LEMMA NothingFollows ==
    ASSUME FInv, UNCHANGED vars
    PROVE  FInv'
<1>1. IInv'
  BY NextHolds DEF FInv
<1>2. UNCHANGED <<card, partitionlba, bpb, first, max_size, total_read, dest, failed, pc, cluster,
                  run_start, run_clusters, next_cl, sectors_done, bytes_remaining>>
  BY DEF vars, volume, read
<1>3. Shown'
  BY <1>2, ShownStays
<1>4. InUse' /\ Bounded'
  BY <1>2 DEF FInv, InUse, Bounded
<1>5. chain' = chain /\ cluster_bytes' = cluster_bytes
      /\ (Sound' <=> Sound) /\ \A c : ClusterLba(c)' = ClusterLba(c)
  BY <1>2, Decided DEF Sound
<1>6. run_bytes' = run_bytes
  BY <1>2, <1>5 DEF run_bytes
<1>7. FollowsRuns'
  <2>1. \A q \in 0 .. Span : RunAt(q) => RunAt(q)'
    BY <1>2, <1>5, <1>6 DEF RunAt, InChain
  <2>. QED
    BY <1>2, <1>5, <2>1 DEF FInv, FollowsRuns
<1>8. FollowsSectors'
  <2>1. ClusterLba(run_start)' = ClusterLba(run_start)
    BY <1>2 DEF ClusterLba, data_sec
  <2>2. \A q \in 0 .. Span : SectorAt(q) => SectorAt(q)'
    BY <1>2, <1>5, <2>1 DEF SectorAt, InChain, Readable
  <2>. QED
    BY <1>2, <1>5, <2>2 DEF FInv, FollowsSectors
<1>9. Ends'
  BY <1>2, <1>5 DEF FInv, Ends, ShortOnlyAtTheEnd, InChain
<1>. QED
  BY <1>1, <1>3, <1>4, <1>7, <1>8, <1>9 DEF FInv

LEMMA Following == Spec => []FInv
<1>1. FInv /\ [Next]_vars => FInv'
  <2>. SUFFICES ASSUME FInv, [Next]_vars PROVE FInv'
    OBVIOUS
  <2>1. CASE ReadFile
    BY <2>1, LookupFollows, CoalesceFollows, ReadRunFollows, RunFailsFollows,
       ReadLastSectorFollows, GoBySectorsFollows, ReadSectorFollows, EndsFollow DEF ReadFile
  <2>2. CASE \E c \in Firsts, n \in Sizes : Call(c, n)
    BY <2>2, CallFollows
  <2>3. CASE UNCHANGED vars
    BY <2>3, NothingFollows
  <2>. QED
    BY <2>1, <2>2, <2>3 DEF Next
<1>. QED
  BY <1>1, FInit, PTL DEF Spec

(* On every card whose file has its whole chain in the table, what counts  *)
(* as read is the file from its first byte on, at every moment of the call *)
(* and after every failure but one of the table (fat.c:507-619).           *)
THEOREM ReadExposesTheFile == Spec => [](ChainIsWhole => ExposesTheFile)
<1>1. FInv => (ChainIsWhole => ExposesTheFile)
  BY DEF FInv, Shown, Sound, ExposesTheFile
<1>. QED
  BY <1>1, Following, PTL

(* There too, a read that nothing failed in ends early only where the      *)
(* file's chain ends (fat.c:475-477, 624).                                 *)
THEOREM ReadIsShortOnlyAtTheEnd == Spec => [](ChainIsWhole => ShortOnlyAtTheEnd)
<1>1. FInv => (ChainIsWhole => ShortOnlyAtTheEnd)
  BY DEF FInv, Ends, Sound, ShortOnlyAtTheEnd
<1>. QED
  BY <1>1, Following, PTL

----------------------------------------------------------------------------
(* The walks over the directory: names.                                    *)
LEMMA DirSizes ==
    /\ BaseLen \in Nat \ {0} /\ ExtLen \in Nat \ {0} /\ Piece \in Nat \ {0}
    /\ LfnCells \in Nat \ {0} /\ EntriesPerCluster \in Nat \ {0} /\ MaxOrder \in Nat
BY DirAssumption

LEMMA Marks == Blank # "."
BY Zenon DEF Blank

(* What comes before the first c of a sequence.                            *)
LEMMA UpToIs ==
    ASSUME NEW S, NEW s \in Seq(S), NEW c, NEW p \in 1 .. (Len(s) + 1),
           \A i \in 1 .. (p - 1) : s[i] # c, p <= Len(s) => s[p] = c
    PROVE  UpTo(s, c) = SubSeq(s, 1, p - 1)
<1>. DEFINE at_c == {i \in DOMAIN s : s[i] = c}
<1>0. Len(s) \in Nat /\ DOMAIN s = 1 .. Len(s)
  OBVIOUS
<1>1. CASE p <= Len(s)
  <2>1. p \in at_c /\ at_c # {}
    BY <1>0, <1>1
  <2>2. \A i \in at_c : i \in Nat /\ p <= i
    BY <1>0, <1>1
  <2>3. p \in Nat
    OBVIOUS
  <2>. DEFINE q == CHOOSE i \in at_c : \A j \in at_c : i <= j
  <2>4. UpTo(s, c) = SubSeq(s, 1, q - 1)
    BY <2>1, Zenon DEF UpTo
  <2>. HIDE DEF at_c
  <2>5. q \in at_c /\ \A j \in at_c : q <= j
    BY <2>1, <2>2, Zenon
  <2>. HIDE DEF q
  <2>6. q = p
    BY <2>1, <2>2, <2>3, <2>5
  <2>. QED
    BY <2>4, <2>6
<1>2. CASE ~ (p <= Len(s))
  <2>1. p - 1 = Len(s)
    BY <1>0, <1>2
  <2>2. at_c = {}
    BY <1>0, <2>1
  <2>3. UpTo(s, c) = s
    BY <2>2, Zenon DEF UpTo
  <2>4. SubSeq(s, 1, Len(s)) = s
    OBVIOUS
  <2>. QED
    BY <2>1, <2>3, <2>4
<1>. QED
  BY <1>1, <1>2

(* There is a first c, or none.                                            *)
LEMMA FirstOf ==
    ASSUME NEW S, NEW s \in Seq(S), NEW c
    PROVE  \E p \in 1 .. (Len(s) + 1) :
              (\A i \in 1 .. (p - 1) : s[i] # c) /\ (p <= Len(s) => s[p] = c)
<1>. DEFINE T == {i \in Nat : i \in 1 .. Len(s) /\ s[i] = c}
<1>0. Len(s) \in Nat
  OBVIOUS
<1>1. CASE T = {}
  <2>1. \A i \in 1 .. Len(s) : s[i] # c
    BY <1>0, <1>1
  <2>2. Len(s) + 1 \in 1 .. (Len(s) + 1) /\ (Len(s) + 1) - 1 = Len(s) /\ ~ (Len(s) + 1 <= Len(s))
    BY <1>0
  <2>. QED
    BY <2>1, <2>2
<1>2. CASE T # {}
  <2>1. PICK p \in T : \A j \in T : p <= j
    BY <1>2, Least
  <2>2. p \in 1 .. Len(s) /\ s[p] = c
    BY <2>1
  <2>3. ASSUME NEW i \in 1 .. (p - 1) PROVE s[i] # c
    <3>1. i \in Nat /\ i \in 1 .. Len(s) /\ ~ (p <= i)
      BY <1>0, <2>2
    <3>2. i \notin T
      <4>. HIDE DEF T
      <4>. QED
        BY <2>1, <3>1
    <3>. QED
      BY <3>1, <3>2
  <2>. QED
    BY <1>0, <2>2, <2>3
<1>. QED
  BY <1>1, <1>2

(* The part of a name before the first c: its length, its characters.      *)
LEMMA UpToParts ==
    ASSUME NEW S, NEW s \in Seq(S), NEW c
    PROVE  /\ UpTo(s, c) \in Seq(S) /\ Len(UpTo(s, c)) \in 0 .. Len(s)
           /\ \A i \in 1 .. Len(UpTo(s, c)) : UpTo(s, c)[i] = s[i] /\ s[i] # c
           /\ Len(UpTo(s, c)) < Len(s) => s[Len(UpTo(s, c)) + 1] = c
<1>0. Len(s) \in Nat
  OBVIOUS
<1>1. PICK p \in 1 .. (Len(s) + 1) :
         (\A i \in 1 .. (p - 1) : s[i] # c) /\ (p <= Len(s) => s[p] = c)
  BY FirstOf
<1>2. UpTo(s, c) = SubSeq(s, 1, p - 1)
  BY <1>1, UpToIs
<1>3. p - 1 \in 0 .. Len(s)
  BY <1>0
<1>4. /\ SubSeq(s, 1, p - 1) \in Seq(S) /\ Len(SubSeq(s, 1, p - 1)) = p - 1
      /\ \A i \in 1 .. (p - 1) : SubSeq(s, 1, p - 1)[i] = s[i]
  BY <1>0, <1>3
<1>. QED
  BY <1>0, <1>1, <1>2, <1>3, <1>4

(* The characters of names.                                                *)
Char == STRING \union {Blank, Nul}

LEMMA UpperIs ==
    ASSUME NEW c \in Char
    PROVE  /\ Upper(c) \in Char /\ Upper(Upper(c)) = Upper(c)
           /\ (Upper(c) = Blank <=> c = Blank) /\ (Upper(c) = "." <=> c = ".")
           /\ c \notin DOMAIN UpperOf => Upper(c) = c
<1>1. /\ Blank \notin DOMAIN UpperOf /\ "." \notin DOMAIN UpperOf
      /\ \A d \in DOMAIN UpperOf :
            UpperOf[d] \in STRING /\ UpperOf[d] \notin DOMAIN UpperOf
            /\ UpperOf[d] # Blank /\ UpperOf[d] # "."
  BY DirAssumption
<1>2. CASE c \in DOMAIN UpperOf
  BY <1>1, <1>2 DEF Upper, Char
<1>3. CASE c \notin DOMAIN UpperOf
  BY <1>1, <1>3 DEF Upper
<1>. QED
  BY <1>2, <1>3

LEMMA ShortenedIs ==
    ASSUME NEW s \in Seq(Char), NEW n \in Nat \ {0}
    PROVE  /\ Shortened(s, n) \in Seq(Char)
           /\ Len(Shortened(s, n)) = IF Len(s) < n THEN Len(s) ELSE n
           /\ \A i \in 1 .. Len(Shortened(s, n)) : Shortened(s, n)[i] = s[i]
           /\ Shortened(s, n) = <<>> <=> s = <<>>
<1>. DEFINE m == IF Len(s) < n THEN Len(s) ELSE n
<1>1. m \in 0 .. Len(s) /\ Len(s) \in Nat /\ (m = 0 <=> Len(s) = 0)
  OBVIOUS
<1>. HIDE DEF m
<1>2. /\ SubSeq(s, 1, m) \in Seq(Char) /\ Len(SubSeq(s, 1, m)) = m
      /\ \A i \in 1 .. m : SubSeq(s, 1, m)[i] = s[i]
  BY <1>1
<1>3. SubSeq(s, 1, m) = <<>> <=> m = 0
  BY <1>2, EmptySeq
<1>4. s = <<>> <=> Len(s) = 0
  BY EmptySeq
<1>5. Shortened(s, n) = SubSeq(s, 1, m)
  BY DEF Shortened, m
<1>6. m = IF Len(s) < n THEN Len(s) ELSE n
  BY DEF m
<1>. QED
  BY <1>1, <1>2, <1>3, <1>4, <1>5, <1>6

(* A part of a short name is the part of a name padded when they spell     *)
(* the same up to the padding.                                             *)
LEMMA PaddedPart ==
    ASSUME NEW s \in Seq(Char), \A i \in DOMAIN s : s[i] # Blank,
           NEW n \in Nat \ {0}, NEW t \in Seq(Char), Len(t) = n, ShortPart(t)
    PROVE  t = Padded(s, n) <=> SameName(Shortened(s, n), UpTo(t, Blank))
<1>. DEFINE a == Shortened(s, n)
            b == UpTo(t, Blank)
            k == Len(a)
            l == Len(b)
<1>1. /\ a \in Seq(Char) /\ k \in Nat /\ k = (IF Len(s) < n THEN Len(s) ELSE n)
      /\ \A i \in 1 .. k : a[i] = s[i]
  BY ShortenedIs
<1>2. /\ b \in Seq(Char) /\ l \in 0 .. n /\ (\A i \in 1 .. l : b[i] = t[i] /\ t[i] # Blank)
      /\ l < n => t[l + 1] = Blank
  BY UpToParts
<1>3. Len(s) \in Nat /\ DOMAIN s = 1 .. Len(s) /\ DOMAIN t = 1 .. n
  OBVIOUS
<1>4. DOMAIN a = 1 .. k /\ DOMAIN b = 1 .. l
  BY <1>1, <1>2
<1>. HIDE DEF a, b
<1>5. \A i \in 1 .. n : t[i] \in Char /\ Upper(t[i]) = t[i]
  <2>1. ASSUME NEW i \in 1 .. n PROVE t[i] \in Char /\ t[i] \notin DOMAIN UpperOf
    BY <1>3 DEF ShortPart
  <2>. QED
    BY <2>1, UpperIs
<1>6. \A i \in 1 .. Len(s) : s[i] \in Char /\ Upper(s[i]) # Blank /\ Upper(Upper(s[i])) = Upper(s[i])
  <2>1. ASSUME NEW i \in 1 .. Len(s) PROVE s[i] \in Char /\ s[i] # Blank
    BY <1>3
  <2>. QED
    BY <2>1, UpperIs
<1>7. ASSUME t = Padded(s, n) PROVE SameName(a, b)
  <2>1. \A i \in 1 .. n : t[i] = IF i <= Len(s) THEN Upper(s[i]) ELSE Blank
    BY <1>7 DEF Padded
  <2>2. ~ (l < k)
    <3>1. SUFFICES ASSUME l < k PROVE FALSE
      OBVIOUS
    <3>2. l + 1 \in 1 .. n /\ l + 1 \in 1 .. Len(s) /\ l + 1 <= Len(s)
      BY <3>1, <1>1, <1>2, <1>3
    <3>3. t[l + 1] = Blank
      BY <3>1, <1>1, <1>2
    <3>. QED
      BY <3>2, <3>3, <2>1, <1>6
  <2>3. ~ (k < l)
    <3>1. SUFFICES ASSUME k < l PROVE FALSE
      OBVIOUS
    <3>2. k + 1 \in 1 .. n /\ k + 1 \in 1 .. l /\ ~ (k + 1 <= Len(s))
      BY <3>1, <1>1, <1>2, <1>3
    <3>. QED
      BY <3>2, <2>1, <1>2
  <2>4. k = l
    BY <2>2, <2>3, <1>1, <1>2
  <2>5. ASSUME NEW i \in 1 .. k PROVE Upper(a[i]) = Upper(b[i])
    <3>1. i \in 1 .. n /\ i \in 1 .. Len(s) /\ i <= Len(s) /\ i \in 1 .. l
      BY <1>1, <1>3, <2>4
    <3>. QED
      BY <3>1, <2>1, <1>1, <1>2, <1>6
  <2>. QED
    BY <2>4, <2>5, <1>4 DEF SameName
<1>8. ASSUME SameName(a, b) PROVE t = Padded(s, n)
  <2>1. k = l /\ \A i \in 1 .. k : Upper(a[i]) = Upper(b[i])
    BY <1>8, <1>4 DEF SameName
  <2>2. ASSUME NEW i \in 1 .. n PROVE t[i] = IF i <= Len(s) THEN Upper(s[i]) ELSE Blank
    <3>1. CASE i <= k
      <4>1. i \in 1 .. k /\ i \in 1 .. l /\ i <= Len(s)
        BY <3>1, <2>1, <1>1, <1>3
      <4>. QED
        BY <4>1, <2>1, <1>1, <1>2, <1>5
    <3>2. CASE ~ (i <= k)
      <4>1. l < n /\ l + 1 \in 1 .. n /\ i >= l + 1 /\ ~ (i <= Len(s))
        BY <3>2, <2>1, <1>1, <1>2, <1>3
      <4>2. t[l + 1] = Blank
        BY <4>1, <1>2
      <4>3. t[i] = Blank
        BY <4>1, <4>2, <1>3 DEF ShortPart
      <4>. QED
        BY <4>1, <4>3
    <3>. QED
      BY <3>1, <3>2
  <2>3. Padded(s, n) = [i \in 1 .. n |-> IF i <= Len(s) THEN Upper(s[i]) ELSE Blank]
    BY DEF Padded
  <2>4. t = [i \in 1 .. n |-> t[i]]
    BY <1>3
  <2>. QED
    BY <2>2, <2>3, <2>4
<1>. QED
  BY <1>7, <1>8 DEF a, b

(* The two parts of a name with the dot between them.                      *)
Dotted(x) == IF x = <<>> THEN <<>> ELSE <<".">> \o x

LEMMA JoinIs ==
    ASSUME NEW a \in Seq(Char), NEW x \in Seq(Char)
    PROVE  LET w == a \o Dotted(x) IN
           /\ Len(w) = Len(a) + (IF x = <<>> THEN 0 ELSE 1 + Len(x))
           /\ DOMAIN w = 1 .. Len(w)
           /\ \A i \in 1 .. Len(a) : w[i] = a[i]
           /\ x # <<>> => w[Len(a) + 1] = "."
           /\ \A i \in 1 .. Len(x) : w[Len(a) + 1 + i] = x[i]
<1>. DEFINE w == a \o Dotted(x)
            C == Char \union {"."}
<1>1. a \in Seq(C) /\ x \in Seq(C) /\ Len(a) \in Nat /\ Len(x) \in Nat /\ (x = <<>> <=> Len(x) = 0)
  BY EmptySeq
<1>. HIDE DEF C
<1>2. CASE x = <<>>
  <2>1. Dotted(x) = <<>> /\ Len(x) = 0
    BY <1>1, <1>2 DEF Dotted
  <2>2. w = a
    BY <1>1, <2>1
  <2>3. \A i \in 1 .. Len(x) : FALSE
    BY <2>1
  <2>. QED
    BY <1>1, <1>2, <2>2, <2>3
<1>3. CASE x # <<>>
  <2>. DEFINE d == <<".">>
              y == d \o x
  <2>1. d \in Seq(C) /\ Len(d) = 1 /\ d[1] = "."
    BY DEF C
  <2>. HIDE DEF d
  <2>2. /\ y \in Seq(C) /\ Len(y) = 1 + Len(x)
        /\ \A i \in 1 .. (1 + Len(x)) : y[i] = IF i <= 1 THEN d[i] ELSE x[i - 1]
    <3>1. /\ y \in Seq(C) /\ Len(y) = Len(d) + Len(x)
          /\ \A i \in 1 .. (Len(d) + Len(x)) : y[i] = IF i <= Len(d) THEN d[i] ELSE x[i - Len(d)]
      BY <1>1, <2>1, ConcatProperties
    <3>. QED
      BY <2>1, <3>1
  <2>3. y[1] = "." /\ \A i \in 1 .. Len(x) : y[i + 1] = x[i]
    <3>1. 1 \in 1 .. (1 + Len(x)) /\ 1 <= 1
      BY <1>1
    <3>2. \A i \in 1 .. Len(x) : i + 1 \in 1 .. (1 + Len(x)) /\ ~ (i + 1 <= 1) /\ (i + 1) - 1 = i
      BY <1>1
    <3>. QED
      BY <2>1, <2>2, <3>1, <3>2
  <2>4. Dotted(x) = y
    BY <1>3, Zenon DEF Dotted, d
  <2>. HIDE DEF y
  <2>5. /\ a \o y \in Seq(C) /\ Len(a \o y) = Len(a) + Len(y)
        /\ \A i \in 1 .. (Len(a) + Len(y)) : (a \o y)[i] = IF i <= Len(a) THEN a[i] ELSE y[i - Len(a)]
    BY <1>1, <2>2, ConcatProperties
  <2>6. w = a \o y
    BY <2>4
  <2>. HIDE DEF w
  <2>7. w \in Seq(C) /\ Len(w) = Len(a) + (1 + Len(x)) /\ DOMAIN w = 1 .. Len(w)
    BY <2>2, <2>5, <2>6
  <2>8. \A i \in 1 .. Len(w) : w[i] = IF i <= Len(a) THEN a[i] ELSE y[i - Len(a)]
    BY <2>2, <2>5, <2>6
  <2>9. \A i \in 1 .. Len(a) : w[i] = a[i]
    BY <1>1, <2>7, <2>8
  <2>10. w[Len(a) + 1] = "."
    <3>1. Len(a) + 1 \in 1 .. Len(w) /\ ~ (Len(a) + 1 <= Len(a)) /\ (Len(a) + 1) - Len(a) = 1
      BY <1>1, <2>7
    <3>. QED
      BY <2>3, <2>8, <3>1
  <2>11. ASSUME NEW i \in 1 .. Len(x) PROVE w[Len(a) + 1 + i] = x[i]
    <3>1. /\ Len(a) + 1 + i \in 1 .. Len(w) /\ ~ (Len(a) + 1 + i <= Len(a))
          /\ (Len(a) + 1 + i) - Len(a) = i + 1
      BY <1>1, <2>7
    <3>. QED
      BY <2>3, <2>8, <3>1
  <2>. QED
    BY <1>3, <2>7, <2>9, <2>10, <2>11 DEF w
<1>. QED
  BY <1>2, <1>3 DEF w

(* The first part of the one is not shorter than that of the other.        *)
LEMMA PartsAlign ==
    ASSUME NEW a \in Seq(Char), NEW x \in Seq(Char), NEW b \in Seq(Char), NEW y \in Seq(Char),
           \A i \in 1 .. Len(b) : b[i] # ".",
           SameName(a \o Dotted(x), b \o Dotted(y))
    PROVE  Len(b) <= Len(a)
<1>. DEFINE w == a \o Dotted(x)
            v == b \o Dotted(y)
            k == Len(a) + 1
<1>1. SUFFICES ASSUME ~ (Len(b) <= Len(a)) PROVE FALSE
  OBVIOUS
<1>2. /\ Len(w) = Len(a) + (IF x = <<>> THEN 0 ELSE 1 + Len(x)) /\ DOMAIN w = 1 .. Len(w)
      /\ x # <<>> => w[k] = "."
  BY JoinIs
<1>3. Len(v) = Len(b) + (IF y = <<>> THEN 0 ELSE 1 + Len(y)) /\ \A i \in 1 .. Len(b) : v[i] = b[i]
  BY JoinIs
<1>4. Len(w) = Len(v) /\ \A i \in DOMAIN w : Upper(w[i]) = Upper(v[i])
  BY DEF SameName
<1>. HIDE DEF w, v
<1>5. Len(a) \in Nat /\ Len(x) \in Nat /\ Len(b) \in Nat /\ Len(y) \in Nat
  OBVIOUS
<1>6. x # <<>> /\ k \in 1 .. Len(b) /\ k \in 1 .. Len(w)
  BY <1>1, <1>2, <1>3, <1>4, <1>5
<1>7. w[k] = "." /\ v[k] = b[k] /\ b[k] # "." /\ b[k] \in Char
  BY <1>2, <1>3, <1>6
<1>8. Upper(".") = "."
  BY DirAssumption DEF Upper
<1>9. Upper(b[k]) = "."
  BY <1>2, <1>4, <1>6, <1>7, <1>8
<1>. QED
  BY <1>7, <1>9, UpperIs

LEMMA JoinedSame ==
    ASSUME NEW a \in Seq(Char), NEW x \in Seq(Char), NEW b \in Seq(Char), NEW y \in Seq(Char),
           \A i \in 1 .. Len(a) : a[i] # ".", \A i \in 1 .. Len(b) : b[i] # "."
    PROVE  SameName(a \o Dotted(x), b \o Dotted(y)) <=> SameName(a, b) /\ SameName(x, y)
<1>. DEFINE w == a \o Dotted(x)
            v == b \o Dotted(y)
            k == Len(a)
<1>1. /\ Len(w) = Len(a) + (IF x = <<>> THEN 0 ELSE 1 + Len(x)) /\ DOMAIN w = 1 .. Len(w)
      /\ (\A i \in 1 .. Len(a) : w[i] = a[i]) /\ (x # <<>> => w[Len(a) + 1] = ".")
      /\ \A i \in 1 .. Len(x) : w[Len(a) + 1 + i] = x[i]
  BY JoinIs
<1>2. /\ Len(v) = Len(b) + (IF y = <<>> THEN 0 ELSE 1 + Len(y)) /\ DOMAIN v = 1 .. Len(v)
      /\ (\A i \in 1 .. Len(b) : v[i] = b[i]) /\ (y # <<>> => v[Len(b) + 1] = ".")
      /\ \A i \in 1 .. Len(y) : v[Len(b) + 1 + i] = y[i]
  BY JoinIs
<1>3. /\ k \in Nat /\ Len(x) \in Nat /\ Len(b) \in Nat /\ Len(y) \in Nat
      /\ (x = <<>> <=> Len(x) = 0) /\ (y = <<>> <=> Len(y) = 0)
      /\ DOMAIN a = 1 .. k /\ DOMAIN x = 1 .. Len(x)
  BY EmptySeq
<1>4. ASSUME SameName(w, v) PROVE SameName(a, b) /\ SameName(x, y)
  <2>0. SameName(v, w)
    BY <1>1, <1>2, <1>4 DEF SameName
  <2>1. Len(a) <= Len(b) /\ Len(b) <= Len(a)
    BY <1>4, <2>0, PartsAlign
  <2>2. Len(b) = k
    BY <2>1, <1>3
  <2>3. Len(w) = Len(v) /\ \A i \in 1 .. Len(w) : Upper(w[i]) = Upper(v[i])
    BY <1>1, <1>4 DEF SameName
  <2>. HIDE DEF w, v
  <2>4. Len(x) = Len(y)
    BY <2>2, <2>3, <1>1, <1>2, <1>3
  <2>5. ASSUME NEW i \in 1 .. k PROVE Upper(a[i]) = Upper(b[i])
    <3>1. i \in 1 .. Len(w)
      BY <1>1, <1>3
    <3>. QED
      BY <3>1, <2>2, <2>3, <1>1, <1>2
  <2>6. ASSUME NEW i \in 1 .. Len(x) PROVE Upper(x[i]) = Upper(y[i])
    <3>1. k + 1 + i \in 1 .. Len(w)
      BY <1>1, <1>3
    <3>2. w[k + 1 + i] = x[i] /\ v[k + 1 + i] = y[i]
      BY <2>2, <2>4, <1>1, <1>2
    <3>. QED
      BY <3>1, <3>2, <2>3
  <2>. QED
    BY <2>2, <2>4, <2>5, <2>6, <1>3 DEF SameName
<1>5. ASSUME SameName(a, b), SameName(x, y) PROVE SameName(w, v)
  <2>1. /\ Len(b) = k /\ (\A i \in 1 .. k : Upper(a[i]) = Upper(b[i]))
        /\ Len(x) = Len(y) /\ \A i \in 1 .. Len(x) : Upper(x[i]) = Upper(y[i])
    BY <1>3, <1>5 DEF SameName
  <2>. HIDE DEF w, v
  <2>2. Len(w) = Len(v) /\ Len(w) \in Nat
    BY <2>1, <1>1, <1>2, <1>3
  <2>3. ASSUME NEW i \in 1 .. Len(w) PROVE Upper(w[i]) = Upper(v[i])
    <3>1. CASE i <= k
      <4>1. i \in 1 .. k
        BY <3>1, <1>3
      <4>. QED
        BY <4>1, <2>1, <1>1, <1>2
    <3>2. CASE i = k + 1
      <4>1. x # <<>> /\ y # <<>>
        BY <3>2, <2>1, <2>2, <1>1, <1>3
      <4>. QED
        BY <4>1, <3>2, <2>1, <1>1, <1>2
    <3>3. CASE i > k + 1
      <4>1. i - k - 1 \in 1 .. Len(x) /\ k + 1 + (i - k - 1) = i
        BY <3>3, <2>2, <1>1, <1>3
      <4>2. w[i] = x[i - k - 1] /\ v[i] = y[i - k - 1]
        <5>. DEFINE j == i - k - 1
        <5>1. j \in 1 .. Len(x) /\ j \in 1 .. Len(y) /\ k + 1 + j = i
          BY <4>1, <2>1
        <5>. HIDE DEF j
        <5>2. w[k + 1 + j] = x[j] /\ v[k + 1 + j] = y[j]
          BY <5>1, <2>1, <1>1, <1>2
        <5>. QED
          BY <5>1, <5>2 DEF j
      <4>. QED
        BY <4>1, <4>2, <2>1
    <3>. QED
      BY <3>1, <3>2, <3>3, <2>2, <1>3
  <2>. QED
    BY <2>2, <2>3, <1>1 DEF SameName
<1>. QED
  BY <1>4, <1>5 DEF w, v

(* A short name as it is shown, and a name cut off like one.               *)
LEMMA ShortNameIs ==
    ASSUME NEW e, e.base \in Seq(Char), e.ext \in Seq(Char), Len(e.ext) = ExtLen
    PROVE  ShortName(e) = UpTo(e.base, Blank) \o Dotted(UpTo(e.ext, Blank))
<1>. DEFINE x == e.ext
            y == UpTo(x, Blank)
<1>1. x \in Seq(Char) /\ Len(x) \in Nat \ {0}
  BY DirSizes
<1>. HIDE DEF x
<1>2. /\ y \in Seq(Char) /\ Len(y) \in 0 .. Len(x)
      /\ \A i \in 1 .. Len(y) : y[i] = x[i] /\ x[i] # Blank
      /\ Len(y) < Len(x) => x[Len(y) + 1] = Blank
  BY <1>1, UpToParts
<1>3. y = <<>> <=> Len(y) = 0
  BY <1>2, EmptySeq
<1>. HIDE DEF y
<1>4. y = <<>> <=> x[1] = Blank
  <2>1. CASE Len(y) = 0
    BY <2>1, <1>1, <1>2, <1>3
  <2>2. CASE Len(y) # 0
    <3>1. 1 \in 1 .. Len(y)
      BY <2>2, <1>1, <1>2
    <3>. QED
      BY <3>1, <2>2, <1>2, <1>3
  <2>. QED
    BY <2>1, <2>2
<1>5. ShortName(e) = UpTo(e.base, Blank) \o (IF x[1] = Blank THEN <<>> ELSE <<".">> \o y)
  BY DEF ShortName, x, y
<1>6. Dotted(y) = IF x[1] = Blank THEN <<>> ELSE <<".">> \o y
  BY <1>4 DEF Dotted
<1>. QED
  BY <1>5, <1>6 DEF x, y

LEMMA CutIs ==
    ASSUME NEW f \in Seq(Char)
    PROVE  LET base == UpTo(f, ".")
               ext == SubSeq(f, Len(base) + 2, Len(f))
           IN  /\ base \in Seq(Char) /\ ext \in Seq(Char)
               /\ \A i \in 1 .. Len(base) : base[i] # "."
               /\ (\A i \in 1 .. Len(f) : f[i] # Blank) =>
                      /\ \A i \in 1 .. Len(base) : base[i] # Blank
                      /\ \A i \in 1 .. Len(ext) : ext[i] # Blank
               /\ Cut(f) = Shortened(base, BaseLen) \o Dotted(Shortened(ext, ExtLen))
<1>. DEFINE base == UpTo(f, ".")
            n == Len(base)
            ext == SubSeq(f, n + 2, Len(f))
<1>1. /\ base \in Seq(Char) /\ n \in 0 .. Len(f) /\ Len(f) \in Nat
      /\ \A i \in 1 .. n : base[i] = f[i] /\ f[i] # "."
  BY UpToParts
<1>. HIDE DEF base
<1>2. ext \in Seq(Char) /\ \A i \in 1 .. Len(ext) : ext[i] = f[n + 1 + i] /\ n + 1 + i \in 1 .. Len(f)
  <2>1. CASE n + 2 <= Len(f)
    <3>1. n + 2 \in 1 .. Len(f)
      BY <1>1, <2>1
    <3>2. ext \in Seq(Char) /\ Len(ext) = Len(f) - n - 1 /\ \A i \in 1 .. Len(ext) : ext[i] = f[n + 1 + i]
      BY <1>1, <3>1
    <3>. HIDE DEF ext
    <3>. QED
      BY <1>1, <3>2
  <2>2. CASE ~ (n + 2 <= Len(f))
    <3>1. ext = <<>>
      BY <1>1, <2>2
    <3>. HIDE DEF ext
    <3>2. Len(ext) = 0 /\ ext \in Seq(Char)
      BY <3>1
    <3>. QED
      BY <3>2
  <2>. QED
    BY <2>1, <2>2
<1>. HIDE DEF ext
<1>3. Cut(f) = Shortened(base, BaseLen) \o Dotted(Shortened(ext, ExtLen))
  <2>1. Cut(f) = Shortened(base, BaseLen) \o (IF ext = <<>> THEN <<>> ELSE <<".">> \o Shortened(ext, ExtLen))
    BY DEF Cut, base, ext
  <2>2. Shortened(ext, ExtLen) = <<>> <=> ext = <<>>
    BY <1>2, DirSizes, ShortenedIs
  <2>3. Dotted(Shortened(ext, ExtLen)) = IF ext = <<>> THEN <<>> ELSE <<".">> \o Shortened(ext, ExtLen)
    BY <2>2 DEF Dotted
  <2>. QED
    BY <2>1, <2>3
<1>4. ASSUME \A i \in 1 .. Len(f) : f[i] # Blank
      PROVE  /\ \A i \in 1 .. Len(base) : base[i] # Blank
             /\ \A i \in 1 .. Len(ext) : ext[i] # Blank
  <2>1. ASSUME NEW i \in 1 .. Len(base) PROVE base[i] # Blank
    <3>1. i \in 1 .. Len(f)
      BY <1>1
    <3>. QED
      BY <1>1, <1>4, <3>1
  <2>2. ASSUME NEW i \in 1 .. Len(ext) PROVE ext[i] # Blank
    <3>1. ext[i] = f[n + 1 + i] /\ n + 1 + i \in 1 .. Len(f)
      BY <1>2
    <3>. HIDE DEF n
    <3>. QED
      BY <1>4, <3>1
  <2>. QED
    BY <2>1, <2>2
<1>5. /\ base \in Seq(Char) /\ ext \in Seq(Char)
      /\ \A i \in 1 .. Len(base) : base[i] # "."
  BY <1>1, <1>2
<1>. QED
  BY <1>3, <1>4, <1>5 DEF base, ext

LEMMA PaddedIs ==
    ASSUME NEW s \in Seq(Char), NEW n \in Nat
    PROVE  Padded(s, n) \in Seq(Char) /\ Len(Padded(s, n)) = n
<1>1. Len(s) \in Nat
  OBVIOUS
<1>2. ASSUME NEW i \in 1 .. n PROVE (IF i <= Len(s) THEN Upper(s[i]) ELSE Blank) \in Char
  <2>1. CASE i <= Len(s)
    <3>1. s[i] \in Char
      BY <1>1, <2>1
    <3>. QED
      BY <2>1, <3>1, UpperIs
  <2>2. CASE ~ (i <= Len(s))
    BY <2>2 DEF Char
  <2>. QED
    BY <2>1, <2>2
<1>3. Padded(s, n) = [i \in 1 .. n |-> IF i <= Len(s) THEN Upper(s[i]) ELSE Blank]
  BY DEF Padded
<1>. HIDE DEF Padded
<1>4. Padded(s, n) \in [1 .. n -> Char]
  BY <1>2, <1>3
<1>. QED
  BY <1>4

(* Two parts put together tell the parts.                                  *)
LEMMA SameParts ==
    ASSUME NEW S, NEW a \in Seq(S), NEW b \in Seq(S), NEW c \in Seq(S), NEW d \in Seq(S),
           Len(a) = Len(c), Len(b) = Len(d), a \o b = c \o d
    PROVE  a = c /\ b = d
<1>1. /\ Len(a) \in Nat /\ Len(b) \in Nat /\ Len(a \o b) = Len(a) + Len(b)
      /\ \A i \in 1 .. (Len(a) + Len(b)) : (a \o b)[i] = IF i <= Len(a) THEN a[i] ELSE b[i - Len(a)]
  BY ConcatProperties
<1>2. \A i \in 1 .. (Len(c) + Len(d)) : (c \o d)[i] = IF i <= Len(c) THEN c[i] ELSE d[i - Len(c)]
  BY ConcatProperties
<1>3. ASSUME NEW i \in 1 .. Len(a) PROVE a[i] = c[i]
  <2>1. i \in 1 .. (Len(a) + Len(b)) /\ i <= Len(a)
    BY <1>1
  <2>. QED
    BY <1>1, <1>2, <2>1
<1>4. ASSUME NEW i \in 1 .. Len(b) PROVE b[i] = d[i]
  <2>1. Len(a) + i \in 1 .. (Len(a) + Len(b)) /\ ~ (Len(a) + i <= Len(a)) /\ (Len(a) + i) - Len(a) = i
    BY <1>1
  <2>. QED
    BY <1>1, <1>2, <2>1
<1>. QED
  BY <1>3, <1>4, SeqEqual

(* The three comparisons with a file's short name are those of NamedBy.    *)
LEMMA ShortNamesMatch ==
    ASSUME NEW f \in FileNames, NEW e,
           e.base \in Seq(Char), Len(e.base) = BaseLen, ShortPart(e.base),
           e.ext \in Seq(Char), Len(e.ext) = ExtLen, ShortPart(e.ext)
    PROVE  e.base \o e.ext = filename_to_83(f)
           <=> \/ SameName(f, e.base \o e.ext)
               \/ ~ TakenWhole(f) /\ SameName(Cut(f), ShortName(e))
<1>. DEFINE b == e.base
            x == e.ext
            w == b \o x
            fb == UpTo(f, ".")
            fx == SubSeq(f, Len(fb) + 2, Len(f))
            N == BaseLen + ExtLen
<1>1. f \in Seq(Char) /\ Len(f) \in Nat /\ DOMAIN f = 1 .. Len(f)
  BY DirAssumption DEF Char
<1>2. TakenWhole(f) \/ \A i \in 1 .. Len(f) : f[i] # Blank
  BY <1>1, DirAssumption
<1>3. /\ BaseLen \in Nat \ {0} /\ ExtLen \in Nat \ {0} /\ N \in Nat
      /\ b \in Seq(Char) /\ x \in Seq(Char) /\ Len(b) = BaseLen /\ Len(x) = ExtLen
  BY DirSizes
<1>. HIDE DEF b, x
<1>4. /\ w \in Seq(Char) /\ Len(w) = N /\ DOMAIN w = 1 .. N
      /\ \A i \in 1 .. (Len(b) + Len(x)) : w[i] = IF i <= Len(b) THEN b[i] ELSE x[i - Len(b)]
  <2>1. /\ w \in Seq(Char) /\ Len(w) = Len(b) + Len(x)
        /\ \A i \in 1 .. (Len(b) + Len(x)) : w[i] = IF i <= Len(b) THEN b[i] ELSE x[i - Len(b)]
    BY <1>3, ConcatProperties
  <2>. HIDE DEF w
  <2>. QED
    BY <1>3, <2>1
<1>5. /\ fb \in Seq(Char) /\ fx \in Seq(Char)
      /\ \A i \in 1 .. Len(fb) : fb[i] # "."
      /\ (\A i \in 1 .. Len(f) : f[i] # Blank) =>
            /\ \A i \in 1 .. Len(fb) : fb[i] # Blank
            /\ \A i \in 1 .. Len(fx) : fx[i] # Blank
      /\ Cut(f) = Shortened(fb, BaseLen) \o Dotted(Shortened(fx, ExtLen))
  BY <1>1, CutIs
<1>6. /\ Len(fb) \in 0 .. Len(f) /\ \A i \in 1 .. Len(fb) : fb[i] = f[i]
      /\ Len(fb) < Len(f) => f[Len(fb) + 1] = "."
  BY <1>1, UpToParts
<1>7. ShortName(e) = UpTo(b, Blank) \o Dotted(UpTo(x, Blank))
  BY ShortNameIs DEF b, x
<1>8. filename_to_83(f) = IF TakenWhole(f) THEN Padded(f, N) ELSE Padded(fb, BaseLen) \o Padded(fx, ExtLen)
  BY DEF filename_to_83
<1>9. TakenWhole(f) <=> Len(fb) = Len(f) /\ Len(f) = N
  BY DEF TakenWhole
<1>. HIDE DEF w, fb, fx
<1>10. \A i \in 1 .. N : w[i] \in Char /\ w[i] # "." /\ Upper(w[i]) = w[i]
  <2>1. ASSUME NEW i \in 1 .. N
        PROVE  w[i] \in Char /\ w[i] # "." /\ w[i] \notin DOMAIN UpperOf
    <3>1. CASE i <= Len(b)
      <4>1. i \in DOMAIN b /\ w[i] = b[i]
        BY <1>3, <1>4, <3>1
      <4>2. b[i] # "." /\ b[i] \notin DOMAIN UpperOf
        BY <4>1 DEF ShortPart, b
      <4>. QED
        BY <1>3, <4>1, <4>2
    <3>2. CASE ~ (i <= Len(b))
      <4>. DEFINE j == i - Len(b)
      <4>1. j \in DOMAIN x /\ w[i] = x[j]
        BY <1>3, <1>4, <3>2
      <4>. HIDE DEF j
      <4>2. x[j] # "." /\ x[j] \notin DOMAIN UpperOf
        BY <4>1 DEF ShortPart, x
      <4>. QED
        BY <1>3, <4>1, <4>2
    <3>. QED
      BY <3>1, <3>2
  <2>. QED
    BY <2>1, UpperIs
<1>11. SameName(f, w) <=> Len(f) = N /\ \A i \in 1 .. N : Upper(f[i]) = w[i]
  BY <1>1, <1>4, <1>10 DEF SameName
<1>12. CASE TakenWhole(f)
  <2>1. Len(f) = N
    BY <1>9, <1>12
  <2>2. Padded(f, N) = [i \in 1 .. N |-> IF i <= Len(f) THEN Upper(f[i]) ELSE Blank]
    BY DEF Padded
  <2>3. w = Padded(f, N) <=> \A i \in 1 .. N : w[i] = Upper(f[i])
    <3>1. \A i \in 1 .. N : Padded(f, N)[i] = Upper(f[i])
      BY <2>1, <2>2, <1>3
    <3>2. Padded(f, N) \in Seq(Char) /\ Len(Padded(f, N)) = N
      BY <1>1, <1>3, PaddedIs
    <3>3. (\A i \in 1 .. N : w[i] = Padded(f, N)[i]) => w = Padded(f, N)
      BY <1>4, <3>2, SeqEqual
    <3>. QED
      BY <3>1, <3>3
  <2>. QED
    BY <1>8, <1>11, <1>12, <2>1, <2>3 DEF w, b, x
<1>13. CASE ~ TakenWhole(f)
  <2>1. ~ SameName(f, w)
    <3>1. SUFFICES ASSUME SameName(f, w) PROVE FALSE
      OBVIOUS
    <3>2. Len(f) = N /\ \A i \in 1 .. N : Upper(f[i]) = w[i]
      BY <1>11, <3>1
    <3>3. Len(fb) < Len(f)
      BY <1>1, <1>6, <1>9, <1>13, <3>2
    <3>4. Len(fb) + 1 \in 1 .. N
      BY <1>1, <1>6, <3>2, <3>3
    <3>5. Upper(".") = "."
      BY DirAssumption DEF Upper
    <3>. QED
      BY <1>6, <1>10, <3>2, <3>3, <3>4, <3>5
  <2>2. /\ \A i \in DOMAIN fb : fb[i] # Blank
        /\ \A i \in DOMAIN fx : fx[i] # Blank
    BY <1>2, <1>5, <1>13
  <2>3. b = Padded(fb, BaseLen) <=> SameName(Shortened(fb, BaseLen), UpTo(b, Blank))
    BY <1>3, <1>5, <2>2, PaddedPart DEF b
  <2>4. x = Padded(fx, ExtLen) <=> SameName(Shortened(fx, ExtLen), UpTo(x, Blank))
    BY <1>3, <1>5, <2>2, PaddedPart DEF x
  <2>5. w = Padded(fb, BaseLen) \o Padded(fx, ExtLen)
        <=> b = Padded(fb, BaseLen) /\ x = Padded(fx, ExtLen)
    <3>1. /\ Padded(fb, BaseLen) \in Seq(Char) /\ Len(Padded(fb, BaseLen)) = BaseLen
          /\ Padded(fx, ExtLen) \in Seq(Char) /\ Len(Padded(fx, ExtLen)) = ExtLen
      BY <1>3, <1>5, PaddedIs
    <3>2. ASSUME w = Padded(fb, BaseLen) \o Padded(fx, ExtLen)
          PROVE  b = Padded(fb, BaseLen) /\ x = Padded(fx, ExtLen)
      BY <1>3, <3>1, <3>2, SameParts DEF w
    <3>. QED
      BY <3>2 DEF w
  <2>6. SameName(Cut(f), ShortName(e))
        <=> /\ SameName(Shortened(fb, BaseLen), UpTo(b, Blank))
            /\ SameName(Shortened(fx, ExtLen), UpTo(x, Blank))
    <3>. DEFINE a1 == Shortened(fb, BaseLen)
                a2 == Shortened(fx, ExtLen)
                c1 == UpTo(b, Blank)
                c2 == UpTo(x, Blank)
    <3>1. /\ a1 \in Seq(Char) /\ a2 \in Seq(Char)
          /\ \A i \in 1 .. Len(a1) : a1[i] = fb[i] /\ i \in 1 .. Len(fb)
      <4>1. /\ a1 \in Seq(Char) /\ a2 \in Seq(Char)
            /\ Len(a1) = (IF Len(fb) < BaseLen THEN Len(fb) ELSE BaseLen)
            /\ \A i \in 1 .. Len(a1) : a1[i] = fb[i]
        BY <1>3, <1>5, ShortenedIs
      <4>. HIDE DEF a1, a2
      <4>. QED
        BY <1>3, <1>5, <4>1
    <3>2. /\ c1 \in Seq(Char) /\ c2 \in Seq(Char) /\ Len(c1) \in 0 .. Len(b)
          /\ \A i \in 1 .. Len(c1) : c1[i] = b[i]
      BY <1>3, UpToParts
    <3>. HIDE DEF a1, a2, c1, c2
    <3>3. \A i \in 1 .. Len(a1) : a1[i] # "."
      BY <1>5, <3>1
    <3>4. \A i \in DOMAIN b : b[i] # "."
      BY DEF ShortPart, b
    <3>5. ASSUME NEW i \in 1 .. Len(c1) PROVE c1[i] # "."
      <4>1. i \in DOMAIN b /\ c1[i] = b[i]
        BY <1>3, <3>2
      <4>. QED
        BY <3>4, <4>1
    <3>6. SameName(a1 \o Dotted(a2), c1 \o Dotted(c2)) <=> SameName(a1, c1) /\ SameName(a2, c2)
      BY <3>1, <3>2, <3>3, <3>5, JoinedSame
    <3>. QED
      BY <1>5, <1>7, <3>6 DEF a1, a2, c1, c2
  <2>7. w = filename_to_83(f) <=> SameName(Cut(f), ShortName(e))
    BY <1>8, <1>13, <2>3, <2>4, <2>5, <2>6
  <2>. QED
    BY <1>13, <2>1, <2>7 DEF w, b, x
<1>. QED
  BY <1>12, <1>13

----------------------------------------------------------------------------
(* The entries of a directory, and the pieces of a long name.              *)
LEMMA EntryFields ==
    ASSUME NEW e \in DirEntry
    PROVE  /\ e.kind \in {"end", "deleted", "label", "lfn", "file"}
           /\ e.kind = "lfn" => e.order \in Nat /\ e.piece \in [1 .. Piece -> STRING]
           /\ e.kind = "file" =>
                /\ e.base \in [1 .. BaseLen -> STRING] /\ e.ext \in [1 .. ExtLen -> STRING]
                /\ e.cl \in Word /\ e.size \in Word
<1>1. CASE e \in [kind : {"end", "deleted", "label"}]
  BY <1>1
<1>2. CASE e \in [kind : {"lfn"}, order : Nat, piece : [1 .. Piece -> STRING]]
  BY <1>2
<1>3. CASE e \in [kind : {"file"}, base : [1 .. BaseLen -> STRING],
                  ext : [1 .. ExtLen -> STRING], cl : Word, size : Word]
  BY <1>3
<1>. QED
  BY <1>1, <1>2, <1>3, Zenon DEF DirEntry

LEMMA EntryTypes ==
    ASSUME card \in Cards, NEW k \in Nat
    PROVE  EntryAt(k) \in DirEntry
<1>. DEFINE c == dir_chain[k \div EntriesPerCluster]
            j == (k % EntriesPerCluster) + 1
<1>1. j \in 1 .. EntriesPerCluster
  BY DirSizes, Division
<1>. HIDE DEF c, j
<1>2. c \in DOMAIN card.dir => card.dir[c][j] \in DirEntry
  BY <1>1, DirAssumption DEF Directory
<1>3. EndEntry \in DirEntry
  BY DEF EndEntry, DirEntry
<1>4. EntryAt(k) = IF c \in DOMAIN card.dir THEN card.dir[c][j] ELSE EndEntry
  BY DEF EntryAt, c, j
<1>. QED
  BY <1>2, <1>3, <1>4

LEMMA PiecesStep ==
    ASSUME NEW k \in Nat
    PROVE  /\ EntryAt(k).kind = "lfn" => PiecesBefore(k + 1) = PiecesBefore(k) \union {k}
           /\ EntryAt(k).kind # "lfn" => PiecesBefore(k + 1) = {}
           /\ PiecesBefore(0) = {} /\ PiecesBefore(k) \subseteq 0 .. (k - 1)
<1>1. ASSUME EntryAt(k).kind = "lfn", NEW j
      PROVE  j \in PiecesBefore(k + 1) <=> j \in PiecesBefore(k) \/ j = k
  BY <1>1 DEF PiecesBefore
<1>2. ASSUME EntryAt(k).kind # "lfn", NEW j PROVE j \notin PiecesBefore(k + 1)
  BY <1>2 DEF PiecesBefore
<1>3. PiecesBefore(0) = {} /\ PiecesBefore(k) \subseteq 0 .. (k - 1)
  BY DEF PiecesBefore
<1>. QED
  BY <1>1, <1>2, <1>3

LEMMA PiecesAre ==
    ASSUME NEW k \in Nat
    PROVE  \E n \in 0 .. k : PiecesBefore(k) = (k - n) .. (k - 1)
<1>. DEFINE T == {j \in Nat : j <= k /\ \A i \in j .. (k - 1) : EntryAt(i).kind = "lfn"}
<1>1. k \in T
  OBVIOUS
<1>2. PICK j \in T : \A i \in T : j <= i
  <2>1. T # {} /\ T \subseteq Nat
    BY <1>1
  <2>. HIDE DEF T
  <2>. QED
    BY <2>1, Least
<1>3. j \in Nat /\ j <= k /\ \A i \in j .. (k - 1) : EntryAt(i).kind = "lfn"
  BY <1>2
<1>4. ASSUME NEW i \in PiecesBefore(k) PROVE i \in j .. (k - 1)
  <2>1. i \in 0 .. (k - 1) /\ i \in T
    BY DEF PiecesBefore
  <2>2. j <= i
    BY <1>2, <2>1
  <2>. HIDE DEF T
  <2>. QED
    BY <1>3, <2>1, <2>2
<1>5. ASSUME NEW i \in j .. (k - 1) PROVE i \in PiecesBefore(k)
  BY <1>3 DEF PiecesBefore
<1>6. k - j \in 0 .. k /\ k - (k - j) = j
  BY <1>3
<1>. HIDE DEF T
<1>. QED
  BY <1>4, <1>5, <1>6

(* A cell of the buffer belongs to one piece.                              *)
LEMMA CellOf ==
    ASSUME NEW c \in Nat, NEW o \in Nat \ {0}
    PROVE  /\ c \div Piece \in Nat /\ c % Piece \in 0 .. (Piece - 1)
           /\ (c - (o - 1) * Piece) \in 0 .. (Piece - 1) <=> c \div Piece = o - 1
           /\ c \div Piece = o - 1 => c - (o - 1) * Piece = c % Piece
<1>. DEFINE d == c \div Piece
            r == c % Piece
            i == c - (o - 1) * Piece
<1>1. Piece \in Nat \ {0} /\ o - 1 \in Nat /\ (o - 1) * Piece \in Int
  BY DirSizes
<1>2. d \in Nat /\ r \in 0 .. (Piece - 1) /\ c = d * Piece + r
  BY <1>1, Division
<1>3. ASSUME i \in 0 .. (Piece - 1) PROVE d = o - 1
  <2>1. c = (o - 1) * Piece + i
    BY <1>1
  <2>. HIDE DEF i, d
  <2>2. ((o - 1) * Piece + i) \div Piece = o - 1
    BY <1>1, <1>3, Splits
  <2>. QED
    BY <2>1, <2>2 DEF d
<1>. HIDE DEF d, r
<1>4. ASSUME d = o - 1 PROVE i = r
  BY <1>1, <1>2, <1>4
<1>. QED
  BY <1>2, <1>3, <1>4 DEF d, r

(* What the buffer holds before entry t, of a name that belongs to entry k.*)
Numbered(t, k) == \A j \in PiecesBefore(t) : EntryAt(j).order = k - j /\ k - j <= MaxOrder
Letter(k, c) == EntryAt(k - 1 - c \div Piece).piece[(c % Piece) + 1]
Spelled(t, k, buf) ==
    \A c \in 0 .. (LfnCells - 2) :
        buf[c] = IF k - 1 - c \div Piece \in PiecesBefore(t) THEN Letter(k, c) ELSE Nul
LfnRight(t, buf, has) ==
    /\ buf \in [0 .. (LfnCells - 1) -> Char] /\ buf[LfnCells - 1] = Nul
    /\ has <=> PiecesBefore(t) # {}
    /\ \A k \in Nat : k >= t /\ Numbered(t, k) => Spelled(t, k, buf)

LEMMA LfnStarts ==
    ASSUME NEW t, PiecesBefore(t) = {}
    PROVE  LfnRight(t, EmptyLfn, FALSE)
<1>1. EmptyLfn \in [0 .. (LfnCells - 1) -> Char] /\ EmptyLfn[LfnCells - 1] = Nul
  BY DirSizes DEF EmptyLfn, Char
<1>2. \A c \in 0 .. (LfnCells - 2) : EmptyLfn[c] = Nul
  BY DirSizes DEF EmptyLfn
<1>. QED
  BY <1>1, <1>2 DEF LfnRight, Spelled

LEMMA LfnTakes ==
    ASSUME card \in Cards, NEW t \in Nat, NEW buf, NEW has, LfnRight(t, buf, has),
           EntryAt(t).kind = "lfn"
    PROVE  LfnRight(t + 1, lfn_extract(EntryAt(t), buf), TRUE)
<1>. DEFINE e == EntryAt(t)
            o == e.order
            new == lfn_extract(e, buf)
<1>1. o \in Nat /\ e.piece \in [1 .. Piece -> STRING]
  BY EntryTypes, EntryFields
<1>2. PiecesBefore(t + 1) = PiecesBefore(t) \union {t} /\ PiecesBefore(t) \subseteq 0 .. (t - 1)
  BY PiecesStep
<1>3. /\ LfnCells \in Nat \ {0} /\ Piece \in Nat \ {0}
      /\ buf \in [0 .. (LfnCells - 1) -> Char] /\ buf[LfnCells - 1] = Nul
  BY DirSizes DEF LfnRight
<1>. HIDE DEF e
<1>4. CASE o \in 1 .. MaxOrder
  <2>1. new = [c \in 0 .. (LfnCells - 1) |->
                 IF c - (o - 1) * Piece \in 0 .. (Piece - 1) /\ c < LfnCells - 1
                 THEN e.piece[c - (o - 1) * Piece + 1] ELSE buf[c]]
    BY <1>3, <1>4 DEF lfn_extract
  <2>. HIDE DEF new
  <2>2. ASSUME NEW c \in 0 .. (LfnCells - 1)
        PROVE  new[c] = IF c \div Piece = o - 1 /\ c < LfnCells - 1
                        THEN e.piece[(c % Piece) + 1] ELSE buf[c]
    <3>. DEFINE i == c - (o - 1) * Piece
    <3>1. c \in Nat /\ o \in Nat \ {0}
      BY <1>3, <1>4, DirSizes
    <3>2. /\ i \in 0 .. (Piece - 1) <=> c \div Piece = o - 1
          /\ c \div Piece = o - 1 => i = c % Piece
      BY <3>1, CellOf
    <3>3. new[c] = IF i \in 0 .. (Piece - 1) /\ c < LfnCells - 1 THEN e.piece[i + 1] ELSE buf[c]
      BY <2>1
    <3>. HIDE DEF i
    <3>. QED
      BY <3>2, <3>3
  <2>3. ASSUME NEW c \in 0 .. (LfnCells - 1) PROVE new[c] \in Char
    <3>1. c \in Nat
      BY <1>3
    <3>2. (c % Piece) + 1 \in 1 .. Piece
      BY <1>3, <3>1, Division
    <3>3. e.piece[(c % Piece) + 1] \in Char
      BY <1>1, <3>2 DEF Char
    <3>. QED
      BY <1>3, <2>2, <3>3
  <2>4. new \in [0 .. (LfnCells - 1) -> Char] /\ new[LfnCells - 1] = Nul
    <3>1. LfnCells - 1 \in 0 .. (LfnCells - 1) /\ ~ (LfnCells - 1 < LfnCells - 1)
      BY <1>3
    <3>2. new[LfnCells - 1] = buf[LfnCells - 1]
      BY <2>2, <3>1
    <3>3. DOMAIN new = 0 .. (LfnCells - 1) /\ new = [c \in 0 .. (LfnCells - 1) |-> new[c]]
      BY <2>1
    <3>. QED
      BY <1>3, <2>3, <3>2, <3>3
  <2>5. ASSUME NEW k \in Nat, k >= t + 1, Numbered(t + 1, k), NEW c \in 0 .. (LfnCells - 2)
        PROVE  new[c] = IF k - 1 - c \div Piece \in PiecesBefore(t + 1) THEN Letter(k, c) ELSE Nul
    <3>1. o = k - t /\ Numbered(t, k)
      BY <1>2, <2>5 DEF Numbered, e
    <3>2. buf[c] = IF k - 1 - c \div Piece \in PiecesBefore(t) THEN Letter(k, c) ELSE Nul
      BY <2>5, <3>1 DEF LfnRight, Spelled
    <3>3. c \in 0 .. (LfnCells - 1) /\ c < LfnCells - 1 /\ c \in Nat
      BY <1>3
    <3>4. c \div Piece \in Nat
      BY <1>3, <3>3, Division
    <3>5. CASE c \div Piece = o - 1
      <4>1. k - 1 - c \div Piece = t
        BY <2>5, <3>1, <3>4, <3>5
      <4>2. Letter(k, c) = e.piece[(c % Piece) + 1]
        BY <4>1 DEF Letter, e
      <4>. QED
        BY <1>2, <2>2, <3>3, <3>5, <4>1, <4>2
    <3>6. CASE c \div Piece # o - 1
      <4>1. k - 1 - c \div Piece # t
        BY <2>5, <3>1, <3>4, <3>6
      <4>2. new[c] = buf[c]
        BY <2>2, <3>3, <3>6
      <4>. QED
        BY <1>2, <3>2, <4>1, <4>2
    <3>. QED
      BY <3>5, <3>6
  <2>. QED
    <3>1. PiecesBefore(t + 1) # {}
      BY <1>2
    <3>2. \A k \in Nat : k >= t + 1 /\ Numbered(t + 1, k) => Spelled(t + 1, k, new)
      BY <2>5 DEF Spelled
    <3>3. LfnRight(t + 1, new, TRUE)
      BY <2>4, <3>1, <3>2 DEF LfnRight
    <3>. QED
      BY <3>3 DEF new, e
<1>5. CASE o \notin 1 .. MaxOrder
  <2>1. new = buf
    BY <1>5 DEF lfn_extract
  <2>2. ASSUME NEW k \in Nat, k >= t + 1 PROVE ~ Numbered(t + 1, k)
    <3>1. SUFFICES ASSUME Numbered(t + 1, k) PROVE FALSE
      OBVIOUS
    <3>2. o = k - t /\ k - t <= MaxOrder
      BY <1>2, <3>1 DEF Numbered, e
    <3>. QED
      BY <1>5, <2>2, <3>2, DirSizes
  <2>3. PiecesBefore(t + 1) # {}
    BY <1>2
  <2>. QED
    <3>1. LfnRight(t + 1, buf, TRUE)
      BY <1>3, <2>2, <2>3 DEF LfnRight
    <3>. QED
      BY <2>1, <3>1 DEF e
<1>. QED
  BY <1>4, <1>5 DEF e

LEMMA Below ==
    ASSUME NEW c \in Nat, NEW m \in Nat
    PROVE  c \div Piece < m <=> c < m * Piece
<1>. DEFINE d == c \div Piece
            r == c % Piece
<1>1. /\ Piece \in Nat \ {0} /\ d \in Nat /\ r \in 0 .. (Piece - 1) /\ c = d * Piece + r
      /\ d * Piece \in Nat /\ m * Piece \in Nat
  <2>1. Piece \in Nat \ {0}
    BY DirSizes
  <2>2. d \in Nat /\ r \in 0 .. (Piece - 1) /\ c = d * Piece + r
    BY <2>1, Division
  <2>. HIDE DEF d, r
  <2>. QED
    BY <2>1, <2>2
<1>. HIDE DEF d, r
<1>2. ASSUME d < m PROVE c < m * Piece
  <2>1. d + 1 \in Nat /\ d + 1 <= m
    BY <1>1, <1>2
  <2>2. (d + 1) * Piece <= m * Piece
    BY <1>1, <2>1, Monotone
  <2>3. (d + 1) * Piece = d * Piece + Piece
    BY <1>1
  <2>. QED
    BY <1>1, <2>2, <2>3
<1>3. ASSUME ~ (d < m) PROVE ~ (c < m * Piece)
  <2>1. m * Piece <= d * Piece
    BY <1>1, <1>3, Monotone
  <2>. QED
    BY <1>1, <2>1
<1>. QED
  BY <1>2, <1>3 DEF d

(* The letters of a name that is in order are those in the buffer.         *)
LEMMA LfnTells ==
    ASSUME card \in Cards, NEW k \in Nat, NEW buf, NEW has, LfnRight(k, buf, has), WellNamed(k)
    PROVE  IF has THEN LongString(buf) = LongName(k) ELSE LongName(k) = <<>>
<1>. DEFINE letter(i) == EntryAt(k - 1 - (i - 1) \div Piece).piece[((i - 1) % Piece) + 1]
            m == CHOOSE n \in 0 .. k : PiecesBefore(k) = (k - n) .. (k - 1)
            t == [i \in 1 .. (m * Piece) |-> letter(i)]
            s == [i \in 1 .. LfnCells |-> buf[i - 1]]
<1>1. m \in 0 .. k /\ PiecesBefore(k) = (k - m) .. (k - 1)
  BY PiecesAre, Zenon
<1>2. LongName(k) = UpTo(t, Nul)
  BY DEF LongName
<1>3. LongString(buf) = UpTo(s, Nul)
  BY DEF LongString
<1>. HIDE DEF m
<1>4. /\ m \in Nat /\ LfnCells \in Nat \ {0} /\ Piece \in Nat \ {0} /\ m * Piece \in Nat
      /\ buf \in [0 .. (LfnCells - 1) -> Char] /\ buf[LfnCells - 1] = Nul
  BY <1>1, DirSizes DEF LfnRight
<1>5. ASSUME NEW i \in Nat \ {0}
      PROVE  /\ i - 1 \in Nat /\ (i - 1) \div Piece \in Nat
             /\ (i - 1) % Piece \in 0 .. (Piece - 1)
             /\ k - 1 - (i - 1) \div Piece \in PiecesBefore(k) <=> i <= m * Piece
  <2>1. i - 1 \in Nat
    OBVIOUS
  <2>2. (i - 1) \div Piece \in Nat /\ (i - 1) % Piece \in 0 .. (Piece - 1)
    BY <1>4, <2>1, Division
  <2>3. (i - 1) \div Piece < m <=> i - 1 < m * Piece
    BY <1>4, <2>1, Below
  <2>. DEFINE d == (i - 1) \div Piece
  <2>. HIDE DEF d
  <2>4. k - 1 - d \in (k - m) .. (k - 1) <=> d < m
    BY <1>1, <1>4, <2>2 DEF d
  <2>. QED
    BY <1>1, <1>4, <2>1, <2>2, <2>3, <2>4 DEF d
<1>6. ASSUME NEW i \in 1 .. (m * Piece) PROVE t[i] = letter(i) /\ t[i] \in Char
  <2>. DEFINE j == k - 1 - (i - 1) \div Piece
              r == (i - 1) % Piece
  <2>1. i \in Nat \ {0} /\ i <= m * Piece
    BY <1>4
  <2>2. j \in PiecesBefore(k) /\ r \in 0 .. (Piece - 1)
    BY <1>5, <2>1
  <2>3. letter(i) = EntryAt(j).piece[r + 1]
    OBVIOUS
  <2>. HIDE DEF j, r, letter
  <2>4. j \in 0 .. (k - 1) /\ EntryAt(j).kind = "lfn"
    BY <2>2 DEF PiecesBefore
  <2>5. EntryAt(j).piece \in [1 .. Piece -> STRING]
    BY <2>4, EntryTypes, EntryFields
  <2>6. letter(i) \in Char
    BY <1>4, <2>2, <2>3, <2>5 DEF Char
  <2>. QED
    BY <2>6
<1>. HIDE DEF letter
<1>7. t \in Seq(Char) /\ Len(t) = m * Piece
  BY <1>4, <1>6
<1>8. /\ s \in Seq(Char) /\ Len(s) = LfnCells /\ \A i \in 1 .. LfnCells : s[i] = buf[i - 1]
  BY <1>4
<1>. HIDE DEF t, s
<1>9. CASE has
  <2>1. Spelled(k, k, buf)
    BY DEF LfnRight, WellNamed, Numbered
  <2>2. ASSUME NEW i \in 1 .. (LfnCells - 1)
        PROVE  s[i] = IF i <= m * Piece THEN t[i] ELSE Nul
    <3>1. i \in Nat \ {0} /\ i \in 1 .. LfnCells /\ i - 1 \in 0 .. (LfnCells - 2)
      BY <1>4
    <3>2. buf[i - 1] = IF k - 1 - (i - 1) \div Piece \in PiecesBefore(k) THEN Letter(k, i - 1) ELSE Nul
      BY <2>1, <3>1 DEF Spelled
    <3>3. Letter(k, i - 1) = letter(i)
      BY DEF Letter, letter
    <3>4. i <= m * Piece => t[i] = letter(i)
      BY <1>4, <1>6, <3>1
    <3>. QED
      BY <1>5, <1>8, <3>1, <3>2, <3>3, <3>4
  <2>3. PICK p \in 1 .. (Len(t) + 1) :
           (\A i \in 1 .. (p - 1) : t[i] # Nul) /\ (p <= Len(t) => t[p] = Nul)
    BY <1>7, FirstOf
  <2>4. UpTo(t, Nul) = SubSeq(t, 1, p - 1)
    BY <1>7, <2>3, UpToIs
  <2>5. p \in Nat \ {0} /\ p <= m * Piece + 1
    BY <1>4, <1>7
  <2>6. /\ SubSeq(t, 1, p - 1) \in Seq(Char) /\ Len(SubSeq(t, 1, p - 1)) = p - 1
        /\ \A i \in 1 .. (p - 1) : SubSeq(t, 1, p - 1)[i] = t[i]
    <3>1. p - 1 \in 0 .. Len(t)
      BY <1>4, <1>7, <2>5
    <3>. QED
      BY <1>7, <3>1
  <2>7. p - 1 < LfnCells
    BY <1>2, <2>4, <2>6 DEF WellNamed
  <2>8. ASSUME NEW i \in 1 .. (p - 1) PROVE s[i] = t[i] /\ s[i] # Nul
    <3>1. i \in 1 .. (LfnCells - 1) /\ i <= m * Piece
      BY <1>4, <2>5, <2>7
    <3>. QED
      BY <2>2, <2>3, <3>1
  <2>9. s[p] = Nul
    <3>1. CASE p = LfnCells
      <4>1. LfnCells \in 1 .. LfnCells
        BY <1>4
      <4>. QED
        BY <1>4, <1>8, <3>1, <4>1
    <3>2. CASE p # LfnCells
      <4>1. p \in 1 .. (LfnCells - 1)
        BY <1>4, <2>5, <2>7, <3>2
      <4>. QED
        BY <1>7, <2>2, <2>3, <4>1
    <3>. QED
      BY <3>1, <3>2
  <2>10. p \in 1 .. (Len(s) + 1) /\ p - 1 \in 0 .. Len(s)
    BY <1>4, <1>8, <2>5, <2>7
  <2>11. UpTo(s, Nul) = SubSeq(s, 1, p - 1)
    BY <1>8, <2>8, <2>9, <2>10, UpToIs
  <2>12. /\ SubSeq(s, 1, p - 1) \in Seq(Char) /\ Len(SubSeq(s, 1, p - 1)) = p - 1
         /\ \A i \in 1 .. (p - 1) : SubSeq(s, 1, p - 1)[i] = s[i]
    BY <1>8, <2>10
  <2>13. SubSeq(s, 1, p - 1) = SubSeq(t, 1, p - 1)
    <3>. DEFINE u == SubSeq(s, 1, p - 1)
                v == SubSeq(t, 1, p - 1)
    <3>1. u \in Seq(Char) /\ v \in Seq(Char) /\ Len(u) = p - 1 /\ Len(v) = p - 1
      BY <2>6, <2>12
    <3>2. \A i \in 1 .. (p - 1) : u[i] = v[i]
      BY <2>6, <2>8, <2>12
    <3>. HIDE DEF u, v
    <3>3. u = v
      BY <3>1, <3>2, SeqEqual
    <3>. QED
      BY <3>3 DEF u, v
  <2>. QED
    BY <1>2, <1>3, <1>9, <2>4, <2>11, <2>13
<1>10. CASE ~ has
  <2>1. PiecesBefore(k) = {}
    BY <1>10 DEF LfnRight
  <2>2. m = 0
    <3>1. m # 0 => k - 1 \in PiecesBefore(k)
      BY <1>1, <1>4
    <3>. QED
      BY <2>1, <3>1
  <2>3. Len(t) = 0
    BY <1>4, <1>7, <2>2
  <2>4. t = <<>>
    BY <1>7, <2>3, EmptySeq
  <2>5. Len(UpTo(t, Nul)) \in 0 .. 0 /\ UpTo(t, Nul) \in Seq(Char)
    BY <1>7, <2>3, UpToParts
  <2>. QED
    BY <1>2, <1>10, <2>5, EmptySeq
<1>. QED
  BY <1>9, <1>10

----------------------------------------------------------------------------
(* The lines of a listing, one entry after the other.                      *)
RowAt(k) ==
    [cl |-> EntryAt(k).cl, size |-> EntryAt(k).size, short |-> ShortName(EntryAt(k)),
     long |-> LongName(k)]
RowsTo(f, k) ==
    IF k = 0 THEN <<>>
    ELSE IF EntryAt(k - 1).kind # "file" THEN f[k - 1]
    ELSE Append(f[k - 1], RowAt(k - 1))
AreRows(f, n) == f = [k \in 0 .. n |-> RowsTo(f, k)]

LEMMA SomeRows == ASSUME NEW n \in Nat PROVE \E f : AreRows(f, n)
<1>. DEFINE T == {m \in Nat : ~ \E f : AreRows(f, m)}
<1>1. ASSUME T # {} PROVE FALSE
  <2>1. PICK x \in T : \A y \in T : x <= y
    BY <1>1, Least
  <2>2. x \in Nat /\ ~ \E f : AreRows(f, x)
    BY <2>1
  <2>3. CASE x = 0
    <3>. DEFINE f == [k \in 0 .. 0 |-> <<>>]
    <3>1. f = [k \in 0 .. 0 |-> RowsTo(f, k)]
      BY DEF RowsTo
    <3>. QED
      BY <2>2, <2>3, <3>1 DEF AreRows
  <2>4. CASE x # 0
    <3>1. x - 1 \in Nat /\ ~ (x <= x - 1)
      BY <2>2, <2>4
    <3>2. x - 1 \notin T
      <4>. HIDE DEF T
      <4>. QED
        BY <2>1, <3>1
    <3>3. PICK f : AreRows(f, x - 1)
      BY <3>1, <3>2
    <3>. DEFINE g == [k \in 0 .. x |-> IF k = x THEN RowsTo(f, x) ELSE f[k]]
    <3>4. \A k \in 0 .. (x - 1) : f[k] = RowsTo(f, k)
      BY <3>3 DEF AreRows
    <3>5. ASSUME NEW k \in 0 .. x PROVE g[k] = RowsTo(g, k)
      <4>1. RowsTo(g, k) = RowsTo(f, k)
        <5>1. CASE k = 0
          BY <5>1 DEF RowsTo
        <5>2. CASE k # 0
          <6>1. k - 1 \in 0 .. x /\ k - 1 # x
            BY <2>2, <5>2
          <6>2. g[k - 1] = f[k - 1]
            BY <6>1
          <6>. QED
            BY <6>2 DEF RowsTo
        <5>. QED
          BY <5>1, <5>2
      <4>2. g[k] = RowsTo(f, k)
        BY <2>2, <3>4
      <4>. QED
        BY <4>1, <4>2
    <3>. HIDE DEF RowsTo
    <3>6. g = [k \in 0 .. x |-> RowsTo(g, k)]
      <4>1. DOMAIN g = 0 .. x /\ g = [k \in 0 .. x |-> g[k]]
        OBVIOUS
      <4>. HIDE DEF g
      <4>. QED
        BY <3>5, <4>1
    <3>. QED
      BY <2>2, <3>6 DEF AreRows
  <2>. QED
    BY <2>3, <2>4
<1>. QED
  BY <1>1

LEMMA SameRows ==
    ASSUME NEW n \in Nat, NEW m \in Nat, n <= m, NEW f, NEW g, AreRows(f, n), AreRows(g, m)
    PROVE  \A k \in 0 .. n : f[k] = g[k]
<1>. DEFINE T == {k \in Nat : k <= n /\ f[k] # g[k]}
<1>1. ASSUME T # {} PROVE FALSE
  <2>1. PICK x \in T : \A y \in T : x <= y
    BY <1>1, Least
  <2>2. x \in Nat /\ x <= n /\ f[x] # g[x]
    BY <2>1
  <2>3. f[x] = RowsTo(f, x) /\ g[x] = RowsTo(g, x)
    <3>1. x \in 0 .. n /\ x \in 0 .. m
      BY <2>2
    <3>2. f = [k \in 0 .. n |-> RowsTo(f, k)] /\ g = [k \in 0 .. m |-> RowsTo(g, k)]
      BY DEF AreRows
    <3>. QED
      BY <3>1, <3>2
  <2>4. CASE x = 0
    BY <2>2, <2>3, <2>4 DEF RowsTo
  <2>5. CASE x # 0
    <3>1. x - 1 \in Nat /\ x - 1 <= n /\ ~ (x <= x - 1)
      BY <2>2, <2>5
    <3>2. x - 1 \notin T
      <4>. HIDE DEF T
      <4>. QED
        BY <2>1, <3>1
    <3>3. f[x - 1] = g[x - 1]
      BY <3>1, <3>2
    <3>. QED
      BY <2>2, <2>3, <3>3 DEF RowsTo
  <2>. QED
    BY <2>4, <2>5
<1>. QED
  BY <1>1

LEMMA RowsAre ==
    ASSUME NEW n \in Nat
    PROVE  /\ RowsOf(0) = <<>>
           /\ RowsOf(n + 1) = IF EntryAt(n).kind = "file" THEN Append(RowsOf(n), RowAt(n)) ELSE RowsOf(n)
<1>. DEFINE rows(m) == CHOOSE f : AreRows(f, m)
<1>1. ASSUME NEW m \in Nat PROVE RowsOf(m) = rows(m)[m] /\ AreRows(rows(m), m)
  <2>1. AreRows(rows(m), m)
    BY SomeRows
  <2>2. RowsOf(m) = rows(m)[m]
    BY Zenon DEF RowsOf, AreRows, RowsTo, RowAt
  <2>. QED
    BY <2>1, <2>2
<1>. HIDE DEF rows
<1>2. RowsOf(0) = <<>>
  <2>1. rows(0)[0] = RowsTo(rows(0), 0)
    BY <1>1 DEF AreRows
  <2>. QED
    BY <1>1, <2>1 DEF RowsTo
<1>3. rows(n)[n] = rows(n + 1)[n]
  <2>1. n + 1 \in Nat /\ n <= n + 1 /\ n \in 0 .. n
    OBVIOUS
  <2>2. AreRows(rows(n), n) /\ AreRows(rows(n + 1), n + 1)
    BY <1>1, <2>1
  <2>. QED
    BY <2>1, <2>2, SameRows
<1>4. rows(n + 1)[n + 1] = RowsTo(rows(n + 1), n + 1)
  <2>1. n + 1 \in Nat /\ n + 1 \in 0 .. (n + 1)
    OBVIOUS
  <2>2. AreRows(rows(n + 1), n + 1)
    BY <1>1, <2>1
  <2>. QED
    BY <2>1, <2>2 DEF AreRows
<1>5. n + 1 \in Nat /\ n + 1 # 0 /\ (n + 1) - 1 = n
  OBVIOUS
<1>6. RowsOf(n) = rows(n)[n] /\ RowsOf(n + 1) = rows(n + 1)[n + 1]
  BY <1>1, <1>5
<1>. QED
  BY <1>2, <1>3, <1>4, <1>5, <1>6 DEF RowsTo

----------------------------------------------------------------------------
(* The walks.  What the directory holds, the card and the boot record say. *)
LEMMA DirDecided ==
    ASSUME UNCHANGED <<card, partitionlba, bpb>>
    PROVE  /\ dir_chain' = dir_chain /\ DirSpan' = DirSpan /\ SeenBound' = SeenBound
           /\ (DirIsWhole' <=> DirIsWhole)
           /\ \A k : EntryAt(k)' = EntryAt(k)
           /\ \A k : PiecesBefore(k)' = PiecesBefore(k)
           /\ \A n : Files(n)' = Files(n)
<1>1. DirSpan' = DirSpan /\ SeenBound' = SeenBound /\ dir_chain' = dir_chain
  BY DEF DirSpan, SeenBound, dir_chain
<1>2. FirstPart' = FirstPart /\ \A l, n : Readable(l, n)' <=> Readable(l, n)
  BY CardDecides
<1>3. \A c : ClusterLba(c)' = ClusterLba(c)
  BY DEF ClusterLba, data_sec
<1>4. \A l : DirContents(l)' = DirContents(l)
  BY <1>3 DEF DirContents
<1>5. \A c : InTable(c)' <=> InTable(c)
  BY <1>2 DEF InTable, IsTable, TableStart
<1>6. DirIsWhole' <=> DirIsWhole
  BY <1>1, <1>3, <1>4, <1>5 DEF DirIsWhole, InChain
<1>7. \A k : EntryAt(k)' = EntryAt(k)
  BY <1>1 DEF EntryAt
<1>8. \A k : PiecesBefore(k)' = PiecesBefore(k)
  BY <1>7 DEF PiecesBefore
<1>9. \A n : Files(n)' = Files(n)
  BY <1>7 DEF Files
<1>. QED
  BY <1>1, <1>6, <1>7, <1>8, <1>9

LEMMA NamesDecided ==
    ASSUME UNCHANGED <<card, partitionlba, bpb>>
    PROVE  /\ \A k : LongName(k)' = LongName(k)
           /\ \A k : WellNamed(k)' <=> WellNamed(k)
           /\ \A n : AllWellNamed(n)' <=> AllWellNamed(n)
           /\ \A f, k : NamedBy(f, k)' <=> NamedBy(f, k)
           /\ (NamesAreShort' <=> NamesAreShort)
<1>1. ASSUME NEW k PROVE LongName(k)' = LongName(k)
  <2>1. PiecesBefore(k)' = PiecesBefore(k)
    BY DirDecided
  <2>2. \A j : EntryAt(j)' = EntryAt(j)
    BY DirDecided
  <2>. QED
    BY <2>1, <2>2 DEF LongName
<1>2. \A k : WellNamed(k)' <=> WellNamed(k)
  BY <1>1, DirDecided DEF WellNamed
<1>3. \A n : AllWellNamed(n)' <=> AllWellNamed(n)
  BY <1>2, DirDecided DEF AllWellNamed
<1>4. \A f, k : NamedBy(f, k)' <=> NamedBy(f, k)
  BY <1>1, DirDecided DEF NamedBy
<1>5. NamesAreShort' <=> NamesAreShort
  BY DirDecided DEF NamesAreShort
<1>. QED
  BY <1>1, <1>2, <1>3, <1>4, <1>5

LEMMA RowsDecided ==
    ASSUME UNCHANGED <<card, partitionlba, bpb>>
    PROVE  \A n : RowsOf(n)' = RowsOf(n)
<1>1. \A k : EntryAt(k)' = EntryAt(k)
  BY DirDecided
<1>2. \A k : LongName(k)' = LongName(k)
  BY NamesDecided
<1>. QED
  BY <1>1, <1>2 DEF RowsOf

LEMMA LfnDecided ==
    ASSUME UNCHANGED <<card, partitionlba, bpb>>
    PROVE  \A t, buf, has : LfnRight(t, buf, has)' <=> LfnRight(t, buf, has)
<1>1. (\A t : PiecesBefore(t)' = PiecesBefore(t)) /\ \A k : EntryAt(k)' = EntryAt(k)
  BY DirDecided
<1>. QED
  BY <1>1 DEF LfnRight, Numbered, Spelled, Letter

LEMMA EntryIs ==
    ASSUME card \in Cards, NEW n \in Nat, NEW j \in 0 .. (EntriesPerCluster - 1)
    PROVE  /\ InChain(dir_chain[n]) /\ dir_chain[n] \in DOMAIN card.dir
                => EntryAt(n * EntriesPerCluster + j) = card.dir[dir_chain[n]][j + 1]
           /\ ~ InChain(dir_chain[n]) => EntryAt(n * EntriesPerCluster + j) = EndEntry
<1>. DEFINE k == n * EntriesPerCluster + j
<1>1. EntriesPerCluster \in Nat \ {0}
  BY DirSizes
<1>2. k \div EntriesPerCluster = n /\ k % EntriesPerCluster = j
  BY <1>1, Splits
<1>. HIDE DEF k
<1>3. EntryAt(k) = IF dir_chain[n] \in DOMAIN card.dir THEN card.dir[dir_chain[n]][j + 1] ELSE EndEntry
  BY <1>2 DEF EntryAt
<1>4. dir_chain[n] \in DOMAIN card.dir => InChain(dir_chain[n])
  BY DirAssumption, VolumeAssumption DEF InChain
<1>. QED
  BY <1>3, <1>4 DEF k

LEMMA DirChainIs ==
    ASSUME card \in Cards
    PROVE  /\ DirSpan \in Nat /\ SeenBound = DirSpan * EntriesPerCluster /\ SeenBound \in Nat
           /\ dir_chain[0] = bpb.rc
           /\ \A n \in 0 .. (DirSpan - 1) :
                 dir_chain[n + 1] = IF dir_chain[n] \in 2 .. (Len(card.fat) - 1)
                                    THEN card.fat[dir_chain[n] + 1] ELSE EndOfChain
<1>1. DirSpan \in Nat
  <2>1. card.fat \in Seq(Entry)
    BY VolumeAssumption
  <2>. QED
    BY <2>1 DEF DirSpan
<1>2. SeenBound = DirSpan * EntriesPerCluster /\ SeenBound \in Nat
  BY <1>1, DirSizes DEF SeenBound, DirSpan
<1>. DEFINE f == ChainFrom(bpb.rc, card.fat, DirSpan)
<1>3. dir_chain = f
  BY DEF dir_chain
<1>4. /\ f[0] = bpb.rc
      /\ \A n \in 0 .. (DirSpan - 1) :
            f[n + 1] = IF f[n] \in 2 .. (Len(card.fat) - 1) THEN card.fat[f[n] + 1] ELSE EndOfChain
  BY <1>1, ChainIs
<1>. HIDE DEF f
<1>. QED
  BY <1>1, <1>2, <1>3, <1>4

----------------------------------------------------------------------------
(* A walk that nothing failed in stands at the entry seen of a directory   *)
(* that is whole, holds the pieces before it, and has found or listed what *)
(* is behind it.                                                           *)
Followed == DirIsWhole /\ dir_failed = {} /\ seen < SeenBound
StandsAt(n) ==
    /\ n \in 0 .. (DirSpan - 1) /\ dir_cluster = dir_chain[n]
    /\ dir_pc = "cluster" => seen = n * EntriesPerCluster
    /\ dir_pc = "entries" =>
          seen = n * EntriesPerCluster + (at - 1) /\ dir_buf = card.dir[dir_cluster]
    /\ dir_pc = "next" => seen = n * EntriesPerCluster + EntriesPerCluster

Walking ==
    /\ seen \in 0 .. SeenBound /\ fn \in FileNames \union {<<>>}
    /\ lfn_buf \in [0 .. (LfnCells - 1) -> Char]
    /\ dir_pc = "entries" => dir_buf \in Directory
    /\ dir_pc # "out" =>
          /\ InChain(dir_cluster) /\ partitionlba # 0 /\ result = 0
          /\ task = "find" => fn \in FileNames
Standing == Followed /\ dir_pc # "out" => \E n : StandsAt(n)
Holding == Followed /\ dir_pc # "out" => LfnRight(seen, lfn_buf, has_lfn)
NoneSoFar == \A k \in Files(seen) : ~ NamedBy(fn, k)
Seeking ==
    Followed /\ NamesAreShort /\ dir_pc # "out" /\ task = "find" /\ AllWellNamed(seen) => NoneSoFar
Listing == DirIsWhole => ListsTheDirectory
Finding == DirIsWhole /\ NamesAreShort /\ seen < SeenBound => FindsTheFile

DInv == VolumeInv /\ DirTypeOK /\ Walking /\ Standing /\ Holding /\ Seeking /\ Listing /\ Finding

(* Where a walk begins.                                                    *)
LEMMA WalkStarts ==
    card \in Cards =>
        /\ Files(0) = {} /\ RowsOf(0) = <<>> /\ LfnRight(0, EmptyLfn, FALSE)
        /\ DirSpan \in Nat /\ SeenBound = DirSpan * EntriesPerCluster /\ SeenBound \in Nat
        /\ dir_chain[0] = bpb.rc
        /\ ~ InChain(bpb.rc) => EntryAt(0) = EndEntry
<1>. SUFFICES ASSUME card \in Cards
              PROVE  /\ Files(0) = {} /\ RowsOf(0) = <<>> /\ LfnRight(0, EmptyLfn, FALSE)
                     /\ DirSpan \in Nat /\ SeenBound = DirSpan * EntriesPerCluster /\ SeenBound \in Nat
                     /\ dir_chain[0] = bpb.rc
                     /\ ~ InChain(bpb.rc) => EntryAt(0) = EndEntry
  OBVIOUS
<1>1. Files(0) = {} /\ RowsOf(0) = <<>>
  BY RowsAre DEF Files
<1>2. LfnRight(0, EmptyLfn, FALSE)
  BY PiecesStep, LfnStarts
<1>3. /\ DirSpan \in Nat /\ SeenBound = DirSpan * EntriesPerCluster /\ SeenBound \in Nat
      /\ dir_chain[0] = bpb.rc
  BY DirChainIs
<1>4. 0 \in 0 .. (EntriesPerCluster - 1) /\ 0 * EntriesPerCluster + 0 = 0
  BY DirSizes
<1>5. ~ InChain(dir_chain[0]) => EntryAt(0) = EndEntry
  BY <1>4, EntryIs
<1>. QED
  BY <1>1, <1>2, <1>3, <1>5

(* The entry the walk is at is the directory's.                            *)
LEMMA AtIs ==
    ASSUME DInv, Followed, dir_pc = "entries"
    PROVE  EntryAt(seen) = entry /\ seen \in Nat /\ LfnRight(seen, lfn_buf, has_lfn)
<1>1. card \in Cards /\ at \in 1 .. EntriesPerCluster /\ InChain(dir_cluster) /\ seen \in 0 .. SeenBound
  BY DEF DInv, VolumeInv, TypeOK, DirTypeOK, Walking
<1>2. PICK n : StandsAt(n)
  BY DEF DInv, Standing
<1>3. /\ DirSpan \in Nat /\ EntriesPerCluster \in Nat \ {0} /\ SeenBound \in Nat
  BY <1>1, DirChainIs, DirSizes
<1>4. /\ n \in 0 .. (DirSpan - 1) /\ dir_cluster = dir_chain[n]
      /\ seen = n * EntriesPerCluster + (at - 1) /\ dir_buf = card.dir[dir_cluster]
  BY <1>2 DEF StandsAt
<1>5. n \in Nat /\ n \in 0 .. DirSpan /\ at - 1 \in 0 .. (EntriesPerCluster - 1) /\ (at - 1) + 1 = at
  BY <1>1, <1>3, <1>4
<1>6. dir_chain[n] \in DOMAIN card.dir /\ InChain(dir_chain[n])
  BY <1>1, <1>4, <1>5 DEF Followed, DirIsWhole
<1>7. EntryAt(n * EntriesPerCluster + (at - 1)) = card.dir[dir_chain[n]][(at - 1) + 1]
  BY <1>1, <1>5, <1>6, EntryIs
<1>8. LfnRight(seen, lfn_buf, has_lfn)
  BY DEF DInv, Holding
<1>. QED
  BY <1>1, <1>3, <1>4, <1>5, <1>7, <1>8 DEF entry

LEMMA FilesStep ==
    ASSUME NEW k \in Nat
    PROVE  /\ EntryAt(k).kind = "file" => Files(k + 1) = Files(k) \union {k}
           /\ EntryAt(k).kind # "file" => Files(k + 1) = Files(k)
           /\ AllWellNamed(k + 1) => AllWellNamed(k)
           /\ EntryAt(k).kind = "file" /\ AllWellNamed(k + 1) => WellNamed(k)
<1>1. ASSUME NEW j PROVE j \in Files(k + 1) <=> j \in Files(k) \/ (j = k /\ EntryAt(k).kind = "file")
  BY DEF Files
<1>. QED
  BY <1>1 DEF AllWellNamed

(* On a short name that is FAT's the code and NamedBy agree.               *)
LEMMA MatchesIs ==
    ASSUME DInv, Followed, NamesAreShort, task = "find", AtEntry({"file"}), WellNamed(seen)
    PROVE  Matches(entry) <=> NamedBy(fn, seen)
<1>. DEFINE e == EntryAt(seen)
<1>1. e = entry /\ dir_pc = "entries" /\ seen \in Nat /\ e.kind = "file" /\ card \in Cards
      /\ LfnRight(seen, lfn_buf, has_lfn)
  BY AtIs DEF AtEntry, DInv, VolumeInv, TypeOK
<1>2. fn \in FileNames
  BY <1>1 DEF DInv, Walking
<1>3. e.base \in [1 .. BaseLen -> STRING] /\ e.ext \in [1 .. ExtLen -> STRING]
  BY <1>1, EntryTypes, EntryFields
<1>4. /\ e.base \in Seq(Char) /\ Len(e.base) = BaseLen
      /\ e.ext \in Seq(Char) /\ Len(e.ext) = ExtLen
  BY <1>3, DirSizes DEF Char
<1>5. ShortPart(e.base) /\ ShortPart(e.ext)
  <2>1. SeenBound \in Nat /\ seen < SeenBound
    BY <1>1, DirChainIs DEF Followed
  <2>2. seen \in Files(SeenBound)
    BY <1>1, <2>1 DEF Files
  <2>. QED
    BY <2>2 DEF NamesAreShort
<1>. HIDE DEF e
<1>6. e.base \o e.ext = filename_to_83(fn)
      <=> \/ SameName(fn, e.base \o e.ext)
          \/ ~ TakenWhole(fn) /\ SameName(Cut(fn), ShortName(e))
  BY <1>2, <1>4, <1>5, ShortNamesMatch
<1>7. has_lfn \in BOOLEAN /\ (has_lfn <=> PiecesBefore(seen) # {})
  BY <1>1 DEF LfnRight, DInv, DirTypeOK
<1>8. has_lfn => LongString(lfn_buf) = LongName(seen)
  BY <1>1, LfnTells
<1>9. has_lfn /\ SameName(fn, LongString(lfn_buf))
      <=> PiecesBefore(seen) # {} /\ SameName(fn, LongName(seen))
  BY <1>7, <1>8
<1>10. Matches(e) <=> NamedBy(fn, seen)
  BY <1>6, <1>9 DEF Matches, NamedBy, e
<1>. QED
  BY <1>1, <1>10

(* A step over an entry, whatever it does with the pieces and the listing. *)
LEMMA EntryPassed ==
    ASSUME DInv, dir_pc = "entries", StepOn,
           UNCHANGED <<volume, task, fn, dir_cluster, dir_buf, dir_failed, result>>,
           DirTypeOK', lfn_buf' \in [0 .. (LfnCells - 1) -> Char],
           Followed => LfnRight(seen + 1, lfn_buf', has_lfn'),
           Followed /\ NamesAreShort /\ task = "find" /\ EntryAt(seen).kind = "file"
               /\ WellNamed(seen) => ~ NamedBy(fn, seen),
           Followed /\ task = "list" /\ (EntryAt(seen).kind = "file" => WellNamed(seen)) =>
               listed' = IF EntryAt(seen).kind = "file" THEN Append(listed, RowAt(seen)) ELSE listed,
           ~ (seen < SeenBound) => listed' = listed
    PROVE  DInv'
<1>1. /\ card \in Cards /\ at \in 1 .. EntriesPerCluster /\ seen \in 0 .. SeenBound
      /\ InChain(dir_cluster) /\ partitionlba # 0
      /\ UNCHANGED <<card, partitionlba, bpb>>
  BY DEF DInv, VolumeInv, TypeOK, DirTypeOK, Walking, volume
<1>2. /\ DirSpan \in Nat /\ EntriesPerCluster \in Nat \ {0} /\ SeenBound \in Nat /\ seen \in Nat
  BY <1>1, DirChainIs, DirSizes
<1>3. /\ seen' = (IF seen < SeenBound THEN seen + 1 ELSE seen)
      /\ \/ at < EntriesPerCluster /\ at' = at + 1 /\ dir_pc' = "entries"
         \/ at = EntriesPerCluster /\ dir_pc' = "next" /\ at' = at
  BY <1>1, <1>2 DEF StepOn
<1>4. /\ dir_chain' = dir_chain /\ DirSpan' = DirSpan /\ SeenBound' = SeenBound
      /\ (DirIsWhole' <=> DirIsWhole)
      /\ (\A k : EntryAt(k)' = EntryAt(k)) /\ (\A n : Files(n)' = Files(n))
  BY <1>1, DirDecided
<1>5. /\ (\A k : WellNamed(k)' <=> WellNamed(k)) /\ (\A n : AllWellNamed(n)' <=> AllWellNamed(n))
      /\ (\A f, k : NamedBy(f, k)' <=> NamedBy(f, k)) /\ (NamesAreShort' <=> NamesAreShort)
  BY <1>1, NamesDecided
<1>6. Followed' => Followed /\ seen' = seen + 1
  BY <1>2, <1>3, <1>4 DEF Followed
<1>7. VolumeInv'
  BY VolumeStays DEF DInv
<1>8. Walking'
  <2>1. seen' \in 0 .. SeenBound'
    BY <1>1, <1>2, <1>3, <1>4
  <2>. QED
    BY <2>1, <1>3 DEF DInv, Walking, InChain, volume
<1>9. Standing'
  <2>1. SUFFICES ASSUME Followed' PROVE \E n : StandsAt(n)'
    BY DEF Standing
  <2>2. PICK n : StandsAt(n)
    BY <1>6, <2>1 DEF DInv, Standing
  <2>3. /\ n \in 0 .. (DirSpan - 1) /\ dir_cluster = dir_chain[n]
        /\ seen = n * EntriesPerCluster + (at - 1) /\ dir_buf = card.dir[dir_cluster]
    BY <2>2 DEF StandsAt
  <2>4. n * EntriesPerCluster \in Nat /\ seen' = seen + 1
    BY <1>2, <1>6, <2>1, <2>3
  <2>5. StandsAt(n)'
    BY <1>1, <1>2, <1>3, <1>4, <2>3, <2>4 DEF StandsAt
  <2>. QED
    BY <2>5
<1>10. Holding'
  <2>1. Followed' => LfnRight(seen', lfn_buf', has_lfn')
    BY <1>6
  <2>2. \A t, buf, has : LfnRight(t, buf, has)' <=> LfnRight(t, buf, has)
    BY <1>1, LfnDecided
  <2>. QED
    BY <2>1, <2>2 DEF Holding
<1>11. Seeking'
  <2>1. SUFFICES ASSUME Followed', NamesAreShort, task = "find", AllWellNamed(seen')
                 PROVE  NoneSoFar'
    BY <1>5 DEF Seeking
  <2>2. Followed /\ seen' = seen + 1
    BY <1>6, <2>1
  <2>3. AllWellNamed(seen) /\ (EntryAt(seen).kind = "file" => WellNamed(seen))
    BY <1>2, <2>1, <2>2, FilesStep
  <2>4. NoneSoFar
    BY <2>1, <2>2, <2>3 DEF DInv, Seeking
  <2>5. EntryAt(seen).kind = "file" => ~ NamedBy(fn, seen)
    BY <2>1, <2>2, <2>3
  <2>6. \A k \in Files(seen + 1) : ~ NamedBy(fn, k)
    BY <1>2, <2>4, <2>5, FilesStep DEF NoneSoFar
  <2>. QED
    BY <1>4, <1>5, <2>2, <2>6 DEF NoneSoFar
<1>12. Listing'
  <2>1. SUFFICES ASSUME DirIsWhole, task = "list", dir_failed = {}, AllWellNamed(seen')
                 PROVE  listed' = RowsOf(seen')
    <3>1. \A n : RowsOf(n)' = RowsOf(n)
      BY <1>1, RowsDecided
    <3>. QED
      BY <1>4, <1>5, <2>1, <3>1 DEF Listing, ListsTheDirectory
  <2>2. CASE seen < SeenBound
    <3>1. Followed /\ seen' = seen + 1
      BY <1>3, <2>1, <2>2 DEF Followed
    <3>2. AllWellNamed(seen) /\ (EntryAt(seen).kind = "file" => WellNamed(seen))
      BY <1>2, <2>1, <3>1, FilesStep
    <3>3. listed = RowsOf(seen)
      BY <2>1, <3>2 DEF DInv, Listing, ListsTheDirectory
    <3>4. RowsOf(seen + 1) = IF EntryAt(seen).kind = "file" THEN Append(RowsOf(seen), RowAt(seen))
                             ELSE RowsOf(seen)
      BY <1>2, RowsAre
    <3>. QED
      BY <2>1, <3>1, <3>2, <3>3, <3>4
  <2>3. CASE ~ (seen < SeenBound)
    <3>1. seen' = seen /\ listed' = listed
      BY <1>3, <2>3
    <3>. QED
      BY <2>1, <3>1 DEF DInv, Listing, ListsTheDirectory
  <2>. QED
    BY <2>2, <2>3
<1>13. Finding'
  BY <1>3 DEF Finding, FindsTheFile
<1>. QED
  BY <1>7, <1>8, <1>9, <1>10, <1>11, <1>12, <1>13 DEF DInv

LEMMA EntryTyped ==
    ASSUME DInv, dir_pc = "entries"
    PROVE  entry \in DirEntry /\ at \in 1 .. EntriesPerCluster /\ card \in Cards
<1>1. dir_buf \in Directory /\ at \in 1 .. EntriesPerCluster /\ card \in Cards
  BY DEF DInv, Walking, DirTypeOK, VolumeInv, TypeOK
<1>. QED
  BY <1>1 DEF Directory, entry

LEMMA StepTyped ==
    ASSUME DInv, dir_pc = "entries", StepOn,
           UNCHANGED <<volume, task, dir_cluster, dir_failed, result>>,
           lfn_buf' \in [0 .. (LfnCells - 1) -> Char], lfn_buf'[LfnCells - 1] = Nul,
           has_lfn' \in BOOLEAN
    PROVE  DirTypeOK'
<1>1. DirTypeOK /\ EntriesPerCluster \in Nat \ {0}
  BY DirSizes DEF DInv
<1>2. dir_pc' \in {"entries", "next"} /\ at' \in 1 .. EntriesPerCluster
  BY <1>1 DEF StepOn, DirTypeOK
<1>3. DOMAIN lfn_buf' = 0 .. (LfnCells - 1)
  OBVIOUS
<1>. QED
  BY <1>1, <1>2, <1>3 DEF DirTypeOK

LEMMA NoPieces ==
    /\ EmptyLfn \in [0 .. (LfnCells - 1) -> Char] /\ EmptyLfn[LfnCells - 1] = Nul
    /\ \A t \in Nat : EntryAt(t).kind # "lfn" => LfnRight(t + 1, EmptyLfn, FALSE)
<1>1. EmptyLfn \in [0 .. (LfnCells - 1) -> Char] /\ EmptyLfn[LfnCells - 1] = Nul
  BY DirSizes DEF EmptyLfn, Char
<1>2. ASSUME NEW t \in Nat, EntryAt(t).kind # "lfn" PROVE LfnRight(t + 1, EmptyLfn, FALSE)
  BY <1>2, PiecesStep, LfnStarts
<1>. QED
  BY <1>1, <1>2

LEMMA SkipKeeps == ASSUME DInv, SkipEntry PROVE DInv'
<1>1. /\ dir_pc = "entries" /\ entry.kind \in {"deleted", "label"} /\ StepOn
      /\ has_lfn' = FALSE /\ lfn_buf' = EmptyLfn /\ listed' = listed
      /\ UNCHANGED <<volume, task, fn, dir_cluster, dir_buf, dir_failed, result>>
  BY DEF SkipEntry, AtEntry, Forget
<1>2. DirTypeOK' /\ lfn_buf' \in [0 .. (LfnCells - 1) -> Char]
  BY <1>1, NoPieces, StepTyped
<1>3. Followed => EntryAt(seen).kind \in {"deleted", "label"} /\ seen \in Nat
  BY <1>1, AtIs
<1>4. Followed => LfnRight(seen + 1, lfn_buf', has_lfn')
  BY <1>1, <1>3, NoPieces
<1>. QED
  BY <1>1, <1>2, <1>3, <1>4, EntryPassed

LEMMA OtherKeeps == ASSUME DInv, OtherEntry PROVE DInv'
<1>1. /\ dir_pc = "entries" /\ entry.kind = "file" /\ task = "find" /\ ~ Matches(entry) /\ StepOn
      /\ has_lfn' = FALSE /\ lfn_buf' = EmptyLfn /\ listed' = listed
      /\ UNCHANGED <<volume, task, fn, dir_cluster, dir_buf, dir_failed, result>>
      /\ AtEntry({"file"})
  BY DEF OtherEntry, AtEntry, Forget
<1>2. DirTypeOK' /\ lfn_buf' \in [0 .. (LfnCells - 1) -> Char]
  BY <1>1, NoPieces, StepTyped
<1>3. Followed => EntryAt(seen).kind = "file" /\ seen \in Nat
  BY <1>1, AtIs
<1>4. Followed => LfnRight(seen + 1, lfn_buf', has_lfn')
  BY <1>1, <1>3, NoPieces
<1>5. Followed /\ NamesAreShort /\ WellNamed(seen) => ~ NamedBy(fn, seen)
  BY <1>1, MatchesIs
<1>. QED
  BY <1>1, <1>2, <1>4, <1>5, EntryPassed

LEMMA LfnKeeps == ASSUME DInv, LfnEntry PROVE DInv'
<1>1. /\ dir_pc = "entries" /\ entry.kind = "lfn" /\ StepOn
      /\ has_lfn' = TRUE /\ lfn_buf' = lfn_extract(entry, lfn_buf) /\ listed' = listed
      /\ UNCHANGED <<volume, task, fn, dir_cluster, dir_buf, dir_failed, result>>
  BY DEF LfnEntry, AtEntry
<1>2. lfn_buf' \in [0 .. (LfnCells - 1) -> Char] /\ lfn_buf'[LfnCells - 1] = Nul
  <2>1. /\ entry.order \in Nat /\ entry.piece \in [1 .. Piece -> STRING]
    BY <1>1, EntryTyped, EntryFields
  <2>2. lfn_buf \in [0 .. (LfnCells - 1) -> Char] /\ lfn_buf[LfnCells - 1] = Nul
    BY DEF DInv, Walking, DirTypeOK
  <2>3. Piece \in Nat \ {0} /\ LfnCells \in Nat \ {0}
    BY DirSizes
  <2>. DEFINE e == entry
              o == e.order
  <2>. HIDE DEF e
  <2>4. CASE o \in 1 .. MaxOrder
    <3>1. lfn_extract(e, lfn_buf) = [c \in 0 .. (LfnCells - 1) |->
             IF c - (o - 1) * Piece \in 0 .. (Piece - 1) /\ c < LfnCells - 1
             THEN e.piece[c - (o - 1) * Piece + 1] ELSE lfn_buf[c]]
      BY <2>2, <2>4 DEF lfn_extract
    <3>2. ASSUME NEW c \in 0 .. (LfnCells - 1)
          PROVE  (IF c - (o - 1) * Piece \in 0 .. (Piece - 1) /\ c < LfnCells - 1
                  THEN e.piece[c - (o - 1) * Piece + 1] ELSE lfn_buf[c]) \in Char
      <4>. DEFINE i == c - (o - 1) * Piece
      <4>1. i \in 0 .. (Piece - 1) => e.piece[i + 1] \in Char
        <5>. HIDE DEF i
        <5>. QED
          BY <2>1, <2>3 DEF e, Char
      <4>. HIDE DEF i
      <4>2. (IF i \in 0 .. (Piece - 1) /\ c < LfnCells - 1 THEN e.piece[i + 1] ELSE lfn_buf[c]) \in Char
        BY <2>2, <4>1
      <4>. QED
        BY <4>2 DEF i
    <3>3. LfnCells - 1 \in 0 .. (LfnCells - 1) /\ ~ (LfnCells - 1 < LfnCells - 1)
      BY <2>3
    <3>. QED
      BY <1>1, <2>2, <3>1, <3>2, <3>3 DEF e
  <2>5. CASE o \notin 1 .. MaxOrder
    BY <1>1, <2>2, <2>5 DEF lfn_extract, e
  <2>. QED
    BY <2>4, <2>5
<1>3. DirTypeOK'
  BY <1>1, <1>2, StepTyped
<1>4. Followed => EntryAt(seen).kind = "lfn"
  BY <1>1, AtIs
<1>5. Followed => LfnRight(seen + 1, lfn_buf', has_lfn')
  <2>1. SUFFICES ASSUME Followed PROVE LfnRight(seen + 1, lfn_extract(entry, lfn_buf), TRUE)
    BY <1>1
  <2>2. EntryAt(seen) = entry /\ seen \in Nat /\ LfnRight(seen, lfn_buf, has_lfn)
    BY <1>1, <2>1, AtIs
  <2>3. card \in Cards
    BY <1>1, EntryTyped
  <2>4. LfnRight(seen + 1, lfn_extract(EntryAt(seen), lfn_buf), TRUE)
    BY <1>4, <2>1, <2>2, <2>3, LfnTakes
  <2>. QED
    BY <2>2, <2>4
<1>. QED
  BY <1>1, <1>2, <1>3, <1>4, <1>5, EntryPassed

LEMMA ListKeeps == ASSUME DInv, ListEntry PROVE DInv'
<1>1. /\ dir_pc = "entries" /\ entry.kind = "file" /\ task = "list" /\ StepOn
      /\ has_lfn' = FALSE /\ lfn_buf' = EmptyLfn
      /\ listed' = (IF seen < SeenBound THEN Append(listed, Row(entry)) ELSE listed)
      /\ UNCHANGED <<volume, task, fn, dir_cluster, dir_buf, dir_failed, result>>
  BY DEF ListEntry, AtEntry, Forget
<1>2. DirTypeOK' /\ lfn_buf' \in [0 .. (LfnCells - 1) -> Char]
  BY <1>1, NoPieces, StepTyped
<1>3. Followed => EntryAt(seen) = entry /\ seen \in Nat /\ LfnRight(seen, lfn_buf, has_lfn)
  BY <1>1, AtIs
<1>4. Followed => LfnRight(seen + 1, lfn_buf', has_lfn')
  BY <1>1, <1>3, NoPieces
<1>5. ASSUME Followed, WellNamed(seen) PROVE Row(entry) = RowAt(seen)
  <2>1. card \in Cards
    BY <1>1, EntryTyped
  <2>2. IF has_lfn THEN LongString(lfn_buf) = LongName(seen) ELSE LongName(seen) = <<>>
    BY <1>3, <1>5, <2>1, LfnTells
  <2>3. (IF has_lfn THEN LongString(lfn_buf) ELSE <<>>) = LongName(seen)
    BY <2>2
  <2>. QED
    BY <1>3, <1>5, <2>3 DEF Row, RowAt
<1>6. Followed => seen < SeenBound
  BY DEF Followed
<1>7. Followed /\ WellNamed(seen) => listed' = Append(listed, RowAt(seen))
  BY <1>1, <1>5, <1>6
<1>8. Followed => EntryAt(seen).kind = "file"
  BY <1>1, <1>3
<1>9. ~ (seen < SeenBound) => listed' = listed
  BY <1>1
<1>. QED
  BY <1>1, <1>2, <1>4, <1>7, <1>8, <1>9, EntryPassed

(* A walk ends at an entry.                                                *)
LEMMA EndsAt ==
    ASSUME DInv, dir_pc = "entries", dir_pc' = "out",
           UNCHANGED <<volume, task, fn, dir_cluster, dir_buf, at, lfn_buf, has_lfn, listed,
                       seen, dir_failed>>,
           result' \in Word,
           Followed /\ NamesAreShort /\ task = "find" /\ AllWellNamed(seen + 1) =>
               IF EntryAt(seen).kind = "file"
               THEN /\ NamedBy(fn, seen)
                    /\ result' = EntryAt(seen).cl /\ lastFileDimension' = EntryAt(seen).size
               ELSE EntryAt(seen).kind = "end" /\ result' = 0
    PROVE  DInv'
<1>1. /\ card \in Cards /\ seen \in 0 .. SeenBound /\ UNCHANGED <<card, partitionlba, bpb>>
  BY DEF DInv, VolumeInv, TypeOK, DirTypeOK, Walking, volume
<1>2. SeenBound \in Nat /\ seen \in Nat
  BY <1>1, DirChainIs
<1>3. /\ SeenBound' = SeenBound /\ (DirIsWhole' <=> DirIsWhole)
      /\ (\A k : EntryAt(k)' = EntryAt(k)) /\ (\A n : Files(n)' = Files(n))
  BY <1>1, DirDecided
<1>4. /\ (\A n : AllWellNamed(n)' <=> AllWellNamed(n))
      /\ (\A f, k : NamedBy(f, k)' <=> NamedBy(f, k)) /\ (NamesAreShort' <=> NamesAreShort)
  BY <1>1, NamesDecided
<1>5. VolumeInv' /\ DirTypeOK'
  BY VolumeStays DEF DInv, DirTypeOK
<1>6. Walking'
  BY <1>3 DEF DInv, Walking
<1>7. Standing' /\ Holding' /\ Seeking'
  BY DEF Standing, Holding, Seeking
<1>8. Listing'
  <2>1. \A n : RowsOf(n)' = RowsOf(n)
    BY <1>1, RowsDecided
  <2>. QED
    BY <1>3, <1>4, <2>1 DEF DInv, Listing, ListsTheDirectory
<1>9. Finding'
  <2>1. SUFFICES ASSUME DirIsWhole, NamesAreShort, seen < SeenBound, task = "find",
                        dir_failed = {}, AllWellNamed(seen + 1)
                 PROVE  /\ \A k \in Files(seen) : ~ NamedBy(fn, k)
                        /\ IF EntryAt(seen).kind = "file"
                           THEN /\ NamedBy(fn, seen)
                                /\ result' = EntryAt(seen).cl
                                /\ lastFileDimension' = EntryAt(seen).size
                           ELSE EntryAt(seen).kind = "end" /\ result' = 0
    BY <1>3, <1>4 DEF Finding, FindsTheFile
  <2>2. Followed
    BY <2>1 DEF Followed
  <2>3. AllWellNamed(seen)
    BY <1>2, <2>1, FilesStep
  <2>4. NoneSoFar
    BY <2>1, <2>2, <2>3 DEF DInv, Seeking
  <2>. QED
    BY <2>1, <2>2, <2>4 DEF NoneSoFar
<1>. QED
  BY <1>5, <1>6, <1>7, <1>8, <1>9 DEF DInv

LEMMA EndMarkKeeps == ASSUME DInv, EndMark PROVE DInv'
<1>1. /\ dir_pc = "entries" /\ entry.kind = "end" /\ dir_pc' = "out"
      /\ UNCHANGED <<volume, task, fn, dir_cluster, dir_buf, at, lfn_buf, has_lfn, listed,
                     seen, dir_failed, result>>
  BY DEF EndMark, AtEntry
<1>2. result' = 0 /\ result' \in Word
  BY <1>1 DEF DInv, Walking, DirTypeOK
<1>3. Followed => EntryAt(seen).kind = "end"
  BY <1>1, AtIs
<1>. QED
  BY <1>1, <1>2, <1>3, EndsAt

LEMMA FoundKeeps == ASSUME DInv, FoundEntry PROVE DInv'
<1>1. /\ dir_pc = "entries" /\ entry.kind = "file" /\ dir_pc' = "out" /\ task = "find"
      /\ Matches(entry) /\ AtEntry({"file"})
      /\ result' = entry.cl /\ lastFileDimension' = entry.size
      /\ UNCHANGED <<volume, task, fn, dir_cluster, dir_buf, at, lfn_buf, has_lfn, listed,
                     seen, dir_failed>>
  BY DEF FoundEntry, AtEntry
<1>2. result' \in Word
  BY <1>1, EntryTyped, EntryFields
<1>3. ASSUME Followed, NamesAreShort, AllWellNamed(seen + 1)
      PROVE  /\ EntryAt(seen).kind = "file" /\ NamedBy(fn, seen)
             /\ result' = EntryAt(seen).cl /\ lastFileDimension' = EntryAt(seen).size
  <2>1. EntryAt(seen) = entry /\ seen \in Nat
    BY <1>1, <1>3, AtIs
  <2>2. WellNamed(seen)
    BY <1>1, <1>3, <2>1, FilesStep
  <2>3. NamedBy(fn, seen)
    BY <1>1, <1>3, <2>2, MatchesIs
  <2>. QED
    BY <1>1, <2>1, <2>3
<1>. QED
  BY <1>1, <1>2, <1>3, EndsAt

(* What a walk that has passed no entry yet takes over from the step before.*)
LEMMA StandingStill ==
    ASSUME DInv, UNCHANGED <<card, partitionlba, bpb, task, fn, lfn_buf, has_lfn, result, listed, seen>>,
           dir_pc # "out", dir_failed \subseteq dir_failed',
           dir_pc' # "out" => InChain(dir_cluster'),
           dir_pc' = "entries" => dir_buf' \in Directory
    PROVE  /\ Walking' /\ Listing'
           /\ (Followed' => Followed)
           /\ (dir_pc' # "out" => Holding' /\ Seeking')
<1>1. card \in Cards
  BY DEF DInv, VolumeInv, TypeOK
<1>2. /\ SeenBound' = SeenBound /\ (DirIsWhole' <=> DirIsWhole)
      /\ (\A k : EntryAt(k)' = EntryAt(k)) /\ (\A n : Files(n)' = Files(n))
  BY DirDecided
<1>3. /\ (\A n : AllWellNamed(n)' <=> AllWellNamed(n))
      /\ (\A f, k : NamedBy(f, k)' <=> NamedBy(f, k)) /\ (NamesAreShort' <=> NamesAreShort)
  BY NamesDecided
<1>4. Followed' => Followed
  BY <1>2 DEF Followed
<1>5. Walking'
  BY <1>2 DEF DInv, Walking, InChain
<1>6. Listing'
  <2>1. \A n : RowsOf(n)' = RowsOf(n)
    BY RowsDecided
  <2>2. dir_failed' = {} => dir_failed = {}
    OBVIOUS
  <2>. QED
    BY <1>2, <1>3, <2>1, <2>2 DEF DInv, Listing, ListsTheDirectory
<1>7. Holding'
  <2>1. \A t, buf, has : LfnRight(t, buf, has)' <=> LfnRight(t, buf, has)
    BY LfnDecided
  <2>. QED
    BY <1>4, <2>1 DEF DInv, Holding
<1>8. Seeking'
  BY <1>2, <1>3, <1>4 DEF DInv, Seeking, NoneSoFar
<1>. QED
  BY <1>4, <1>5, <1>6, <1>7, <1>8

LEMMA ReadKeeps == ASSUME DInv, ReadCluster PROVE DInv'
<1>1. /\ dir_pc = "cluster" /\ dir_pc' \in {"entries", "out"}
      /\ UNCHANGED <<volume, task, fn, dir_cluster, lfn_buf, has_lfn, result,
                     lastFileDimension, listed, seen>>
      /\ dir_pc' = "entries" =>
            dir_buf' \in DirContents(ClusterLba(dir_cluster)) /\ at' = 1 /\ dir_failed' = dir_failed
      /\ dir_pc' = "out" => dir_failed' = dir_failed \union {"data"} /\ at' = at
  BY DEF ReadCluster
<1>2. /\ card \in Cards /\ UNCHANGED <<card, partitionlba, bpb>> /\ InChain(dir_cluster)
      /\ DirTypeOK /\ EntriesPerCluster \in Nat \ {0}
  BY <1>1, DirSizes DEF DInv, VolumeInv, TypeOK, Walking, volume
<1>3. \A l : DirContents(l) \subseteq Directory
  <2>1. ForeignDirs \subseteq Directory /\ \A c \in DOMAIN card.dir : card.dir[c] \in Directory
    BY <1>2, DirAssumption
  <2>. QED
    BY <2>1 DEF DirContents
<1>4. dir_pc' = "entries" => dir_buf' \in Directory
  BY <1>1, <1>3
<1>5. VolumeInv'
  BY <1>1, VolumeStays DEF DInv
<1>6. DirTypeOK'
  <2>1. at' \in 1 .. EntriesPerCluster
    BY <1>1, <1>2 DEF DirTypeOK
  <2>2. dir_failed' \subseteq {"table", "data", "heap"}
    BY <1>1, <1>2 DEF DirTypeOK
  <2>. QED
    BY <1>1, <1>2, <2>1, <2>2 DEF DirTypeOK
<1>7. /\ Walking' /\ Listing' /\ (Followed' => Followed)
      /\ (dir_pc' # "out" => Holding' /\ Seeking')
  <2>1. InChain(dir_cluster')
    BY <1>1, <1>2
  <2>2. dir_pc # "out" /\ dir_failed \subseteq dir_failed'
    BY <1>1
  <2>. QED
    BY <1>1, <1>2, <1>4, <2>1, <2>2, StandingStill
<1>8. dir_pc' = "out" => Holding' /\ Seeking' /\ Finding'
  BY <1>1 DEF Holding, Seeking, Finding, FindsTheFile
<1>9. dir_pc' # "out" => Finding'
  BY DEF Finding, FindsTheFile
<1>10. Standing'
  <2>1. SUFFICES ASSUME Followed', dir_pc' = "entries" PROVE \E n : StandsAt(n)'
    BY <1>1 DEF Standing
  <2>2. Followed
    BY <1>7, <2>1
  <2>3. PICK n : StandsAt(n)
    BY <1>1, <2>2 DEF DInv, Standing
  <2>4. n \in 0 .. (DirSpan - 1) /\ dir_cluster = dir_chain[n] /\ seen = n * EntriesPerCluster
    BY <1>1, <2>3 DEF StandsAt
  <2>5. DirSpan \in Nat
    BY <1>2, DirChainIs
  <2>6. DirContents(ClusterLba(dir_cluster)) = {card.dir[dir_cluster]}
    <3>1. n \in 0 .. DirSpan
      BY <2>4, <2>5
    <3>. QED
      BY <1>2, <2>2, <2>4, <3>1 DEF Followed, DirIsWhole
  <2>7. dir_buf' = card.dir[dir_cluster]
    BY <1>1, <2>1, <2>6
  <2>8. dir_chain' = dir_chain /\ DirSpan' = DirSpan
    BY <1>2, DirDecided
  <2>9. n * EntriesPerCluster \in Nat /\ seen = n * EntriesPerCluster + (1 - 1)
    BY <1>2, <2>4, <2>5
  <2>10. StandsAt(n)'
    BY <1>1, <1>2, <2>1, <2>4, <2>7, <2>8, <2>9 DEF StandsAt
  <2>. QED
    BY <2>10
<1>. QED
  BY <1>5, <1>6, <1>7, <1>8, <1>9, <1>10 DEF DInv

LEMMA NextKeeps == ASSUME DInv, NextDir PROVE DInv'
<1>1. /\ dir_pc = "next" /\ NextCluster(dir_cluster, dir_cluster')
      /\ dir_failed' = (IF cached_fat_lba' = NoSector THEN dir_failed \union {"table"} ELSE dir_failed)
      /\ dir_pc' = DirLoop(dir_cluster')
      /\ UNCHANGED <<task, fn, dir_buf, at, lfn_buf, has_lfn, result, lastFileDimension, listed, seen>>
  BY DEF NextDir
<1>2. UNCHANGED <<card, partitionlba, bpb>>
  BY <1>1 DEF NextCluster
<1>3. /\ card \in Cards /\ InChain(dir_cluster) /\ DirTypeOK /\ EntriesPerCluster \in Nat \ {0}
      /\ partitionlba # 0 /\ result = 0 /\ VolumeInv /\ EndOfChain \in Nat
  BY <1>1, DirSizes, VolumeAssumption DEF DInv, VolumeInv, TypeOK, Walking
<1>4. dir_cluster \in Entry /\ dir_cluster >= 2
  BY <1>3, VolumeAssumption DEF DirTypeOK, InChain, Entry, Word
<1>5. VolumeInv' /\ dir_cluster' \in Entry
  BY <1>1, <1>3, <1>4, NextClusterKeeps
<1>6. \/ InChain(dir_cluster') /\ dir_pc' = "cluster"
      \/ ~ InChain(dir_cluster') /\ dir_pc' = "out"
  BY <1>1 DEF DirLoop
<1>7. DirTypeOK'
  BY <1>1, <1>3, <1>5, <1>6 DEF DirTypeOK
<1>8. /\ Walking' /\ Listing' /\ (Followed' => Followed)
      /\ (dir_pc' # "out" => Holding' /\ Seeking')
  <2>1. dir_pc # "out" /\ dir_failed \subseteq dir_failed' /\ dir_pc' # "entries"
    BY <1>1, <1>6
  <2>2. dir_pc' # "out" => InChain(dir_cluster')
    BY <1>6
  <2>. QED
    BY <1>1, <1>2, <2>1, <2>2, StandingStill
<1>9. ASSUME Followed'
      PROVE  \E n \in Nat : /\ n <= DirSpan /\ dir_cluster' = dir_chain[n] /\ seen = n * EntriesPerCluster
                            /\ n \in 0 .. (DirSpan - 1)
  <2>1. Followed /\ cached_fat_lba' # NoSector
    BY <1>1, <1>8, <1>9 DEF Followed
  <2>2. PICK n : StandsAt(n)
    BY <1>1, <2>1 DEF DInv, Standing
  <2>3. /\ n \in 0 .. (DirSpan - 1) /\ dir_cluster = dir_chain[n]
        /\ seen = n * EntriesPerCluster + EntriesPerCluster
    BY <1>1, <2>2 DEF StandsAt
  <2>4. /\ DirSpan \in Nat /\ SeenBound = DirSpan * EntriesPerCluster
        /\ dir_chain[n + 1] = IF dir_chain[n] \in 2 .. (Len(card.fat) - 1)
                              THEN card.fat[dir_chain[n] + 1] ELSE EndOfChain
    BY <1>3, <2>3, DirChainIs
  <2>5. InTable(dir_cluster)
    <3>1. n \in 0 .. DirSpan
      BY <2>3, <2>4
    <3>. QED
      BY <1>3, <2>1, <2>3, <3>1 DEF Followed, DirIsWhole
  <2>6. dir_cluster \in 2 .. (Len(card.fat) - 1) /\ dir_cluster' = card.fat[dir_cluster + 1]
    BY <1>1, <1>3, <1>4, <2>1, <2>5, LookupIs
  <2>7. dir_cluster' = dir_chain[n + 1]
    BY <2>3, <2>4, <2>6
  <2>8. n \in Nat /\ seen = (n + 1) * EntriesPerCluster
    BY <1>3, <2>3, <2>4
  <2>9. n + 1 < DirSpan
    <3>1. (n + 1) * EntriesPerCluster < DirSpan * EntriesPerCluster
      BY <2>1, <2>4, <2>8 DEF Followed
    <3>2. n + 1 >= DirSpan => (n + 1) * EntriesPerCluster >= DirSpan * EntriesPerCluster
      BY <1>3, <2>4, <2>8, Monotone
    <3>3. (n + 1) * EntriesPerCluster \in Nat /\ DirSpan * EntriesPerCluster \in Nat
      BY <1>3, <2>4, <2>8
    <3>. QED
      BY <2>4, <2>8, <3>1, <3>2, <3>3
  <2>. QED
    BY <2>4, <2>7, <2>8, <2>9
<1>10. Standing'
  <2>1. SUFFICES ASSUME Followed', dir_pc' = "cluster" PROVE \E n : StandsAt(n)'
    BY <1>6 DEF Standing
  <2>2. PICK n \in Nat : /\ dir_cluster' = dir_chain[n] /\ seen = n * EntriesPerCluster
                         /\ n \in 0 .. (DirSpan - 1)
    BY <1>9, <2>1
  <2>3. dir_chain' = dir_chain /\ DirSpan' = DirSpan
    BY <1>2, DirDecided
  <2>4. StandsAt(n)'
    BY <1>1, <2>1, <2>2, <2>3 DEF StandsAt
  <2>. QED
    BY <2>4
<1>11. dir_pc' = "out" => Holding' /\ Seeking'
  BY DEF Holding, Seeking
<1>12. Finding'
  <2>1. /\ SeenBound' = SeenBound /\ (DirIsWhole' <=> DirIsWhole)
        /\ (\A k : EntryAt(k)' = EntryAt(k)) /\ (\A n : Files(n)' = Files(n))
    BY <1>2, DirDecided
  <2>2. /\ (\A n : AllWellNamed(n)' <=> AllWellNamed(n))
        /\ (\A f, k : NamedBy(f, k)' <=> NamedBy(f, k)) /\ (NamesAreShort' <=> NamesAreShort)
    BY <1>2, NamesDecided
  <2>3. SUFFICES ASSUME DirIsWhole, NamesAreShort, seen < SeenBound, task = "find",
                        dir_failed' = {}, AllWellNamed(seen + 1), dir_pc' = "out"
                 PROVE  /\ \A k \in Files(seen) : ~ NamedBy(fn, k)
                        /\ EntryAt(seen).kind # "file"
                        /\ EntryAt(seen).kind = "end" /\ result' = 0
    BY <1>1, <2>1, <2>2 DEF Finding, FindsTheFile
  <2>4. Followed'
    BY <1>1, <2>1, <2>3 DEF Followed
  <2>5. Followed
    BY <1>8, <2>4
  <2>6. seen \in Nat
    BY <1>3, DirChainIs DEF DInv, Walking
  <2>7. AllWellNamed(seen)
    BY <2>3, <2>6, FilesStep
  <2>8. NoneSoFar
    BY <1>1, <2>3, <2>5, <2>7 DEF DInv, Seeking
  <2>9. PICK n \in Nat : dir_cluster' = dir_chain[n] /\ seen = n * EntriesPerCluster
    BY <1>9, <2>4
  <2>10. ~ InChain(dir_chain[n])
    BY <1>6, <2>3, <2>9
  <2>11. 0 \in 0 .. (EntriesPerCluster - 1) /\ n * EntriesPerCluster + 0 = seen
    BY <1>3, <2>6, <2>9
  <2>12. EntryAt(seen) = EndEntry
    BY <1>3, <2>10, <2>11, EntryIs
  <2>. QED
    BY <1>1, <1>3, <2>8, <2>12 DEF NoneSoFar, EndEntry
<1>. QED
  BY <1>5, <1>7, <1>8, <1>10, <1>11, <1>12 DEF DInv

(* A call begins a walk or fails at once.                                  *)
LEMMA CallHolds ==
    ASSUME DInv, NEW t \in {"find", "list"}, NEW f \in FileNames \union {<<>>},
           DirCall(t, f)
    PROVE  DInv'
<1>1. /\ dir_pc = "out" /\ task' = t /\ fn' = f /\ result' = 0 /\ listed' = <<>> /\ seen' = 0
      /\ lfn_buf' = EmptyLfn /\ has_lfn' = FALSE /\ at' = 1
      /\ UNCHANGED <<dir_buf, lastFileDimension>>
  BY DEF DirCall
<1>2. PICK found \in BOOLEAN :
          /\ GetPartition(found)
          /\ \/ /\ ~ found \/ (t = "find" /\ f = <<>>)
                /\ dir_failed' = {"data"}
                /\ UNCHANGED <<dir_pc, dir_cluster>>
             \/ /\ found /\ ~ (t = "find" /\ f = <<>>)
                /\ \/ dir_failed' = {"heap"} /\ UNCHANGED <<dir_pc, dir_cluster>>
                   \/ /\ dir_failed' = {} /\ dir_cluster' = bpb'.rc
                      /\ dir_pc' = DirLoop(bpb'.rc)
  BY DEF DirCall
<1>3. VolumeInv /\ VolumeInv' /\ DirTypeOK /\ EntriesPerCluster \in Nat \ {0}
  BY <1>2, GetPartitionKeeps, DirSizes DEF DInv
<1>4. card' \in Cards /\ bpb' \in BootRecord /\ card \in Cards
  BY <1>3 DEF VolumeInv, TypeOK
<1>5. bpb'.rc \in Word /\ 0 \in Word
  BY <1>4, VolumeAssumption DEF BootRecord, Word
<1>6. /\ (Files(0) = {})' /\ (RowsOf(0) = <<>>)' /\ LfnRight(0, EmptyLfn, FALSE)'
      /\ DirSpan' \in Nat /\ SeenBound' = DirSpan' * EntriesPerCluster /\ SeenBound' \in Nat
      /\ (dir_chain[0])' = bpb'.rc
      /\ (~ InChain(bpb.rc))' => (EntryAt(0) = EndEntry)'
  <2>1. (card \in Cards)'
    BY <1>4
  <2>2. (/\ Files(0) = {} /\ RowsOf(0) = <<>> /\ LfnRight(0, EmptyLfn, FALSE)
         /\ DirSpan \in Nat /\ SeenBound = DirSpan * EntriesPerCluster /\ SeenBound \in Nat
         /\ dir_chain[0] = bpb.rc
         /\ ~ InChain(bpb.rc) => EntryAt(0) = EndEntry)'
    BY <2>1, WalkStarts, PTL
  <2>. QED
    BY <2>2
<1>7. EmptyLfn \in [0 .. (LfnCells - 1) -> Char] /\ EmptyLfn[LfnCells - 1] = Nul
  BY NoPieces
<1>8. DOMAIN EmptyLfn = 0 .. (LfnCells - 1)
  BY <1>7
<1>9. \/ dir_failed' \in {{"data"}, {"heap"}} /\ dir_pc' = "out" /\ dir_cluster' = dir_cluster
      \/ /\ found /\ ~ (t = "find" /\ f = <<>>)
         /\ dir_failed' = {} /\ dir_cluster' = bpb'.rc /\ dir_pc' = DirLoop(bpb'.rc)
  BY <1>1, <1>2
<1>10. DirTypeOK'
  <2>1. dir_pc' \in {"out", "cluster"}
    BY <1>9 DEF DirLoop
  <2>2. dir_cluster' \in Entry \union Word
    BY <1>3, <1>5, <1>9 DEF DirTypeOK
  <2>3. dir_failed' \subseteq {"table", "data", "heap"}
    BY <1>9
  <2>a. at' \in 1 .. EntriesPerCluster
    BY <1>1, <1>3
  <2>b. has_lfn' \in BOOLEAN
    BY <1>1
  <2>4. at' \in 1 .. EntriesPerCluster /\ task' \in {"find", "list"} /\ has_lfn' \in BOOLEAN
    BY <1>1, <2>a, <2>b
  <2>5. result' \in Word /\ DOMAIN lfn_buf' = 0 .. (LfnCells - 1) /\ lfn_buf'[LfnCells - 1] = Nul
    BY <1>1, <1>5, <1>7, <1>8
  <2>. QED
    BY <2>1, <2>2, <2>3, <2>4, <2>5 DEF DirTypeOK
<1>11. Listing'
  <2>1. listed' = RowsOf(seen)'
    BY <1>1, <1>6
  <2>. QED
    BY <2>1 DEF Listing, ListsTheDirectory
<1>12. Seeking'
  <2>1. Files(seen)' = {}
    BY <1>1, <1>6
  <2>. QED
    BY <2>1 DEF Seeking, NoneSoFar
<1>13. Holding'
  <2>1. LfnRight(seen, lfn_buf, has_lfn)'
    BY <1>1, <1>6
  <2>. QED
    BY <2>1 DEF Holding
<1>14. CASE dir_failed' \in {{"data"}, {"heap"}} /\ dir_pc' = "out"
  <2>1. Walking'
    BY <1>1, <1>6, <1>7, <1>14 DEF Walking
  <2>2. Standing' /\ Finding'
    BY <1>14 DEF Standing, Finding, FindsTheFile
  <2>. QED
    BY <1>3, <1>10, <1>11, <1>12, <1>13, <2>1, <2>2 DEF DInv
<1>15. CASE /\ found /\ ~ (t = "find" /\ f = <<>>)
            /\ dir_failed' = {} /\ dir_cluster' = bpb'.rc /\ dir_pc' = DirLoop(bpb'.rc)
  <2>1. \/ InChain(dir_cluster)' /\ dir_pc' = "cluster"
        \/ ~ InChain(dir_cluster)' /\ dir_pc' = "out"
    BY <1>15 DEF DirLoop, InChain
  <2>2. partitionlba' # 0
    BY <1>2, <1>15 DEF GetPartition, volume
  <2>3. Walking'
    BY <1>1, <1>6, <1>7, <1>15, <2>1, <2>2 DEF Walking
  <2>4. Standing'
    <3>1. SUFFICES ASSUME Followed', dir_pc' = "cluster" PROVE \E n : StandsAt(n)'
      BY <2>1 DEF Standing
    <3>2. 0 < DirSpan' * EntriesPerCluster
      BY <1>1, <1>6, <3>1 DEF Followed
    <3>a. 0 * EntriesPerCluster = 0 /\ ~ (0 < 0)
      BY <1>3
    <3>3. DirSpan' # 0
      BY <3>2, <3>a
    <3>b. DirSpan' \in Nat
      BY <1>6
    <3>c. \A s \in Nat : s # 0 => 0 \in 0 .. (s - 1)
      OBVIOUS
    <3>4. 0 \in 0 .. (DirSpan' - 1)
      BY <3>3, <3>b, <3>c
    <3>5. 0 * EntriesPerCluster = 0
      BY <1>3
    <3>6. StandsAt(0)'
      BY <1>1, <1>6, <1>15, <3>1, <3>4, <3>5 DEF StandsAt
    <3>. QED
      BY <3>6
  <2>5. Finding'
    <3>1. SUFFICES ASSUME dir_pc' = "out"
                   PROVE  (/\ \A k \in Files(seen) : ~ NamedBy(fn, k)
                           /\ EntryAt(seen).kind # "file" /\ EntryAt(seen).kind = "end" /\ result = 0)'
      BY DEF Finding, FindsTheFile
    <3>2. Files(seen)' = {}
      BY <1>1, <1>6
    <3>3. ~ InChain(bpb.rc)'
      BY <1>15, <2>1, <3>1 DEF InChain
    <3>4. EntryAt(seen)' = EndEntry
      BY <1>1, <1>6, <3>3
    <3>. QED
      BY <1>1, <3>2, <3>4 DEF EndEntry
  <2>. QED
    BY <1>3, <1>10, <1>11, <1>12, <1>13, <2>3, <2>4, <2>5 DEF DInv
<1>. QED
  BY <1>9, <1>14, <1>15

LEMMA NothingWalks == ASSUME DInv, UNCHANGED dir_vars PROVE DInv'
<1>1. UNCHANGED <<volume, card, partitionlba, bpb, dir_pc, task, fn, dir_cluster, dir_buf, at, lfn_buf,
                  has_lfn, result, lastFileDimension, listed, seen, dir_failed>>
  BY DEF dir_vars, walk, volume
<1>2. VolumeInv' /\ DirTypeOK'
  BY <1>1, VolumeStays DEF DInv, DirTypeOK
<1>3. /\ dir_chain' = dir_chain /\ DirSpan' = DirSpan /\ SeenBound' = SeenBound
      /\ (DirIsWhole' <=> DirIsWhole)
      /\ (\A k : EntryAt(k)' = EntryAt(k)) /\ (\A n : Files(n)' = Files(n))
  BY <1>1, DirDecided
<1>4. /\ (\A n : AllWellNamed(n)' <=> AllWellNamed(n))
      /\ (\A f, k : NamedBy(f, k)' <=> NamedBy(f, k)) /\ (NamesAreShort' <=> NamesAreShort)
  BY <1>1, NamesDecided
<1>5. (Followed' <=> Followed) /\ \A n : StandsAt(n)' <=> StandsAt(n)
  BY <1>1, <1>3 DEF Followed, StandsAt
<1>6. Walking'
  BY <1>1, <1>3 DEF DInv, Walking, InChain
<1>7. Standing'
  BY <1>1, <1>5 DEF DInv, Standing
<1>8. Holding'
  <2>1. \A t, buf, has : LfnRight(t, buf, has)' <=> LfnRight(t, buf, has)
    BY <1>1, LfnDecided
  <2>. QED
    BY <1>1, <1>5, <2>1 DEF DInv, Holding
<1>9. Seeking'
  BY <1>1, <1>3, <1>4, <1>5 DEF DInv, Seeking, NoneSoFar
<1>10. Listing'
  <2>1. \A n : RowsOf(n)' = RowsOf(n)
    BY <1>1, RowsDecided
  <2>. QED
    BY <1>1, <1>3, <1>4, <2>1 DEF DInv, Listing, ListsTheDirectory
<1>11. Finding'
  BY <1>1, <1>3, <1>4 DEF DInv, Finding, FindsTheFile
<1>. QED
  BY <1>2, <1>6, <1>7, <1>8, <1>9, <1>10, <1>11 DEF DInv

LEMMA DirStarts == DirInit => DInv
<1>. SUFFICES ASSUME DirInit PROVE DInv
  OBVIOUS
<1>1. /\ dir_pc = "out" /\ task = "find" /\ fn = <<>> /\ dir_failed = {}
      /\ dir_cluster = 0 /\ at = 1 /\ seen = 0 /\ lfn_buf = EmptyLfn /\ has_lfn = FALSE
      /\ result = 0 /\ listed = <<>> /\ VolumeInv
  BY VolumeInit DEF DirInit
<1>2. card \in Cards /\ EntriesPerCluster \in Nat \ {0} /\ 0 \in Word
  BY <1>1, DirSizes, VolumeAssumption DEF VolumeInv, TypeOK, Word
<1>3. SeenBound \in Nat
  BY <1>2, DirChainIs
<1>4. EmptyLfn \in [0 .. (LfnCells - 1) -> Char] /\ EmptyLfn[LfnCells - 1] = Nul
  BY NoPieces
<1>5. DOMAIN EmptyLfn = 0 .. (LfnCells - 1)
  BY <1>4
<1>6. DirTypeOK
  <2>a. at \in 1 .. EntriesPerCluster
    BY <1>1, <1>2
  <2>b. has_lfn \in BOOLEAN
    BY <1>1
  <2>1. at \in 1 .. EntriesPerCluster /\ task \in {"find", "list"} /\ has_lfn \in BOOLEAN
    BY <1>1, <2>a, <2>b
  <2>2. result \in Word /\ dir_cluster \in Entry \union Word
    BY <1>1, <1>2
  <2>3. DOMAIN lfn_buf = 0 .. (LfnCells - 1) /\ lfn_buf[LfnCells - 1] = Nul
    BY <1>1, <1>4, <1>5
  <2>4. dir_pc = "out" /\ dir_failed = {}
    BY <1>1
  <2>. QED
    BY <2>1, <2>2, <2>3, <2>4 DEF DirTypeOK
<1>7. Walking
  BY <1>1, <1>3, <1>4 DEF Walking
<1>8. Standing /\ Holding /\ Seeking
  BY <1>1 DEF Standing, Holding, Seeking
<1>9. Listing /\ Finding
  BY <1>1 DEF Listing, ListsTheDirectory, Finding, FindsTheFile
<1>. QED
  BY <1>1, <1>6, <1>7, <1>8, <1>9 DEF DInv

LEMMA DirStepHolds == DInv /\ [DirNext]_dir_vars => DInv'
<1>. SUFFICES ASSUME DInv, [DirNext]_dir_vars PROVE DInv'
  OBVIOUS
<1>1. CASE ReadCluster
  BY <1>1, ReadKeeps
<1>2. CASE EndMark
  BY <1>2, EndMarkKeeps
<1>3. CASE SkipEntry
  BY <1>3, SkipKeeps
<1>4. CASE LfnEntry
  BY <1>4, LfnKeeps
<1>5. CASE FoundEntry
  BY <1>5, FoundKeeps
<1>6. CASE OtherEntry
  BY <1>6, OtherKeeps
<1>7. CASE ListEntry
  BY <1>7, ListKeeps
<1>8. CASE NextDir
  BY <1>8, NextKeeps
<1>9. CASE DirCall("list", <<>>)
  BY <1>9, CallHolds
<1>10. ASSUME NEW f \in FileNames, DirCall("find", f) PROVE DInv'
  BY <1>10, CallHolds
<1>11. CASE UNCHANGED dir_vars
  BY <1>11, NothingWalks
<1>. QED
  BY <1>1, <1>2, <1>3, <1>4, <1>5, <1>6, <1>7, <1>8, <1>9, <1>10, <1>11 DEF DirNext, Walk

LEMMA DirInvariant == DirSpec => []DInv
<1>. QED
  BY DirStarts, DirStepHolds, PTL DEF DirSpec

(* A walk's position stays in its buffer and its terminating cell of the   *)
(* long name is never written (fat.c:301-443, 640-731).                    *)
THEOREM DirTypeCorrect == DirSpec => []DirTypeOK
<1>1. DInv => DirTypeOK
  BY DEF DInv
<1>. QED
  BY <1>1, DirInvariant, PTL

(* On a directory whose clusters are all in the table and hold names as    *)
(* FAT has them, a search that nothing failed in and that is no walk round *)
(* a cycle answers with the first file of that name, and with none only    *)
(* where there is none (fat.c:364-443).                                    *)
THEOREM SearchFindsTheFile ==
    DirSpec => [](DirIsWhole /\ NamesAreShort /\ seen < SeenBound => FindsTheFile)
<1>1. DInv => (DirIsWhole /\ NamesAreShort /\ seen < SeenBound => FindsTheFile)
  BY DEF DInv, Finding
<1>. QED
  BY <1>1, DirInvariant, PTL

(* On a directory whose clusters are all in the table, a listing that      *)
(* nothing failed in has printed one line for each file passed, in order   *)
(* and with its own long name (fat.c:678-731).                             *)
THEOREM ListingIsTheDirectory == DirSpec => [](DirIsWhole => ListsTheDirectory)
<1>1. DInv => (DirIsWhole => ListsTheDirectory)
  BY DEF DInv, Listing
<1>. QED
  BY <1>1, DirInvariant, PTL
=============================================================================
