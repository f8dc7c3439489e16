----------------------------- MODULE FatVolume -----------------------------
(***************************************************************************)
(* What every FAT routine of fs/fat.c shares: the card as sd_readblock     *)
(* shows it, the partition found on it (fat_getpartition), and the one-    *)
(* sector cache of the allocation table (fat_get_next_cluster).            *)
(*                                                                         *)
(* A sector holds SectorBytes bytes for 512 and EntriesPerSector table     *)
(* entries for 128; a word holds WordSpace values for 2^32.                *)
(***************************************************************************)
EXTENDS Integers, Sequences

CONSTANTS
    SectorBytes, EntriesPerSector, WordSpace,
    BadCluster,        \* what fat_get_next_cluster answers when it cannot
    EndOfChain,        \* the first table entry that ends a chain
    Cards,             \* the cards that may be in the slot
    ForeignEntries     \* what a sector outside the table may look like in it

VARIABLES
    card,              \* what is on the card
    partitionlba,      \* first sector of the partition, 0 if not yet found
    bpb,               \* the boot record read last
    cached_fat_lba,    \* sector fat_cache_buf was read from, or NoSector
    fat_cache_buf,
    lastFileDimension  \* size of the file found or read last

volume == <<card, partitionlba, bpb, cached_fat_lba, fat_cache_buf>>

NoSector == WordSpace - 1
NoRecord == [bps |-> 0, spc |-> 0, rsc |-> 0, nf |-> 0, spf32 |-> 0, rc |-> 0]

Word == 0 .. (WordSpace - 1)
Entry == 0 .. EndOfChain
TableSector == [0 .. (EntriesPerSector - 1) -> Entry]
BootRecord == [bps : Word, spc : Word, rsc : Word, nf : Word, spf32 : Word, rc : Word]

(* What fields are made of.  The entry that stands for a failure is one    *)
(* the loops go on with; a card's sectors are counted in a word.           *)
ASSUME VolumeAssumption ==
    /\ {SectorBytes, EntriesPerSector, WordSpace} \subseteq Nat \ {0}
    /\ EndOfChain \in Nat /\ BadCluster \in 0 .. (EndOfChain - 1)
    /\ ForeignEntries \subseteq Entry
    /\ \A c \in Cards :
          /\ c.sectors \in Word /\ c.fat \in Seq(Entry)
          /\ c.parts \in Seq([fat : BOOLEAN, lba : Word])
          /\ \A k \in DOMAIN c.parts : c.parts[k].fat => c.boot[c.parts[k].lba] \in BootRecord

TypeOK ==
    /\ card \in Cards
    /\ partitionlba \in Word /\ cached_fat_lba \in Word
    /\ fat_cache_buf \in TableSector
    /\ bpb \in BootRecord

----------------------------------------------------------------------------
(* sd_readblock refuses what lies past the end of the card, and may fail   *)
(* on anything, in the middle of a request too.                            *)
Readable(lba, n) == lba + n <= card.sectors

(* The partition the scan of the four entries settles on, or 0. *)
FatParts == {k \in DOMAIN card.parts : card.parts[k].fat /\ card.parts[k].lba # 0}
FirstPart ==
    IF FatParts = {} THEN 0
    ELSE card.parts[CHOOSE k \in FatParts : \A j \in FatParts : k <= j].lba

Sane(r) ==
    /\ r.bps = SectorBytes
    /\ r.spc # 0 /\ r.rsc # 0 /\ r.nf # 0 /\ r.spf32 # 0

(* The table of the volume that starts at sector p; other sectors can look *)
(* like anything when they are read as if they belonged to it.             *)
TableStart(p) == p + card.boot[p].rsc
IsTable(lba) ==
    /\ FirstPart # 0 /\ lba >= TableStart(FirstPart)
    /\ (lba - TableStart(FirstPart) + 1) * EntriesPerSector <= Len(card.fat)
Contents(lba) ==
    IF IsTable(lba)
    THEN {[e \in 0 .. (EntriesPerSector - 1) |->
             card.fat[(lba - TableStart(FirstPart)) * EntriesPerSector + e + 1]]}
    ELSE {[e \in 0 .. (EntriesPerSector - 1) |-> v] : v \in ForeignEntries}

Init ==
    /\ card \in Cards
    /\ partitionlba = 0 /\ bpb = NoRecord
    /\ cached_fat_lba = NoSector
    /\ fat_cache_buf = [e \in 0 .. (EntriesPerSector - 1) |-> 0]
    /\ lastFileDimension = 0

(* Mutant: a boot record that is refused leaves the partition in place. *)
GetPartitionSticky(found) ==
    \/ partitionlba # 0 /\ found = TRUE /\ UNCHANGED volume
    \/ partitionlba = 0 /\ found = FALSE /\ UNCHANGED volume
    \/ /\ partitionlba = 0 /\ card.signed /\ FirstPart # 0
       /\ Readable(FirstPart, 1) /\ bpb' = card.boot[FirstPart]
       /\ partitionlba' = FirstPart /\ found = Sane(bpb')
       /\ cached_fat_lba' = NoSector
       /\ UNCHANGED <<card, fat_cache_buf>>

(* fat_getpartition.  A partition that was found is not looked for again;  *)
(* the boot record may be in its buffer although its read failed.          *)
GetPartition(found) ==
    \/ partitionlba # 0 /\ found = TRUE /\ UNCHANGED volume
    \/ /\ partitionlba = 0 /\ found = FALSE
       /\ UNCHANGED volume
    \/ /\ partitionlba = 0 /\ card.signed /\ FirstPart # 0
       /\ Readable(FirstPart, 1) /\ bpb' = card.boot[FirstPart]
       /\ \/ /\ found = FALSE
             /\ UNCHANGED <<partitionlba, cached_fat_lba>>
          \/ /\ found = TRUE /\ Sane(bpb')
             /\ partitionlba' = FirstPart /\ cached_fat_lba' = NoSector
       /\ UNCHANGED <<card, fat_cache_buf>>

(* Mutant: a failed read of the table keeps the name of the old sector. *)
TableReadFailsQuietly(lba) ==
    /\ fat_cache_buf' \in {fat_cache_buf} \union
                         (IF Readable(lba, 1) THEN Contents(lba) ELSE {})
    /\ UNCHANGED cached_fat_lba

TableReadFails(lba) ==
    /\ fat_cache_buf' \in {fat_cache_buf} \union
                         (IF Readable(lba, 1) THEN Contents(lba) ELSE {})
    /\ cached_fat_lba' = NoSector

(* fat_get_next_cluster(cluster) answers next. *)
NextCluster(cluster, next) ==
    LET lba == (partitionlba + bpb.rsc + cluster \div EntriesPerSector) % WordSpace
        e   == cluster % EntriesPerSector
        known == partitionlba # 0 /\ bpb.rsc # 0
    IN  /\ \/ ~ known /\ next = BadCluster
              /\ UNCHANGED <<cached_fat_lba, fat_cache_buf>>
           \/ known /\ lba = cached_fat_lba
              /\ next = fat_cache_buf[e]
              /\ UNCHANGED <<cached_fat_lba, fat_cache_buf>>
           \/ known /\ lba # cached_fat_lba /\ Readable(lba, 1)
              /\ fat_cache_buf' \in Contents(lba) /\ cached_fat_lba' = lba
              /\ next = fat_cache_buf'[e]
           \/ known /\ lba # cached_fat_lba /\ TableReadFails(lba)
              /\ next = BadCluster
        /\ UNCHANGED <<card, partitionlba, bpb>>

(* The first data sector of the volume, and the sectors of a cluster. *)
data_sec == partitionlba + bpb.rsc + bpb.nf * bpb.spf32
ClusterLba(cluster) == (data_sec + (cluster - 2) * bpb.spc) % WordSpace

InChain(cluster) == cluster >= 2 /\ cluster < EndOfChain

(* The first clusters of the chain from c on, as the table has it.         *)
ChainFrom(c, table, span) ==
    LET nth[n \in 0 .. span] ==
            IF n = 0 THEN c
            ELSE IF nth[n - 1] \in 2 .. (Len(table) - 1) THEN table[nth[n - 1] + 1]
            ELSE EndOfChain
    IN nth

(* The table on the card has an entry for the cluster.                     *)
InTable(cluster) ==
    LET lba == TableStart(FirstPart) + cluster \div EntriesPerSector
    IN  IsTable(lba) /\ Readable(lba, 1)

----------------------------------------------------------------------------
(* A partition in use is the card's first FAT partition and its boot       *)
(* record is in bpb and passed the checks, whatever failed on the way      *)
(* (fat.c:149-214).                                                        *)
PartitionIsSound ==
    partitionlba # 0 =>
        partitionlba = FirstPart /\ bpb = card.boot[FirstPart] /\ Sane(bpb)

(* The cache never lends the name of one sector to the contents of         *)
(* another, although a read that fails can fill half of it (fat.c:131-141).*)
CacheIsCoherent ==
    cached_fat_lba # NoSector =>
        Readable(cached_fat_lba, 1) /\ fat_cache_buf \in Contents(cached_fat_lba)
=============================================================================
