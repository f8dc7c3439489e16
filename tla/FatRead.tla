------------------------------ MODULE FatRead ------------------------------
(***************************************************************************)
(* fat_readfile_to (fs/fat.c): the first max_size bytes of the file that   *)
(* begins at a cluster are read to dest, runs of adjacent clusters in one  *)
(* request, a last part that does not fill its clusters through a buffer   *)
(* of one sector.                                                          *)
(*                                                                         *)
(* A byte is known by where it lies on the card: byte b of sector s is     *)
(* s * SectorBytes + b.  Any read may fail at any sector.                  *)
(***************************************************************************)
EXTENDS FatVolume

CONSTANTS
    RunSectors,        \* most sectors in one request: 128
    Firsts,            \* the clusters it is called with
    Sizes,             \* the values of max_size
    Span               \* bound: cells of dest that are looked at

ASSUME ReadAssumption ==
    /\ RunSectors \in Nat /\ Span \in Nat
    /\ Firsts \subseteq Entry
    /\ Sizes \subseteq Word /\ \A n \in Sizes : n <= Span

VARIABLES
    pc,                \* where fat_readfile_to is; "out" when it is not running
    first,             \* the cluster it was called with
    max_size,
    cluster, run_start, run_clusters, next_cl,
    total_read,
    sectors_done,      \* of the last part, sector by sector
    bytes_remaining,   \* what was still asked for when the last part began
    dest,              \* the cells from the address it was called with
    failed             \* what failed in this call: "table", "data"

read == <<pc, first, max_size, cluster, run_start, run_clusters, next_cl,
          total_read, sectors_done, bytes_remaining, dest, lastFileDimension,
          failed>>
vars == <<volume, read>>

Untouched == -1
PcValues == {"out", "next", "run", "read", "sectors", "done"}

ReadTypeOK ==
    /\ TypeOK
    /\ pc \in PcValues /\ first \in Entry
    /\ cluster \in Entry /\ run_start \in Entry /\ next_cl \in Entry
    /\ max_size \in Nat /\ run_clusters \in Nat \ {0} /\ lastFileDimension \in Nat
    /\ total_read \in Nat /\ sectors_done \in Nat /\ bytes_remaining \in Nat
    /\ dest \in [0 .. (Span - 1) -> Int]
    /\ failed \subseteq {"table", "data"}

cluster_bytes == bpb.spc * SectorBytes
run_bytes == run_clusters * cluster_bytes

ReadInit ==
    /\ Init
    /\ pc = "out" /\ failed = {}
    /\ first = 0 /\ max_size = 0
    /\ cluster = 0 /\ run_start = 0 /\ run_clusters = 1 /\ next_cl = 0
    /\ total_read = 0 /\ sectors_done = 0 /\ bytes_remaining = 0
    /\ dest = [k \in 0 .. (Span - 1) |-> Untouched]

(* n bytes of the card, from byte b on, arrive at dest from cell at on. *)
Copied(at, b, n) ==
    [k \in DOMAIN dest |-> IF k \in at .. (at + n - 1) THEN b + (k - at) ELSE dest[k]]

----------------------------------------------------------------------------
(* Mutant: a last part that does not fill its cluster is left out. *)
LoopByWhole(cl, total) ==
    IF InChain(cl) /\ total + cluster_bytes <= max_size THEN "next" ELSE "done"

(* The loop at line 475 goes on, or is left. *)
Loop(cl, total) ==
    IF InChain(cl) /\ total < max_size THEN "next" ELSE "done"

Call(c, n) ==
    /\ pc = "out"
    /\ \E found \in BOOLEAN :
          /\ GetPartition(found)
          /\ \/ /\ found /\ c >= 2 /\ n # 0
                /\ pc' = IF InChain(c) THEN "next" ELSE "done"
                /\ first' = c /\ max_size' = n /\ cluster' = c
                /\ total_read' = 0 /\ failed' = {}
                /\ run_start' = c /\ run_clusters' = 1 /\ next_cl' = 0
                /\ sectors_done' = 0 /\ bytes_remaining' = 0
                /\ dest' = [k \in DOMAIN dest |-> Untouched]
                /\ UNCHANGED lastFileDimension
             \/ /\ ~ (found /\ c >= 2 /\ n # 0)
                /\ UNCHANGED read

(* The cluster after the last one of the run. *)
Lookup ==
    /\ pc = "next"
    /\ NextCluster(cluster, next_cl')
    /\ failed' = IF cached_fat_lba' = NoSector THEN failed \union {"table"} ELSE failed
    /\ pc' = "run"
    /\ UNCHANGED <<first, max_size, cluster, run_start, run_clusters, total_read,
                   sectors_done, bytes_remaining, dest, lastFileDimension>>

(* Mutant: any later cluster is taken for the adjacent one. *)
GrowsForward ==
    /\ next_cl > cluster
    /\ (run_clusters + 1) * bpb.spc <= RunSectors
    /\ total_read + (run_clusters + 1) * cluster_bytes <= max_size

(* The run takes one more cluster. *)
Grows ==
    /\ next_cl = cluster + 1
    /\ (run_clusters + 1) * bpb.spc <= RunSectors
    /\ total_read + (run_clusters + 1) * cluster_bytes <= max_size

Coalesce ==
    /\ pc = "run"
    /\ \/ /\ Grows
          /\ run_clusters' = run_clusters + 1 /\ cluster' = next_cl
          /\ pc' = "next"
          /\ UNCHANGED bytes_remaining
       \/ /\ ~ Grows
          /\ bytes_remaining' = max_size - total_read
          /\ pc' = "read"
          /\ UNCHANGED <<cluster, run_clusters>>
    /\ UNCHANGED <<volume, first, max_size, run_start, next_cl, total_read,
                   sectors_done, dest, lastFileDimension, failed>>

(* Mutant: the run is always read in place. *)
FitsAlways == TRUE

(* The run fits what is still asked for. *)
Fits == bytes_remaining >= run_bytes

(* The whole run is read to where it belongs, and the loop starts over. *)
ReadRun ==
    /\ pc = "read" /\ Fits
    /\ Readable(ClusterLba(run_start), run_clusters * bpb.spc)
    /\ dest' = Copied(total_read, ClusterLba(run_start) * SectorBytes, run_bytes)
    /\ total_read' = total_read + run_bytes
    /\ cluster' = next_cl /\ run_start' = next_cl /\ run_clusters' = 1
    /\ pc' = Loop(next_cl, total_read')
    /\ UNCHANGED <<volume, first, max_size, next_cl, sectors_done, bytes_remaining,
                   lastFileDimension, failed>>

(* A request for the n sectors from lba on fails after some of them. *)
FailsAfter(lba, n, k) == k \in 0 .. n /\ (k = 0 \/ Readable(lba, k))

(* Mutant: the read is tried again. *)
RunFailsAndRetries ==
    /\ pc = "read" /\ Fits
    /\ pc' = "next" /\ failed' = failed \union {"data"}
    /\ UNCHANGED <<volume, first, max_size, cluster, run_start, run_clusters, next_cl,
                   total_read, sectors_done, bytes_remaining, dest,
                   lastFileDimension>>

RunFails ==
    /\ pc = "read" /\ Fits
    /\ \E k \in 0 .. RunSectors :
          /\ FailsAfter(ClusterLba(run_start), run_clusters * bpb.spc, k)
          /\ dest' = Copied(total_read, ClusterLba(run_start) * SectorBytes,
                            k * SectorBytes)
    /\ pc' = "done" /\ failed' = failed \union {"data"}
    /\ UNCHANGED <<volume, first, max_size, cluster, run_start, run_clusters, next_cl,
                   total_read, sectors_done, bytes_remaining, lastFileDimension>>

sectors_to_read == (bytes_remaining + SectorBytes - 1) \div SectorBytes

(* The last part fits the buffer of one sector. *)
ReadLastSector ==
    /\ pc = "read" /\ ~ Fits /\ sectors_to_read <= 1
    /\ \/ /\ Readable(ClusterLba(run_start), 1)
          /\ dest' = Copied(total_read, ClusterLba(run_start) * SectorBytes,
                            bytes_remaining)
          /\ total_read' = total_read + bytes_remaining
          /\ UNCHANGED failed
       \/ failed' = failed \union {"data"} /\ UNCHANGED <<dest, total_read>>
    /\ pc' = "done"
    /\ UNCHANGED <<volume, first, max_size, cluster, run_start, run_clusters, next_cl,
                   sectors_done, bytes_remaining, lastFileDimension>>

(* It does not: sector by sector. *)
GoBySectors ==
    /\ pc = "read" /\ ~ Fits /\ sectors_to_read > 1
    /\ pc' = "sectors" /\ sectors_done' = 0
    /\ UNCHANGED <<volume, first, max_size, cluster, run_start, run_clusters, next_cl,
                   total_read, bytes_remaining, dest, lastFileDimension, failed>>

(* Line 567: the subtraction is one of words. *)
copy == LET left == (bytes_remaining - total_read) % WordSpace
        IN  IF left > SectorBytes THEN SectorBytes ELSE left

ReadSector ==
    /\ pc = "sectors"
    /\ LET lba == (ClusterLba(run_start) + sectors_done) % WordSpace IN
       /\ Readable(lba, 1)
       /\ dest' = Copied(total_read, lba * SectorBytes, copy)
       /\ total_read' = total_read + copy /\ sectors_done' = sectors_done + 1
    /\ pc' = IF sectors_done' < sectors_to_read /\ total_read' < max_size
             THEN "sectors" ELSE "done"
    /\ UNCHANGED <<volume, first, max_size, cluster, run_start, run_clusters, next_cl,
                   bytes_remaining, lastFileDimension, failed>>

(* This failure returns at once, and leaves lastFileDimension as it was. *)
SectorFails ==
    /\ pc = "sectors"
    /\ pc' = "out" /\ failed' = failed \union {"data"}
    /\ UNCHANGED <<volume, first, max_size, cluster, run_start, run_clusters, next_cl,
                   total_read, sectors_done, bytes_remaining, dest,
                   lastFileDimension>>

Return ==
    /\ pc = "done"
    /\ lastFileDimension' = total_read
    /\ pc' = "out"
    /\ UNCHANGED <<volume, first, max_size, cluster, run_start, run_clusters, next_cl,
                   total_read, sectors_done, bytes_remaining, dest, failed>>

ReadFile ==
    \/ Lookup \/ Coalesce \/ ReadRun \/ RunFails
    \/ ReadLastSector \/ GoBySectors \/ ReadSector \/ SectorFails \/ Return

Next == ReadFile \/ \E c \in Firsts, n \in Sizes : Call(c, n)

Spec == ReadInit /\ [][Next]_vars
FairSpec == Spec /\ WF_vars(ReadFile)

----------------------------------------------------------------------------
(* The file as the table on the card has it.                               *)
chain == ChainFrom(first, card.fat, Span)

(* Every cluster of the file has its entry on the card, in the table, and  *)
(* none is numbered like the one before the marks that end a chain.        *)
HasEntry(c) == InTable(c) /\ c + 1 < EndOfChain
ChainIsWhole == \A k \in 0 .. Span : InChain(chain[k]) => HasEntry(chain[k])

FileByte(k) ==
    ClusterLba(chain[k \div cluster_bytes]) * SectorBytes + (k % cluster_bytes)

RoundedUp(n) == ((n + SectorBytes - 1) \div SectorBytes) * SectorBytes

(* What counts as read is the file, in order from its first byte, at       *)
(* every moment of the call and after it (fat.c:507-619).                  *)
ExposesTheFile ==
    "table" \notin failed =>
        \A k \in 0 .. (total_read - 1) : k < max_size => dest[k] = FileByte(k)

(* A call that nothing failed in gives less than it was asked for only     *)
(* when the file's chain ends there (fat.c:475-477, 624).                  *)
ShortOnlyAtTheEnd ==
    pc = "done" /\ failed = {} /\ total_read < max_size =>
        ~ InChain(chain[total_read \div cluster_bytes])

(* Past the request at most the rest of its last sector is written.        *)
StaysInLastSector ==
    \A k \in DOMAIN dest : k >= RoundedUp(max_size) => dest[k] = Untouched

(* Every call ends, on a chain with a cycle too.                           *)
CallsEnd == pc # "out" ~> pc = "out"
=============================================================================
