------------------------------- MODULE FatDir -------------------------------
(***************************************************************************)
(* The two walks over the root directory (fs/fat.c): the search for a file *)
(* by name, fat_getcluster_ex, and the listing, fat_listdirectory.  Both   *)
(* read the directory cluster by cluster, collect the pieces of a long     *)
(* name from the entries before a file, and forget them on every entry     *)
(* that is not such a piece.                                               *)
(*                                                                         *)
(* Names are shorter than on a card: BaseLen and ExtLen characters for 8   *)
(* and 3, Piece for the 13 of a long-name entry, LfnCells for the 256 of   *)
(* the buffer they are collected in, MaxOrder for the 20 pieces it takes.  *)
(***************************************************************************)
EXTENDS FatVolume

CONSTANTS
    BaseLen, ExtLen, Piece, LfnCells, MaxOrder,
    EntriesPerCluster,
    UpperOf,           \* what to_upper_char changes: lower case to upper case
    FileNames,         \* the names searched for
    ForeignDirs        \* what clusters outside the directory may look like

VARIABLES
    dir_pc,            \* where the walk is; "out" when none is running
    task,              \* "find" or "list"
    fn,                \* the name searched for
    dir_cluster, dir_buf,
    at,                \* the entry of dir_buf the walk is at
    lfn_buf, has_lfn,
    result,            \* the cluster the search answered with, 0 for none
    listed,            \* the lines fat_listdirectory has printed
    seen,              \* history: entries the walk has passed
    dir_failed         \* what failed in this walk: "table", "data", "heap"

walk == <<dir_pc, task, fn, dir_cluster, dir_buf, at, lfn_buf, has_lfn, result,
          lastFileDimension, listed, seen, dir_failed>>
dir_vars == <<volume, walk>>

Nul == ""
Blank == " "
EmptyLfn == [c \in 0 .. (LfnCells - 1) |-> Nul]
EndEntry == [kind |-> "end"]

----------------------------------------------------------------------------
(* Names.                                                                  *)
Upper(c) == IF c \in DOMAIN UpperOf THEN UpperOf[c] ELSE c

(* strcasecmp_custom answers 0. *)
SameName(s, t) ==
    Len(s) = Len(t) /\ \A i \in DOMAIN s : Upper(s[i]) = Upper(t[i])

(* The characters of s before the first c. *)
UpTo(s, c) ==
    LET at_c == {i \in DOMAIN s : s[i] = c}
    IN  IF at_c = {} THEN s
        ELSE SubSeq(s, 1, (CHOOSE i \in at_c : \A j \in at_c : i <= j) - 1)

Padded(s, n) == [i \in 1 .. n |-> IF i <= Len(s) THEN Upper(s[i]) ELSE Blank]

(* Mutant: what follows the dot is looked for right after BaseLen. *)
filename_to_83_short(f) ==
    LET base == UpTo(f, ".")
    IN  Padded(base, BaseLen) \o Padded(SubSeq(f, BaseLen + 2, Len(f)), ExtLen)

(* A name without a dot that has the length of both parts is taken as it is.*)
TakenWhole(f) == Len(UpTo(f, ".")) = Len(f) /\ Len(f) = BaseLen + ExtLen

(* filename_to_83: longer parts are cut off.                               *)
filename_to_83(f) ==
    LET base == UpTo(f, ".")
    IN  IF TakenWhole(f) THEN Padded(f, BaseLen + ExtLen)
        ELSE Padded(base, BaseLen) \o Padded(SubSeq(f, Len(base) + 2, Len(f)), ExtLen)

(* An entry of a directory.                                                *)
DirEntry ==
    [kind : {"end", "deleted", "label"}]
    \union [kind : {"lfn"}, order : Nat, piece : [1 .. Piece -> STRING]]
    \union [kind : {"file"}, base : [1 .. BaseLen -> STRING],
            ext : [1 .. ExtLen -> STRING], cl : Word, size : Word]
Directory == [1 .. EntriesPerCluster -> DirEntry]

(* Upper case is no letter that changes; the shell's names have no blanks. *)
ASSUME DirAssumption ==
    /\ {BaseLen, ExtLen, Piece, LfnCells, EntriesPerCluster} \subseteq Nat \ {0}
    /\ MaxOrder \in Nat
    /\ {Blank, "."} \intersect DOMAIN UpperOf = {}
    /\ \A c \in DOMAIN UpperOf :
          UpperOf[c] \in STRING \ (DOMAIN UpperOf \union {Blank, "."})
    /\ FileNames \subseteq Seq(STRING)
    /\ \A f \in FileNames : TakenWhole(f) \/ \A i \in DOMAIN f : f[i] # Blank
    /\ ForeignDirs \subseteq Directory
    /\ \A c \in Cards : \A k \in DOMAIN c.dir :
          k \in 2 .. (EndOfChain - 1) /\ c.dir[k] \in Directory

(* dir_to_shortname. *)
ShortName(e) ==
    UpTo(e.base, Blank)
    \o (IF e.ext[1] = Blank THEN <<>> ELSE <<".">> \o UpTo(e.ext, Blank))

(* lfn_buf as a string. *)
LongString(buf) == UpTo([i \in 1 .. LfnCells |-> buf[i - 1]], Nul)

(* Mutant: the buffer is filled to its last cell. *)
lfn_extract_full(lfn, buf) ==
    IF lfn.order \notin 1 .. MaxOrder THEN buf
    ELSE [c \in DOMAIN buf |->
            LET i == c - (lfn.order - 1) * Piece
            IN  IF i \in 0 .. (Piece - 1) THEN lfn.piece[i + 1] ELSE buf[c]]

(* lfn_extract: where the piece belongs, but never to the last cell. *)
lfn_extract(lfn, buf) ==
    IF lfn.order \notin 1 .. MaxOrder THEN buf
    ELSE [c \in DOMAIN buf |->
            LET i == c - (lfn.order - 1) * Piece
            IN  IF i \in 0 .. (Piece - 1) /\ c < LfnCells - 1
                THEN lfn.piece[i + 1] ELSE buf[c]]

Matches(e) ==
    \/ e.base \o e.ext = filename_to_83(fn)
    \/ SameName(fn, ShortName(e))
    \/ has_lfn /\ SameName(fn, LongString(lfn_buf))

Row(e) ==
    [cl |-> e.cl, size |-> e.size, short |-> ShortName(e),
     long |-> IF has_lfn THEN LongString(lfn_buf) ELSE <<>>]

----------------------------------------------------------------------------
DirTypeOK ==
    /\ dir_pc \in {"out", "cluster", "entries", "next"} /\ task \in {"find", "list"}
    /\ dir_cluster \in Entry \union Word /\ at \in 1 .. EntriesPerCluster
    /\ has_lfn \in BOOLEAN /\ result \in Word
    /\ DOMAIN lfn_buf = 0 .. (LfnCells - 1) /\ lfn_buf[LfnCells - 1] = Nul
    /\ dir_failed \subseteq {"table", "data", "heap"}

DirInit ==
    /\ Init
    /\ dir_pc = "out" /\ task = "find" /\ fn = <<>> /\ dir_failed = {}
    /\ dir_cluster = 0 /\ dir_buf = <<>> /\ at = 1 /\ seen = 0
    /\ lfn_buf = EmptyLfn /\ has_lfn = FALSE
    /\ result = 0 /\ listed = <<>>

(* The walk goes on with a cluster, or ends there. *)
DirLoop(cl) == IF InChain(cl) THEN "cluster" ELSE "out"

(* Either walk begins; the buffer for a cluster comes from the heap. *)
DirCall(t, f) ==
    /\ dir_pc = "out"
    /\ task' = t /\ fn' = f /\ result' = 0 /\ listed' = <<>> /\ seen' = 0
    /\ lfn_buf' = EmptyLfn /\ has_lfn' = FALSE /\ at' = 1
    /\ \E found \in BOOLEAN :
          /\ GetPartition(found)
          /\ \/ /\ ~ found \/ (t = "find" /\ f = <<>>)
                /\ dir_failed' = {"data"}
                /\ UNCHANGED <<dir_pc, dir_cluster>>
             \/ /\ found /\ ~ (t = "find" /\ f = <<>>)
                /\ \/ dir_failed' = {"heap"} /\ UNCHANGED <<dir_pc, dir_cluster>>
                   \/ /\ dir_failed' = {} /\ dir_cluster' = bpb'.rc
                      /\ dir_pc' = DirLoop(bpb'.rc)
    /\ UNCHANGED <<dir_buf, lastFileDimension>>

(* What sd_readblock finds where a cluster lies. *)
DirContents(lba) ==
    LET here == {c \in DOMAIN card.dir : ClusterLba(c) = lba}
    IN  IF here = {} THEN ForeignDirs ELSE {card.dir[c] : c \in here}

ReadCluster ==
    /\ dir_pc = "cluster"
    /\ \/ /\ Readable(ClusterLba(dir_cluster), bpb.spc)
          /\ dir_buf' \in DirContents(ClusterLba(dir_cluster))
          /\ at' = 1 /\ dir_pc' = "entries"
          /\ UNCHANGED dir_failed
       \/ /\ dir_pc' = "out" /\ dir_failed' = dir_failed \union {"data"}
          /\ UNCHANGED <<dir_buf, at>>
    /\ UNCHANGED <<volume, task, fn, dir_cluster, lfn_buf, has_lfn, result,
                   lastFileDimension, listed, seen>>

entry == dir_buf[at]
AtEntry(kinds) == dir_pc = "entries" /\ entry.kind \in kinds

EndMark ==
    /\ AtEntry({"end"})
    /\ dir_pc' = "out"
    /\ UNCHANGED <<volume, task, fn, dir_cluster, dir_buf, at, lfn_buf, has_lfn,
                   result, lastFileDimension, listed, seen, dir_failed>>

(* Bound: a walk round a cycle is followed for this many entries; seen and *)
(* listed stay as they are from there on.                                  *)
SeenBound == Len(card.fat) * EntriesPerCluster

(* On to the entry after this one. *)
StepOn ==
    /\ seen' = IF seen < SeenBound THEN seen + 1 ELSE seen
    /\ IF at < EntriesPerCluster THEN at' = at + 1 /\ UNCHANGED dir_pc
       ELSE dir_pc' = "next" /\ UNCHANGED at

(* The pieces belonged to nothing that comes later. *)
Forget == has_lfn' = FALSE /\ lfn_buf' = EmptyLfn

(* A deleted entry, or the label of the volume. *)
SkipEntry ==
    /\ AtEntry({"deleted", "label"})
    /\ Forget /\ StepOn
    /\ UNCHANGED <<volume, task, fn, dir_cluster, dir_buf, result,
                   lastFileDimension, listed, dir_failed>>

LfnEntry ==
    /\ AtEntry({"lfn"})
    /\ lfn_buf' = lfn_extract(entry, lfn_buf) /\ has_lfn' = TRUE
    /\ StepOn
    /\ UNCHANGED <<volume, task, fn, dir_cluster, dir_buf, result,
                   lastFileDimension, listed, dir_failed>>

FoundEntry ==
    /\ AtEntry({"file"}) /\ task = "find" /\ Matches(entry)
    /\ result' = entry.cl /\ lastFileDimension' = entry.size
    /\ dir_pc' = "out"
    /\ UNCHANGED <<volume, task, fn, dir_cluster, dir_buf, at, lfn_buf, has_lfn,
                   listed, seen, dir_failed>>

OtherEntry ==
    /\ AtEntry({"file"}) /\ task = "find" /\ ~ Matches(entry)
    /\ Forget /\ StepOn
    /\ UNCHANGED <<volume, task, fn, dir_cluster, dir_buf, result,
                   lastFileDimension, listed, dir_failed>>

(* Mutant: the long name is kept for the next line. *)
ListEntryKeeping ==
    /\ AtEntry({"file"}) /\ task = "list"
    /\ listed' = IF seen < SeenBound THEN Append(listed, Row(entry)) ELSE listed
    /\ StepOn
    /\ UNCHANGED <<volume, task, fn, dir_cluster, dir_buf, lfn_buf, has_lfn, result,
                   lastFileDimension, dir_failed>>

ListEntry ==
    /\ AtEntry({"file"}) /\ task = "list"
    /\ listed' = IF seen < SeenBound THEN Append(listed, Row(entry)) ELSE listed
    /\ Forget /\ StepOn
    /\ UNCHANGED <<volume, task, fn, dir_cluster, dir_buf, result,
                   lastFileDimension, dir_failed>>

(* Mutant: an end of chain starts the directory over. *)
NextDirRestarts ==
    /\ dir_pc = "next"
    /\ \E next \in Entry :
          /\ NextCluster(dir_cluster, next)
          /\ dir_cluster' = IF InChain(next) THEN next ELSE bpb.rc
    /\ dir_failed' = IF cached_fat_lba' = NoSector THEN dir_failed \union {"table"} ELSE dir_failed
    /\ dir_pc' = DirLoop(dir_cluster')
    /\ UNCHANGED <<task, fn, dir_buf, at, lfn_buf, has_lfn, result,
                   lastFileDimension, listed, seen>>

(* A table that cannot be read answers with a value the loop goes on with. *)
NextDir ==
    /\ dir_pc = "next"
    /\ NextCluster(dir_cluster, dir_cluster')
    /\ dir_failed' = IF cached_fat_lba' = NoSector THEN dir_failed \union {"table"} ELSE dir_failed
    /\ dir_pc' = DirLoop(dir_cluster')
    /\ UNCHANGED <<task, fn, dir_buf, at, lfn_buf, has_lfn, result,
                   lastFileDimension, listed, seen>>

Walk ==
    \/ ReadCluster \/ EndMark \/ SkipEntry \/ LfnEntry
    \/ FoundEntry \/ OtherEntry \/ ListEntry \/ NextDir

DirNext == Walk \/ DirCall("list", <<>>) \/ \E f \in FileNames : DirCall("find", f)

DirSpec == DirInit /\ [][DirNext]_dir_vars
DirFairSpec == DirSpec /\ WF_dir_vars(Walk)

----------------------------------------------------------------------------
(* The directory as the card has it, apart from any walk: its n-th         *)
(* cluster, its k-th entry, and the long name of a file whose pieces are   *)
(* numbered as they should be.                                             *)
DirSpan == Len(card.fat)
dir_chain == ChainFrom(bpb.rc, card.fat, DirSpan)

EntryAt(k) ==
    LET c == dir_chain[k \div EntriesPerCluster]
    IN  IF c \in DOMAIN card.dir THEN card.dir[c][(k % EntriesPerCluster) + 1] ELSE EndEntry

(* The pieces directly before entry k. *)
PiecesBefore(k) == {j \in 0 .. (k - 1) : \A i \in j .. (k - 1) : EntryAt(i).kind = "lfn"}

LongName(k) ==
    LET m == CHOOSE n \in 0 .. k : PiecesBefore(k) = (k - n) .. (k - 1)
        letter(i) == EntryAt(k - 1 - (i - 1) \div Piece).piece[((i - 1) % Piece) + 1]
    IN  UpTo([i \in 1 .. (m * Piece) |-> letter(i)], Nul)

(* They are numbered from the file backwards and fit the buffer.           *)
WellNamed(k) ==
    /\ \A j \in PiecesBefore(k) : EntryAt(j).order = k - j /\ k - j <= MaxOrder
    /\ Len(LongName(k)) < LfnCells

(* f cut off where a short name ends.                                     *)
Shortened(s, n) == SubSeq(s, 1, IF Len(s) < n THEN Len(s) ELSE n)
Cut(f) ==
    LET base == UpTo(f, ".")
        ext == SubSeq(f, Len(base) + 2, Len(f))
    IN  Shortened(base, BaseLen)
        \o (IF ext = <<>> THEN <<>> ELSE <<".">> \o Shortened(ext, ExtLen))

NamedBy(f, k) ==
    LET e == EntryAt(k) IN
    \/ SameName(f, e.base \o e.ext) \/ SameName(f, ShortName(e))
    \/ ~ TakenWhole(f) /\ SameName(Cut(f), ShortName(e))
    \/ PiecesBefore(k) # {} /\ SameName(f, LongName(k))

Files(n) == {k \in 0 .. (n - 1) : EntryAt(k).kind = "file"}
RowsOf(n) ==
    LET rows[k \in 0 .. n] ==
            IF k = 0 THEN <<>>
            ELSE LET e == EntryAt(k - 1)
                 IN  IF e.kind # "file" THEN rows[k - 1]
                     ELSE Append(rows[k - 1],
                                 [cl |-> e.cl, size |-> e.size, short |-> ShortName(e),
                                  long |-> LongName(k - 1)])
    IN rows[n]

(* Every cluster of the directory has its entry in the table, and what is  *)
(* read where it lies is the cluster.                                      *)
DirIsWhole ==
    \A k \in 0 .. DirSpan :
        LET c == dir_chain[k]
        IN  InChain(c) => InTable(c) /\ DirContents(ClusterLba(c)) = {card.dir[c]}
                                    /\ c \in DOMAIN card.dir

(* Short names as FAT has them: in upper case, blanks only at their end.   *)
ShortPart(s) ==
    \A i \in DOMAIN s :
        /\ s[i] # "." /\ s[i] \notin DOMAIN UpperOf
        /\ s[i] = Blank => \A j \in DOMAIN s : j >= i => s[j] = Blank
NamesAreShort == \A k \in Files(SeenBound) : ShortPart(EntryAt(k).base) /\ ShortPart(EntryAt(k).ext)

AllWellNamed(n) == \A k \in Files(n) : WellNamed(k)

(* A search that nothing failed in answers with the first file of that     *)
(* name, long or short, over all the clusters of the directory, and with   *)
(* its size; it answers none only when there is none before the end of     *)
(* the directory (fat.c:364-443).  A name too long for a short one also    *)
(* finds the file whose short name it begins with.                         *)
FindsTheFile ==
    dir_pc = "out" /\ task = "find" /\ fn # <<>> /\ dir_failed = {} /\ AllWellNamed(seen + 1) =>
        /\ \A k \in Files(seen) : ~ NamedBy(fn, k)
        /\ IF EntryAt(seen).kind = "file"
           THEN /\ NamedBy(fn, seen)
                /\ result = EntryAt(seen).cl /\ lastFileDimension = EntryAt(seen).size
           ELSE EntryAt(seen).kind = "end" /\ result = 0

(* The listing has one line for each file passed, in the directory's       *)
(* order, each with the long name that is its own (fat.c:678-731).         *)
ListsTheDirectory ==
    task = "list" /\ dir_failed = {} /\ AllWellNamed(seen) => listed = RowsOf(seen)

(* A walk over a directory whose chain ends ends too, whatever data cannot *)
(* be read, unless the table could not be read on the way (fat.c:367, 668).*)
(* Then the walk goes on with the cluster that stands for the failure      *)
(* (fat.c:136, 439): where its address wraps round onto the card it may be *)
(* read for ever, while the table stays out of reach.  So may a directory  *)
(* whose chain comes back to itself without an end mark.                   *)
ChainEnds == \E n \in 0 .. DirSpan : ~ InChain(dir_chain[n])
WalksEnd == dir_pc # "out" /\ ChainEnds ~> dir_pc = "out" \/ "table" \in dir_failed
=============================================================================
