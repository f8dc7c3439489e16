------------------------------ MODULE FileBoot ------------------------------
(***************************************************************************)
(* bootFromFile (core/boot_mode/file_boot.c) among the other commands that *)
(* use the heap.  The card answers each search and each read in any way    *)
(* FatRead and fat_getcluster_ex allow: not found, found, read, truncated. *)
(*                                                                         *)
(* What a cell of memory holds is told apart only as kernel, device tree   *)
(* ("dtb"), a blob that has the magic and is no tree ("fake"), other blob, *)
(* something on the heap, zero, or anything at all ("junk").  A read of a  *)
(* file may write up to Padding cells past what was asked for (fat.c:567,  *)
(* see FatRead).                                                           *)
(***************************************************************************)
EXTENDS Heap

CONSTANTS
    KERNEL_LOAD_ADDR, DTB_LOAD_ADDR,
    DirSize,           \* cells of a directory cluster
    TestSize,          \* cells of testalloc's block
    Padding,           \* cells of a sector but one
    KernelSizes, DtbSizes, TextSizes   \* sizes of the files on the card

ASSUME HeapAssumption ==
    /\ Align \in Nat \ {0} /\ End \in Nat /\ MMIO_BASE \in Nat
    /\ End <= MMIO_BASE
    /\ \A n \in TextSizes \union {DirSize, TestSize} :
          n \in Nat /\ MMIO_BASE + n + 2 * Align < WordSpace
    /\ WordSpace \in Nat /\ Padding \in Nat

(* What file_boot.c takes for granted of the files: it holds no size       *)
(* against the end of the RAM or against the other file.  The search does  *)
(* not pass over directories, whose entries give the size 0.               *)
ASSUME FilesAssumption ==
    /\ KERNEL_LOAD_ADDR \in Nat /\ DTB_LOAD_ADDR \in Nat
    /\ \A n \in KernelSizes :
          n \in Nat /\ KERNEL_LOAD_ADDR + n + Padding <= MMIO_BASE
    /\ \A n \in DtbSizes :
          n \in Nat /\ DTB_LOAD_ADDR + n + Padding <= KERNEL_LOAD_ADDR

VARIABLES
    pc,                \* where bootFromFile is; "shell" when it is not running
    k_size, dtb_size,
    blob               \* what the device tree file really is

boot == <<pc, k_size, dtb_size, blob>>
vars == <<nextptr, mem, boot>>

PcValues == {"shell", "find_kernel", "find_dtb", "find_short", "read_kernel",
             "read_dtb", "magic", "find_cmdline", "update", "linux", "cat"}

Blobs == {"dtb", "fake", "blob"}
Content == {"junk", "zero", "heap", "kernel"} \union Blobs

TypeOK ==
    /\ nextptr \in Addr /\ mem \in [Addr -> Content]
    /\ pc \in PcValues
    /\ k_size \in KernelSizes \union {0} /\ dtb_size \in DtbSizes \union {0}
    /\ blob \in Blobs

Init ==
    /\ nextptr = End /\ mem = [a \in Addr |-> "junk"]
    /\ pc = "shell" /\ k_size = 0 /\ dtb_size = 0
    /\ blob \in Blobs

----------------------------------------------------------------------------
(* fat_getcluster_ex.  Each search takes a buffer of its own from the heap *)
(* and never gives it back.                                                *)
SearchFails ==
    \/ UNCHANGED <<nextptr, mem>>
    \/ AllocFails(DirSize)
    \/ \E used \in 0 .. DirSize : AllocAndFill(DirSize, used, "heap")

SearchFinds == AllocAndFill(DirSize, DirSize, "heap")

Return == pc' = "shell" /\ k_size' = 0 /\ dtb_size' = 0

(* fileboot, boot, or the serial timeout. *)
BootFromFile ==
    /\ pc = "shell" /\ pc' = "find_kernel"
    /\ UNCHANGED <<nextptr, mem, k_size, dtb_size, blob>>

FindKernel ==
    /\ pc = "find_kernel"
    /\ \/ /\ SearchFinds
          /\ k_size' \in KernelSizes /\ pc' = "find_dtb"
          /\ UNCHANGED dtb_size
       \/ SearchFails /\ Return
    /\ UNCHANGED blob

DtbFound == dtb_size' \in DtbSizes /\ UNCHANGED k_size

(* The name given, then the short name BCM270~7.DTB. *)
FindDtb ==
    /\ pc \in {"find_dtb", "find_short"}
    /\ \/ /\ SearchFinds
          /\ DtbFound /\ pc' = "read_kernel"
       \/ /\ SearchFails /\ pc = "find_dtb"
          /\ pc' = "find_short"
          /\ UNCHANGED <<k_size, dtb_size>>
       \/ SearchFails /\ pc = "find_short" /\ Return
    /\ UNCHANGED blob

(* fat_readfile_to reads the whole file to base, or only a part of it. *)
Loads(base, size, v) ==
    \E k \in 0 .. Padding : mem' = Filled(Block(base, size + k), v)
LoadsPart(base, size, v) ==
    \E n \in 0 .. (size - 1) : mem' = Filled(Block(base, n), v)

(* Mutant: a truncated kernel is taken. *)
ReadKernelAnyhow ==
    /\ pc = "read_kernel"
    /\ \/ Loads(KERNEL_LOAD_ADDR, k_size, "kernel")
       \/ LoadsPart(KERNEL_LOAD_ADDR, k_size, "kernel")
    /\ pc' = "read_dtb"
    /\ UNCHANGED <<nextptr, k_size, dtb_size, blob>>

ReadKernel ==
    /\ pc = "read_kernel"
    /\ \/ /\ Loads(KERNEL_LOAD_ADDR, k_size, "kernel")
          /\ pc' = "read_dtb"
          /\ UNCHANGED <<k_size, dtb_size>>
       \/ LoadsPart(KERNEL_LOAD_ADDR, k_size, "kernel") /\ Return
    /\ UNCHANGED <<nextptr, blob>>

ReadDtb ==
    /\ pc = "read_dtb"
    /\ \/ /\ Loads(DTB_LOAD_ADDR, dtb_size, blob)
          /\ pc' = "magic"
          /\ UNCHANGED <<k_size, dtb_size>>
       \/ LoadsPart(DTB_LOAD_ADDR, dtb_size, blob) /\ Return
    /\ UNCHANGED <<nextptr, blob>>

MagicThere == mem[DTB_LOAD_ADDR] \in {"dtb", "fake"}

CheckMagic ==
    /\ pc = "magic"
    /\ \/ /\ MagicThere /\ pc' = "find_cmdline"
          /\ UNCHANGED <<k_size, dtb_size>>
       \/ ~ MagicThere /\ Return
    /\ UNCHANGED <<nextptr, mem, blob>>

TreeThere ==
    dtb_size > 0 /\ \A a \in Block(DTB_LOAD_ADDR, dtb_size) : mem[a] = "dtb"

(* cmdline.txt is searched for, and read to the stack if it is there. *)
FindCmdline ==
    /\ pc = "find_cmdline"
    /\ SearchFinds \/ SearchFails
    /\ pc' = "update"
    /\ UNCHANGED <<k_size, dtb_size, blob>>

(* The updates change property values of a tree and no more (Fdt), and     *)
(* leave alone what has lost its magic; on anything else they go where its *)
(* offsets lead (fdt.c:17-37, 178-204), and nothing is known of the memory *)
(* any more.  Then the jump.                                               *)
Leave ==
    /\ pc = "update" /\ pc' = "linux"
    /\ \/ (MagicThere => TreeThere) /\ UNCHANGED mem
       \/ /\ MagicThere /\ ~ TreeThere
          /\ mem' = [a \in Addr |-> "junk"]
    /\ UNCHANGED <<nextptr, k_size, dtb_size, blob>>

----------------------------------------------------------------------------
(* The other commands that use the heap.                                   *)

(* ls, and a search by cat, hexcat or testfile that comes to nothing. *)
Search ==
    /\ pc = "shell"
    /\ SearchFails \/ SearchFinds
    /\ UNCHANGED boot

(* cat and hexcat take a second block, for the text. *)
Cat ==
    /\ pc = "shell" /\ pc' = "cat"
    /\ SearchFinds
    /\ UNCHANGED <<k_size, dtb_size, blob>>

CatReads ==
    /\ pc = "cat" /\ pc' = "shell"
    /\ \E n \in TextSizes :
          \/ AllocFails(n)
          \/ \E used \in 0 .. (n + Padding) : AllocAndFill(n, used, "heap")
    /\ UNCHANGED <<k_size, dtb_size, blob>>

TestAlloc ==
    /\ pc = "shell"
    /\ AllocAndFill(TestSize, TestSize, "heap") \/ AllocFails(TestSize)
    /\ UNCHANGED boot

MemReset ==
    /\ pc = "shell"
    /\ ResetMem
    /\ UNCHANGED boot

Next ==
    \/ BootFromFile \/ FindKernel \/ FindDtb \/ ReadKernel \/ ReadDtb
    \/ CheckMagic \/ FindCmdline \/ Leave
    \/ Search \/ Cat \/ CatReads \/ TestAlloc \/ MemReset

Spec == Init /\ [][Next]_vars

----------------------------------------------------------------------------
Loaded ==
    /\ \A a \in Block(KERNEL_LOAD_ADDR, k_size) : mem[a] = "kernel"
    /\ \A a \in Block(DTB_LOAD_ADDR, dtb_size) : mem[a] = "dtb"

(* README.md:256-260: blocks are checked against the MMIO boundary.  The   *)
(* heap stays between its ends, and neither alloc's clearing nor memreset, *)
(* nor a load of a file that fits, reaches the peripherals.  What cat and  *)
(* hexcat read does: the rest of the last sector (fat.c:567) spills over   *)
(* the end of the last block, but never a whole sector.  (Of what the      *)
(* updates of something that is no tree write, nothing is said.)           *)
SpillsOnlyASector ==
    /\ End <= nextptr /\ nextptr <= MMIO_BASE
    /\ pc # "linux" =>
          \A a \in Addr : a >= MMIO_BASE /\ mem[a] # "junk" =>
              a < MMIO_BASE + Padding /\ mem[a] = "heap"

(* With a heap that ends below the device tree, Linux gets a blob that has *)
(* the magic, and if it is a tree both files, whole and as they were       *)
(* checked, however many boots were given up before and whatever was       *)
(* cleared in between (file_boot.c:56-125).  A tree of size 0 loads        *)
(* nothing, and what an earlier boot left there is checked in its place.   *)
BootsWhatItLoaded ==
    pc = "linux" /\ nextptr <= DTB_LOAD_ADDR /\ dtb_size > 0 =>
        blob # "blob" /\ (blob = "dtb" => Loaded)
=============================================================================
