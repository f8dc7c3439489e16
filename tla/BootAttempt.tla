---------------------------- MODULE BootAttempt ----------------------------
(***************************************************************************)
(* What one attempt at loading Linux promises, whatever carries the bytes: *)
(* what arrives is written only inside a region that was admitted first, an*)
(* admitted region lies in RAM, the two regions of an attempt are          *)
(* disjoint, each is filled in order and completely, and the processor     *)
(* leaves for Linux only when both are full and the blob starts with the   *)
(* device-tree magic.  What is written into the blob before it leaves stays*)
(* in it, behind the magic, if the blob is a device tree; if it only has   *)
(* the magic there is no such promise.  Addresses here are plain numbers:  *)
(* nothing wraps.                                                          *)
(*                                                                         *)
(* SerialDevice implements this specification (bootFromSerial).            *)
(***************************************************************************)
EXTENDS Integers

CONSTANTS
    Byte,              \* the values of a memory cell
    Addr,              \* every address the processor can form
    KernelBase,        \* where the kernel is loaded
    DtbBase,           \* where the device tree is loaded
    MemoryEnd,         \* first address past the RAM
    Magic,             \* the first cells of a device tree, indexed from 0
    Trees              \* the blobs that are device trees

VARIABLES
    stage,             \* how far the attempt has come
    kernel,            \* set of addresses admitted for the kernel
    dtb,               \* set of addresses admitted for the device tree
    filled,            \* cells of the region being filled that hold data
    mem                \* the memory

vars == <<stage, kernel, dtb, filled, mem>>

Region(base, n) == base .. (base + n - 1)

Ram == {a \in Addr : a < MemoryEnd}

HasMagic(m) == \A j \in DOMAIN Magic : m[DtbBase + j] = Magic[j]

Init ==
    /\ stage = "idle"
    /\ kernel = {} /\ dtb = {} /\ filled = 0
    /\ mem \in [Addr -> Byte]

Begin ==
    /\ stage = "idle"
    /\ stage' = "open"
    /\ UNCHANGED <<kernel, dtb, filled, mem>>

AdmitKernel(n) ==
    /\ stage = "open"
    /\ kernel' = Region(KernelBase, n)
    /\ kernel' \subseteq Ram
    /\ stage' = "kernel" /\ filled' = 0
    /\ UNCHANGED <<dtb, mem>>

AdmitDtb(n) ==
    /\ stage = "kernelFull"
    /\ dtb' = Region(DtbBase, n)
    /\ dtb' \subseteq Ram
    /\ dtb' \cap kernel = {}
    /\ stage' = "dtb" /\ filled' = 0
    /\ UNCHANGED <<kernel, mem>>

(* The next cell of the region being filled receives its byte; the stage   *)
(* ends with the cell that makes the region full, and not before.          *)
Fill(here, base, region, full, b) ==
    LET cell == base + filled IN
    /\ stage = here
    /\ cell \in region
    /\ mem' = [mem EXCEPT ![cell] = b]
    /\ filled' = filled + 1
    /\ stage' = IF cell + 1 \in region THEN here ELSE full
    /\ UNCHANGED <<kernel, dtb>>

FillKernel(b) == Fill("kernel", KernelBase, kernel, "kernelFull", b)
FillDtb(b) == Fill("dtb", DtbBase, dtb, "dtbFull", b)

Verify ==
    /\ stage = "dtbFull" /\ HasMagic(mem)
    /\ stage' = "verified"
    /\ UNCHANGED <<kernel, dtb, filled, mem>>

Blob == [j \in 1 .. filled |-> mem[DtbBase + j - 1]]

(* The boot arguments and the memory size are written into the device tree *)
(* and the processor leaves for Linux.                                     *)
Leave ==
    /\ stage = "verified"
    /\ stage' = "linux"
    /\ mem' \in [Addr -> Byte]
    /\ Blob \in Trees =>
          HasMagic(mem') /\ \A a \in Addr : mem'[a] # mem[a] => a \in dtb
    /\ UNCHANGED <<kernel, dtb, filled>>

(* An attempt can be refused or abandoned until the tree is verified; the *)
(* next one begins with nothing admitted.                                 *)
GiveUp ==
    /\ stage \notin {"idle", "verified", "linux"}
    /\ stage' = "idle"
    /\ kernel' = {} /\ dtb' = {} /\ filled' = 0
    /\ UNCHANGED mem

Next ==
    \/ Begin \/ Verify \/ Leave \/ GiveUp
    \/ \E n \in 1 .. MemoryEnd : AdmitKernel(n) \/ AdmitDtb(n)
    \/ \E b \in Byte : FillKernel(b) \/ FillDtb(b)

Spec == Init /\ [][Next]_vars
=============================================================================
