--------------------------- MODULE FileBootProofs ---------------------------
(***************************************************************************)
(* What FileBoot keeps for every layout of the memory and any files that   *)
(* fit where they are loaded; and of the two updates of the device tree    *)
(* that bootFromFile ends with, Fdt's, what they keep for every tree laid  *)
(* out as dtc does.                                                        *)
(***************************************************************************)
EXTENDS FileBoot, Fdt, SequenceTheorems, WellFoundedInduction, TLAPS

(* Both regions lie below the peripherals, and the device tree below the    *)
(* kernel, as they do in defs.h.                                           *)
LEMMA Constants ==
    /\ Align \in Nat /\ Align > 0
    /\ End \in Nat /\ MMIO_BASE \in Nat /\ WordSpace \in Nat /\ End <= MMIO_BASE
    /\ KERNEL_LOAD_ADDR \in Nat /\ DTB_LOAD_ADDR \in Nat /\ Padding \in Nat
BY HeapAssumption, FilesAssumption

LEMMA Remainder ==
    ASSUME NEW m \in Nat, NEW d \in Nat, d > 0
    PROVE  m % d \in 0 .. (d - 1)
BY SMT

(* Rounding up does not lose anything, and adds less than Align. *)
LEMMA AlignedBounds ==
    ASSUME NEW n \in Nat, n + Align <= WordSpace
    PROVE  /\ Aligned(n) \in Nat
           /\ n <= Aligned(n) /\ Aligned(n) < n + Align
<1> DEFINE m == n + Align - 1
<1>1. Align \in Nat /\ Align > 0 /\ WordSpace \in Nat
  BY Constants
<1>2. m \in Nat /\ m < WordSpace
  BY <1>1
<1>3. m % WordSpace = m
  BY <1>1, <1>2, SMT
<1>4. m % Align \in 0 .. (Align - 1)
  BY <1>1, <1>2, Remainder
<1>5. Aligned(n) = m - (m % Align)
  BY <1>3 DEF Aligned
<1>. QED
  BY <1>1, <1>2, <1>4, <1>5

----------------------------------------------------------------------------
(* The invariant: where the heap is, and what is in memory at each point   *)
(* of a boot.  The device tree can still be lost while bootFromFile looks  *)
(* for cmdline.txt, but only to a heap that has reached it.                *)
KernelThere == \A a \in Block(KERNEL_LOAD_ADDR, k_size) : mem[a] = "kernel"
BlobThere == \A a \in Block(DTB_LOAD_ADDR, dtb_size) : mem[a] = blob

HeapInv == nextptr \in Nat /\ End <= nextptr /\ nextptr <= MMIO_BASE

StageInv ==
    /\ pc \in {"find_dtb", "find_short"} => k_size \in KernelSizes
    /\ pc \in {"read_kernel", "read_dtb", "magic", "find_cmdline", "update",
               "linux"} => k_size \in KernelSizes /\ dtb_size \in DtbSizes
    /\ pc \in {"read_dtb", "magic", "find_cmdline"} => KernelThere
    /\ pc \in {"magic", "find_cmdline"} => BlobThere
    /\ pc \in {"find_cmdline", "update", "linux"} /\ dtb_size > 0 => blob # "blob"

SpillIsText ==
    \A a \in Addr : a >= MMIO_BASE /\ mem[a] # "junk" =>
        a < MMIO_BASE + Padding /\ mem[a] = "heap"

BootsAtUpdate ==
    pc \in {"update", "linux"} /\ nextptr <= DTB_LOAD_ADDR /\ dtb_size > 0 /\ blob = "dtb"
        => Loaded

Inv ==
    /\ TypeOK /\ HeapInv /\ StageInv /\ BootsAtUpdate
    /\ pc # "linux" => SpillIsText

(* What an allocation does to the heap and the memory, if what is put into *)
(* the block is text that goes at most pad cells past its end.             *)
HeapGrows(pad) ==
    /\ nextptr' \in Nat /\ nextptr <= nextptr' /\ nextptr' <= MMIO_BASE
    /\ mem' \in [Addr -> Content]
    /\ \A a \in Addr : a < nextptr \/ nextptr' + pad <= a => mem'[a] = mem[a]
    /\ \A a \in Addr : nextptr' <= a => mem'[a] \in {mem[a], "heap"}

LEMMA BlockSize ==
    ASSUME NEW n \in TextSizes \union {DirSize, TestSize}
    PROVE  n \in Nat /\ MMIO_BASE + n + 2 * Align < WordSpace
BY HeapAssumption

LEMMA AllocGrows ==
    ASSUME HeapInv, mem \in [Addr -> Content],
           NEW n \in TextSizes \union {DirSize, TestSize},
           NEW pad \in Nat, NEW used \in 0 .. (n + pad),
           AllocAndFill(n, used, "heap")
    PROVE  HeapGrows(pad)
<1> DEFINE top == NewPtr + Aligned(n)
<1>1. /\ Align \in Nat /\ Align > 0 /\ WordSpace \in Nat /\ MMIO_BASE \in Nat
      /\ n \in Nat /\ MMIO_BASE + n + 2 * Align < WordSpace
      /\ nextptr \in Nat /\ nextptr <= MMIO_BASE
  BY Constants, BlockSize DEF HeapInv
<1>2. NewPtr \in Nat /\ nextptr <= NewPtr /\ NewPtr < nextptr + Align
  <2>1. nextptr + Align <= WordSpace
    BY <1>1
  <2>. QED  BY <1>1, <2>1, AlignedBounds DEF NewPtr
<1>3. Aligned(n) \in Nat /\ n <= Aligned(n) /\ Aligned(n) < n + Align
  <2>1. n + Align <= WordSpace
    BY <1>1
  <2>. QED  BY <1>1, <2>1, AlignedBounds
<1>4. top \in Nat /\ top < WordSpace
  BY <1>1, <1>2, <1>3
<1>5. top % WordSpace = top
  BY <1>1, <1>4, SMT
<1>6. nextptr' = top /\ top <= MMIO_BASE
  BY <1>5 DEF AllocAndFill, AllocFits
<1>7. mem' = [a \in Addr |->
                 IF a \in Block(NewPtr, used) THEN "heap"
                 ELSE IF a \in Block(NewPtr, Aligned(n)) THEN "zero"
                 ELSE mem[a]]
  BY DEF AllocAndFill
<1>8. mem' \in [Addr -> Content]
  BY <1>7 DEF Content
<1>9. ASSUME NEW a \in Addr, a < nextptr \/ top + pad <= a
      PROVE  mem'[a] = mem[a]
  <2>1. a \in Int
    BY <1>1 DEF Addr
  <2>2. a \notin Block(NewPtr, used) /\ a \notin Block(NewPtr, Aligned(n))
    BY <1>1, <1>2, <1>3, <1>9, <2>1 DEF Block
  <2>. QED  BY <1>7, <2>2
<1>10. ASSUME NEW a \in Addr, top <= a
       PROVE  mem'[a] \in {mem[a], "heap"}
  <2>1. a \in Int
    BY <1>1 DEF Addr
  <2>2. a \notin Block(NewPtr, Aligned(n))
    BY <1>1, <1>2, <1>3, <1>10, <2>1 DEF Block
  <2>. QED  BY <1>7, <2>2
<1>. QED
  <2>1. top \in Nat /\ nextptr <= top
    BY <1>1, <1>2, <1>3
  <2>. QED  BY <1>6, <1>8, <1>9, <1>10, <2>1 DEF HeapGrows

LEMMA SearchGrows ==
    ASSUME HeapInv, mem \in [Addr -> Content], SearchFails \/ SearchFinds
    PROVE  HeapGrows(0)
<1>1. CASE UNCHANGED <<nextptr, mem>>
  <2>1. nextptr \in Nat /\ nextptr <= nextptr /\ nextptr <= MMIO_BASE
    BY Constants DEF HeapInv
  <2>. QED  BY <1>1, <2>1 DEF HeapGrows
<1>2. CASE \E used \in 0 .. DirSize : AllocAndFill(DirSize, used, "heap")
  <2>1. PICK used \in 0 .. DirSize : AllocAndFill(DirSize, used, "heap")
    BY <1>2
  <2>2. DirSize \in Nat
    BY BlockSize
  <2>3. "heap" \in Content /\ 0 \in Nat /\ used \in 0 .. (DirSize + 0)
    BY <2>2 DEF Content
  <2>. QED  BY <2>1, <2>3, AllocGrows
<1>3. DirSize \in 0 .. DirSize
  <2>1. DirSize \in Nat
    BY BlockSize
  <2>. QED  BY <2>1
<1>. QED
  BY <1>1, <1>2, <1>3 DEF SearchFails, SearchFinds, AllocFails

----------------------------------------------------------------------------
(* What each kind of step keeps of the invariant. *)
Bottom == HeapInv /\ SpillIsText /\ nextptr \in Addr /\ mem \in [Addr -> Content]

LEMMA AddrBounds ==
    ASSUME NEW a \in Nat, a <= MMIO_BASE
    PROVE  a \in Addr
<1>1. DirSize \in Nat /\ MMIO_BASE + DirSize + 2 * Align < WordSpace
  BY BlockSize
<1>. QED
  BY <1>1, Constants DEF Addr

LEMMA GrowsKeepsBottom ==
    ASSUME Bottom, NEW pad \in 0 .. Padding, HeapGrows(pad)
    PROVE  Bottom'
<1>1. HeapInv'
  <2>1. PICK top \in Nat : top = nextptr' /\ nextptr <= top /\ top <= MMIO_BASE
    BY DEF HeapGrows
  <2>2. End <= top
    BY <2>1, Constants DEF Bottom, HeapInv
  <2>. QED  BY <2>1, <2>2 DEF HeapInv
<1>2. nextptr' \in Addr
  BY AddrBounds DEF HeapGrows
<1>3. SpillIsText'
  <2> SUFFICES ASSUME NEW a \in Addr, a >= MMIO_BASE, mem'[a] # "junk"
               PROVE  a < MMIO_BASE + Padding /\ mem'[a] = "heap"
    BY DEF SpillIsText
  <2>1. PICK top \in Nat : top = nextptr' /\ top <= MMIO_BASE
    BY DEF HeapGrows
  <2>2. a \in Int /\ MMIO_BASE \in Int /\ Padding \in Int
    BY Constants DEF Addr
  <2>3. pad \in Int /\ pad <= Padding /\ top \in Int /\ top <= MMIO_BASE
    BY <2>1, Constants
  <2>4. mem'[a] \in {mem[a], "heap"}
    BY <2>1, <2>2, <2>3 DEF HeapGrows
  <2>5. a >= MMIO_BASE + Padding => mem'[a] = mem[a]
    <3>1. a >= MMIO_BASE + Padding => top + pad <= a
      BY <2>2, <2>3
    <3>. QED  BY <2>1, <3>1 DEF HeapGrows
  <2>6. mem[a] # "junk" => a < MMIO_BASE + Padding /\ mem[a] = "heap"
    BY DEF Bottom, SpillIsText
  <2>. QED  BY <2>2, <2>4, <2>5, <2>6
<1>. QED
  BY <1>1, <1>2, <1>3 DEF Bottom, HeapGrows

(* A block of cells below the peripherals is written, the heap stays. *)
LEMMA FillKeepsBottom ==
    ASSUME Bottom, UNCHANGED nextptr,
           NEW base \in Nat, NEW n \in Nat, base + n <= MMIO_BASE,
           NEW v \in Content,
           mem' = Filled(Block(base, n), v)
    PROVE  Bottom'
<1>1. mem' \in [Addr -> Content]
  BY DEF Filled, Bottom
<1>2. SpillIsText'
  <2> SUFFICES ASSUME NEW a \in Addr, a >= MMIO_BASE
               PROVE  mem'[a] = mem[a]
    BY DEF Bottom, SpillIsText
  <2>1. a \notin Block(base, n)
    BY Constants DEF Block, Addr
  <2>. QED  BY <2>1 DEF Filled
<1>. QED
  BY <1>1, <1>2 DEF Bottom, HeapInv

(* What lies above a heap that only grows to below it stays as it is. *)
LEMMA GrowsBelow ==
    ASSUME Bottom, HeapGrows(0), NEW base \in Nat, NEW n \in Nat,
           nextptr' <= base, NEW a \in Block(base, n)
    PROVE  mem'[a] = mem[a]
<1>1. PICK top \in Nat : top = nextptr' /\ top <= base
  BY DEF HeapGrows
<1>2. a \in Addr /\ top <= a
  BY <1>1, Constants DEF Block, Addr
<1>. QED
  BY <1>1, <1>2 DEF HeapGrows

LEMMA Files ==
    /\ \A n \in KernelSizes :
          n \in Nat /\ KERNEL_LOAD_ADDR + n + Padding <= MMIO_BASE
    /\ \A n \in DtbSizes :
          n \in Nat /\ DTB_LOAD_ADDR + n + Padding <= KERNEL_LOAD_ADDR
BY FilesAssumption

----------------------------------------------------------------------------
(* The invariant is inductive: one step per action.                        *)

LEMMA InitInv == Init => Inv
<1> SUFFICES ASSUME Init
             PROVE  Inv
  OBVIOUS
<1>1. nextptr = End /\ mem = [a \in Addr |-> "junk"] /\ pc = "shell"
      /\ k_size = 0 /\ dtb_size = 0 /\ blob \in Blobs
  BY DEF Init
<1>2. HeapInv
  BY <1>1, Constants DEF HeapInv
<1>3. nextptr \in Addr
  BY <1>2, AddrBounds DEF HeapInv
<1>4. TypeOK
  BY <1>1, <1>3 DEF TypeOK, PcValues, Content
<1>5. SpillIsText
  BY <1>1 DEF SpillIsText
<1>6. StageInv /\ BootsAtUpdate
  BY <1>1 DEF StageInv, BootsAtUpdate
<1>. QED
  BY <1>2, <1>4, <1>5, <1>6 DEF Inv

LEMMA InvBottom == Inv /\ pc # "linux" => Bottom
BY DEF Inv, Bottom, TypeOK

(* A step back to the shell, or one that stays there, has only the heap    *)
(* and the memory to account for.                                          *)
LEMMA EarlyInv ==
    ASSUME Bottom', pc' \in {"shell", "find_kernel", "cat"},
           k_size' \in KernelSizes \union {0},
           dtb_size' \in DtbSizes \union {0},
           blob' \in Blobs
    PROVE  Inv'
<1>1. TypeOK'
  BY DEF Bottom, TypeOK, PcValues
<1>2. StageInv' /\ BootsAtUpdate'
  BY DEF StageInv, BootsAtUpdate
<1>. QED
  BY <1>1, <1>2 DEF Inv, Bottom

LEMMA SearchKeepsBottom ==
    ASSUME Inv, pc # "linux", SearchFails \/ SearchFinds
    PROVE  Bottom' /\ HeapGrows(0)
<1>1. Bottom
  BY InvBottom
<1>2. HeapGrows(0)
  BY <1>1, SearchGrows DEF Bottom
<1>3. 0 \in 0 .. Padding
  BY Constants
<1>. QED
  BY <1>1, <1>2, <1>3, GrowsKeepsBottom

LEMMA AllocKeepsBottom ==
    ASSUME Inv, pc # "linux", NEW n \in TextSizes \union {DirSize, TestSize},
           NEW used \in 0 .. (n + Padding),
           AllocAndFill(n, used, "heap") \/ AllocFails(n)
    PROVE  Bottom'
<1>1. Bottom
  BY InvBottom
<1>2. CASE AllocAndFill(n, used, "heap")
  <2>1. "heap" \in Content /\ Padding \in Nat /\ Padding \in 0 .. Padding
    BY Constants DEF Content
  <2>2. HeapGrows(Padding)
    BY <1>1, <1>2, <2>1, AllocGrows DEF Bottom
  <2>. QED  BY <1>1, <2>1, <2>2, GrowsKeepsBottom
<1>3. CASE AllocFails(n)
  BY <1>1, <1>3 DEF AllocFails, Bottom, HeapInv, SpillIsText
<1>. QED
  BY <1>2, <1>3

LEMMA ResetKeepsBottom ==
    ASSUME Inv, pc # "linux", ResetMem
    PROVE  Bottom'
<1> DEFINE cells == Block(End, nextptr - End)
<1>1. Bottom
  BY InvBottom
<1>2. mem' = Filled(cells, "zero") /\ nextptr' = End
  BY DEF ResetMem
<1>3. nextptr \in Nat /\ nextptr <= MMIO_BASE
  BY <1>1 DEF Bottom, HeapInv
<1>4. HeapInv' /\ nextptr' \in Addr
  BY <1>2, Constants, AddrBounds DEF HeapInv
<1>5. mem' \in [Addr -> Content]
  BY <1>1, <1>2 DEF Bottom, Filled, Content
<1>6. SpillIsText'
  <2> SUFFICES ASSUME NEW a \in Addr, a >= MMIO_BASE
               PROVE  mem'[a] = mem[a]
    BY <1>1 DEF Bottom, SpillIsText
  <2>1. a \notin cells
    BY <1>3, Constants DEF Block, Addr
  <2>. QED  BY <1>2, <2>1 DEF Filled
<1>. QED
  BY <1>4, <1>5, <1>6 DEF Bottom

(* Loading a file, or a part of it, at one of the two addresses. *)
LEMMA LoadKeepsBottom ==
    ASSUME Inv, pc # "linux", UNCHANGED nextptr,
           NEW base \in Nat, NEW n \in Nat, base + n + Padding <= MMIO_BASE,
           NEW v \in Content,
           Loads(base, n, v) \/ LoadsPart(base, n, v)
    PROVE  Bottom'
<1>1. Bottom
  BY InvBottom
<1>2. PICK k \in 0 .. (n + Padding) : mem' = Filled(Block(base, k), v)
  <2>1. CASE Loads(base, n, v)
    <3>1. PICK z \in 0 .. Padding : mem' = Filled(Block(base, n + z), v)
      BY <2>1 DEF Loads
    <3>2. n + z \in 0 .. (n + Padding)
      BY Constants
    <3>. QED  BY <3>1, <3>2
  <2>2. CASE LoadsPart(base, n, v)
    <3>1. PICK z \in 0 .. (n - 1) : mem' = Filled(Block(base, z), v)
      BY <2>2 DEF LoadsPart
    <3>2. z \in 0 .. (n + Padding)
      BY Constants
    <3>. QED  BY <3>1, <3>2
  <2>. QED  BY <2>1, <2>2
<1>3. k \in Nat /\ base + k <= MMIO_BASE
  BY Constants
<1>. QED
  BY <1>1, <1>2, <1>3, FillKeepsBottom

LEMMA InvStep == Inv /\ [Next]_vars => Inv'
<1> SUFFICES ASSUME Inv, [Next]_vars
             PROVE  Inv'
  OBVIOUS
<1>0. /\ pc # "linux" => Bottom
      /\ k_size \in KernelSizes \union {0} /\ dtb_size \in DtbSizes \union {0}
      /\ blob \in Blobs
  BY InvBottom DEF Inv, TypeOK
<1>1. CASE BootFromFile
  <2>1. Bottom'
    BY <1>0, <1>1 DEF BootFromFile, Bottom, HeapInv, SpillIsText
  <2>. QED  BY <1>0, <1>1, <2>1, EarlyInv DEF BootFromFile
<1>2. CASE FindKernel
  <2>1. Bottom'
    BY <1>2, SearchKeepsBottom DEF FindKernel
  <2>2. CASE Return
    BY <1>0, <1>2, <2>1, <2>2, EarlyInv DEF FindKernel, Return
  <2>3. CASE k_size' \in KernelSizes /\ pc' = "find_dtb" /\ UNCHANGED dtb_size
    <3>1. blob' = blob
      BY <1>2 DEF FindKernel
    <3>2. TypeOK'
      BY <1>0, <2>1, <2>3, <3>1 DEF TypeOK, PcValues, Bottom
    <3>3. StageInv' /\ BootsAtUpdate'
      BY <2>3 DEF StageInv, BootsAtUpdate
    <3>. QED  BY <2>1, <3>2, <3>3 DEF Inv, Bottom
  <2>. QED  BY <1>2, <2>2, <2>3 DEF FindKernel
<1>3. CASE FindDtb
  <2>1. Bottom'
    BY <1>3, SearchKeepsBottom DEF FindDtb
  <2>2. k_size \in KernelSizes /\ blob' = blob
    BY <1>3 DEF FindDtb, Inv, StageInv
  <2>3. CASE Return
    BY <1>0, <2>1, <2>2, <2>3, EarlyInv DEF Return
  <2>4. CASE DtbFound /\ pc' = "read_kernel"
    <3>1. dtb_size' \in DtbSizes /\ k_size' = k_size
      BY <2>4 DEF DtbFound
    <3>2. TypeOK'
      BY <1>0, <2>1, <2>2, <2>4, <3>1 DEF TypeOK, PcValues, Bottom
    <3>3. StageInv' /\ BootsAtUpdate'
      BY <2>2, <2>4, <3>1 DEF StageInv, BootsAtUpdate
    <3>. QED  BY <2>1, <3>2, <3>3 DEF Inv, Bottom
  <2>5. CASE pc' = "find_short" /\ UNCHANGED <<k_size, dtb_size>>
    <3>1. TypeOK'
      BY <1>0, <2>1, <2>2, <2>5 DEF TypeOK, PcValues, Bottom
    <3>2. StageInv' /\ BootsAtUpdate'
      BY <2>2, <2>5 DEF StageInv, BootsAtUpdate
    <3>. QED  BY <2>1, <3>1, <3>2 DEF Inv, Bottom
  <2>. QED  BY <1>3, <2>3, <2>4, <2>5 DEF FindDtb
<1>4. CASE ReadKernel
  <2>1. k_size \in KernelSizes /\ dtb_size \in DtbSizes
    BY <1>4 DEF ReadKernel, Inv, StageInv
  <2>2. k_size \in Nat /\ KERNEL_LOAD_ADDR + k_size + Padding <= MMIO_BASE
    BY <2>1, Files
  <2>3. nextptr' = nextptr /\ blob' = blob
    BY <1>4 DEF ReadKernel
  <2>4. "kernel" \in Content
    BY DEF Content
  <2>5. Bottom'
    BY <1>4, <2>2, <2>3, <2>4, Constants, LoadKeepsBottom DEF ReadKernel
  <2>6. CASE Return
    BY <1>0, <2>3, <2>5, <2>6, EarlyInv DEF Return
  <2>7. CASE /\ Loads(KERNEL_LOAD_ADDR, k_size, "kernel") /\ pc' = "read_dtb"
             /\ UNCHANGED <<k_size, dtb_size>>
    <3>1. TypeOK'
      BY <1>0, <2>3, <2>5, <2>7 DEF TypeOK, PcValues, Bottom
    <3>2. KernelThere'
      <4>1. PICK k \in 0 .. Padding :
              mem' = Filled(Block(KERNEL_LOAD_ADDR, k_size + k), "kernel")
        BY <2>7 DEF Loads
      <4>2. \A a \in Block(KERNEL_LOAD_ADDR, k_size) : mem'[a] = "kernel"
        BY <2>2, <4>1, Constants DEF Filled, Block, Addr
      <4>. QED  BY <2>7, <4>2 DEF KernelThere, Block
    <3>3. StageInv' /\ BootsAtUpdate'
      BY <2>1, <2>7, <3>2 DEF StageInv, BootsAtUpdate
    <3>. QED  BY <2>5, <3>1, <3>3 DEF Inv, Bottom
  <2>. QED  BY <1>4, <2>6, <2>7 DEF ReadKernel
<1>5. CASE ReadDtb
  <2>1. k_size \in KernelSizes /\ dtb_size \in DtbSizes /\ KernelThere
    BY <1>5 DEF ReadDtb, Inv, StageInv
  <2>2. /\ k_size \in Nat /\ KERNEL_LOAD_ADDR + k_size + Padding <= MMIO_BASE
        /\ dtb_size \in Nat
        /\ DTB_LOAD_ADDR + dtb_size + Padding <= KERNEL_LOAD_ADDR
    BY <2>1, Files
  <2>3. DTB_LOAD_ADDR + dtb_size + Padding <= MMIO_BASE
    BY <2>2, Constants
  <2>4. nextptr' = nextptr /\ blob' = blob /\ blob \in Content
    BY <1>0, <1>5 DEF ReadDtb, Content, Blobs
  <2>5. Bottom'
    BY <1>5, <2>2, <2>3, <2>4, Constants, LoadKeepsBottom DEF ReadDtb
  <2>6. CASE Return
    BY <1>0, <2>4, <2>5, <2>6, EarlyInv DEF Return
  <2>7. CASE /\ Loads(DTB_LOAD_ADDR, dtb_size, blob) /\ pc' = "magic"
             /\ UNCHANGED <<k_size, dtb_size>>
    <3>1. TypeOK'
      BY <1>0, <2>4, <2>5, <2>7 DEF TypeOK, PcValues, Bottom
    <3>2. PICK k \in 0 .. Padding :
            mem' = Filled(Block(DTB_LOAD_ADDR, dtb_size + k), blob)
      BY <2>7 DEF Loads
    <3>3. BlobThere'
      <4>1. \A a \in Block(DTB_LOAD_ADDR, dtb_size) : mem'[a] = blob
        BY <2>2, <3>2, Constants DEF Filled, Block, Addr
      <4>. QED  BY <2>4, <2>7, <4>1 DEF BlobThere, Block
    <3>4. KernelThere'
      <4>1. ASSUME NEW a \in Block(KERNEL_LOAD_ADDR, k_size)
            PROVE  mem'[a] = "kernel"
        <5>1. a \in Addr /\ a \notin Block(DTB_LOAD_ADDR, dtb_size + k)
          BY <2>2, <3>2, Constants DEF Block, Addr
        <5>2. mem'[a] = mem[a]
          BY <3>2, <5>1 DEF Filled
        <5>. QED  BY <2>1, <5>2 DEF KernelThere
      <4>. QED  BY <2>7, <4>1 DEF KernelThere, Block
    <3>5. StageInv' /\ BootsAtUpdate'
      BY <2>1, <2>7, <3>3, <3>4 DEF StageInv, BootsAtUpdate
    <3>. QED  BY <2>5, <3>1, <3>5 DEF Inv, Bottom
  <2>. QED  BY <1>5, <2>6, <2>7 DEF ReadDtb
<1>6. CASE CheckMagic
  <2>1. /\ k_size \in KernelSizes /\ dtb_size \in DtbSizes
        /\ KernelThere /\ BlobThere
    BY <1>6 DEF CheckMagic, Inv, StageInv
  <2>2. nextptr' = nextptr /\ mem' = mem /\ blob' = blob /\ pc = "magic"
    BY <1>6 DEF CheckMagic
  <2>3. Bottom'
    BY <1>0, <2>2 DEF Bottom, HeapInv, SpillIsText
  <2>4. CASE Return
    BY <1>0, <2>2, <2>3, <2>4, EarlyInv DEF Return
  <2>5. CASE /\ MagicThere /\ pc' = "find_cmdline"
             /\ UNCHANGED <<k_size, dtb_size>>
    <3>1. TypeOK'
      BY <1>0, <2>2, <2>3, <2>5 DEF TypeOK, PcValues, Bottom
    <3>2. ASSUME dtb_size > 0
          PROVE  DTB_LOAD_ADDR \in Block(DTB_LOAD_ADDR, dtb_size)
      <4>1. /\ dtb_size \in Nat
            /\ DTB_LOAD_ADDR + dtb_size + Padding <= KERNEL_LOAD_ADDR
            /\ KERNEL_LOAD_ADDR + k_size + Padding <= MMIO_BASE /\ k_size \in Nat
        BY <2>1, Files
      <4>2. DTB_LOAD_ADDR \in Addr
        BY <4>1, Constants, AddrBounds
      <4>. QED  BY <3>2, <4>1, <4>2, Constants DEF Block
    <3>3. dtb_size > 0 => blob # "blob"
      <4>1. dtb_size > 0 => mem[DTB_LOAD_ADDR] = blob
        BY <2>1, <3>2 DEF BlobThere
      <4>. QED  BY <2>5, <4>1 DEF MagicThere
    <3>4. KernelThere' /\ BlobThere'
      BY <2>1, <2>2, <2>5 DEF KernelThere, BlobThere, Block
    <3>5. StageInv' /\ BootsAtUpdate'
      BY <2>1, <2>2, <2>5, <3>3, <3>4 DEF StageInv, BootsAtUpdate
    <3>. QED  BY <2>3, <3>1, <3>5 DEF Inv, Bottom
  <2>. QED  BY <1>6, <2>4, <2>5 DEF CheckMagic
<1>7. CASE FindCmdline
  <2>1. /\ k_size \in KernelSizes /\ dtb_size \in DtbSizes
        /\ KernelThere /\ BlobThere /\ (dtb_size > 0 => blob # "blob")
    BY <1>7 DEF FindCmdline, Inv, StageInv
  <2>2. Bottom' /\ HeapGrows(0)
    BY <1>7, SearchKeepsBottom DEF FindCmdline
  <2>3. /\ k_size' = k_size /\ dtb_size' = dtb_size /\ blob' = blob
        /\ pc' = "update"
    BY <1>7 DEF FindCmdline
  <2>4. TypeOK'
    BY <1>0, <2>2, <2>3 DEF TypeOK, PcValues, Bottom
  <2>5. StageInv'
    BY <2>1, <2>3 DEF StageInv
  <2>6. ASSUME nextptr' <= DTB_LOAD_ADDR, blob = "dtb"
        PROVE  Loaded'
    <3>1. k_size \in Nat /\ dtb_size \in Nat
          /\ DTB_LOAD_ADDR + dtb_size + Padding <= KERNEL_LOAD_ADDR
      BY <2>1, Files
    <3>2. \A a \in Block(DTB_LOAD_ADDR, dtb_size) : mem'[a] = "dtb"
      <4> SUFFICES ASSUME NEW a \in Block(DTB_LOAD_ADDR, dtb_size)
                   PROVE  mem'[a] = "dtb"
        OBVIOUS
      <4>1. mem'[a] = mem[a]
        BY <1>0, <1>7, <2>2, <2>6, <3>1, Constants, GrowsBelow DEF FindCmdline
      <4>. QED  BY <2>1, <2>6, <4>1 DEF BlobThere
    <3>3. nextptr' <= KERNEL_LOAD_ADDR
      <4>1. PICK top \in Nat : top = nextptr' /\ top <= DTB_LOAD_ADDR
        BY <2>2, <2>6 DEF HeapGrows
      <4>. QED  BY <3>1, <4>1, Constants
    <3>4. \A a \in Block(KERNEL_LOAD_ADDR, k_size) : mem'[a] = "kernel"
      BY <1>0, <1>7, <2>1, <2>2, <3>1, <3>3, Constants, GrowsBelow
      DEF KernelThere, FindCmdline
    <3>. QED  BY <2>3, <3>2, <3>4 DEF Loaded, Block
  <2>. QED  BY <2>2, <2>3, <2>4, <2>5, <2>6 DEF Inv, Bottom, BootsAtUpdate
<1>8. CASE Leave
  <2>1. /\ pc = "update" /\ pc' = "linux" /\ nextptr' = nextptr
        /\ k_size' = k_size /\ dtb_size' = dtb_size /\ blob' = blob
        /\ TreeThere => mem' = mem
    BY <1>8 DEF Leave
  <2>2. k_size \in KernelSizes /\ dtb_size \in DtbSizes
        /\ (dtb_size > 0 => blob # "blob")
    BY <2>1 DEF Inv, StageInv
  <2>3. mem' \in [Addr -> Content]
    <3>1. CASE mem' = mem
      BY <1>0, <2>1, <3>1 DEF Bottom
    <3>2. CASE mem' = [a \in Addr |-> "junk"]
      BY <3>2 DEF Content
    <3>. QED  BY <1>8, <3>1, <3>2 DEF Leave
  <2>4. TypeOK' /\ HeapInv'
    BY <1>0, <2>1, <2>3 DEF Inv, TypeOK, PcValues, HeapInv
  <2>5. StageInv'
    BY <2>1, <2>2 DEF StageInv
  <2>6. BootsAtUpdate'
    <3>1. ASSUME nextptr <= DTB_LOAD_ADDR, dtb_size > 0, blob = "dtb"
          PROVE  Loaded /\ mem' = mem
      BY <2>1, <3>1 DEF Inv, BootsAtUpdate, Loaded, TreeThere
    <3>. QED  BY <2>1, <3>1 DEF BootsAtUpdate, Loaded, Block
  <2>. QED  BY <2>1, <2>4, <2>5, <2>6 DEF Inv
<1>9. CASE Search
  <2>1. Bottom' /\ UNCHANGED boot /\ pc = "shell"
    BY <1>9, SearchKeepsBottom DEF Search
  <2>. QED  BY <1>0, <2>1, EarlyInv DEF boot
<1>10. CASE Cat
  <2>1. Bottom'
    BY <1>10, SearchKeepsBottom DEF Cat
  <2>. QED  BY <1>0, <1>10, <2>1, EarlyInv DEF Cat
<1>11. CASE CatReads
  <2>1. Bottom'
    <3>1. PICK n \in TextSizes :
            \/ AllocFails(n)
            \/ \E used \in 0 .. (n + Padding) : AllocAndFill(n, used, "heap")
      BY <1>11 DEF CatReads
    <3>2. n \in Nat /\ 0 \in 0 .. (n + Padding)
      <4>1. n \in Nat /\ Padding \in Nat
        BY BlockSize, Constants
      <4>. QED  BY <4>1
    <3>. QED  BY <1>11, <3>1, <3>2, AllocKeepsBottom DEF CatReads
  <2>. QED  BY <1>0, <1>11, <2>1, EarlyInv DEF CatReads
<1>12. CASE TestAlloc
  <2>1. Bottom'
    <3>1. TestSize \in 0 .. (TestSize + Padding)
      <4>1. TestSize \in Nat /\ Padding \in Nat
        BY BlockSize, Constants
      <4>. QED  BY <4>1
    <3>. QED  BY <1>12, <3>1, AllocKeepsBottom DEF TestAlloc
  <2>. QED  BY <1>0, <1>12, <2>1, EarlyInv DEF TestAlloc, boot
<1>13. CASE MemReset
  <2>1. Bottom'
    BY <1>13, ResetKeepsBottom DEF MemReset
  <2>. QED  BY <1>0, <1>13, <2>1, EarlyInv DEF MemReset, boot
<1>14. CASE UNCHANGED vars
  <2>1. /\ pc' = pc /\ nextptr' = nextptr /\ mem' = mem
        /\ k_size' = k_size /\ dtb_size' = dtb_size /\ blob' = blob
    BY <1>14 DEF vars, boot
  <2>2. TypeOK' /\ HeapInv' /\ (pc' # "linux" => SpillIsText')
    BY <2>1 DEF Inv, TypeOK, HeapInv, SpillIsText
  <2>3. StageInv'
    BY <2>1 DEF Inv, StageInv, KernelThere, BlobThere, Block
  <2>4. BootsAtUpdate'
    BY <2>1 DEF Inv, BootsAtUpdate, Loaded, Block
  <2>. QED  BY <2>2, <2>3, <2>4 DEF Inv
<1>. QED
  BY <1>1, <1>2, <1>3, <1>4, <1>5, <1>6, <1>7, <1>8, <1>9, <1>10, <1>11,
     <1>12, <1>13, <1>14 DEF Next

LEMMA Always == Spec => []Inv
BY InitInv, InvStep, PTL DEF Spec

----------------------------------------------------------------------------
(* The heap pointer, the memory and the sizes bootFromFile holds have      *)
(* their types, whatever the searches and reads come to.                   *)
THEOREM FileBootTypeCorrect == Spec => []TypeOK
<1>1. Inv => TypeOK
  BY DEF Inv
<1>. QED
  BY <1>1, Always, PTL

(* For any heap start, alignment and sizes no allocation, clearing or load *)
(* reaches the peripherals: alloc's rounding cannot wrap (mm.c:46-62).     *)
(* What cat and hexcat read into the last block can, by less than a sector *)
(* (fat.c:567).                                                            *)
THEOREM OnlyASectorSpills == Spec => []SpillsOnlyASector
<1>1. Inv => SpillsOnlyASector
  BY DEF Inv, HeapInv, SpillIsText, SpillsOnlyASector
<1>. QED
  BY <1>1, Always, PTL

(* Linux gets a device tree, or what has its magic, and with a tree both   *)
(* files whole, as long as the heap has not reached it                     *)
(* (file_boot.c:56-125).                                                   *)
THEOREM LinuxGetsWhatWasLoaded == Spec => []BootsWhatItLoaded
<1>1. Inv => BootsWhatItLoaded
  BY DEF Inv, StageInv, BootsAtUpdate, BootsWhatItLoaded
<1>. QED
  BY <1>1, Always, PTL

-----------------------------------------------------------------------------
(* The two updates of the device tree: what follows is about Fdt.  First,  *)
(* numbers.                                                                *)
LEMMA MinIs ==
    ASSUME NEW T, T \subseteq Nat, T # {}
    PROVE  Min(T) \in T /\ \A y \in T : Min(T) <= y
<1>. DEFINE Less == OpToRel(<, Nat)
<1>1. IsWellFoundedOn(Less, Nat)
  BY NatLessThanWellFounded
<1>2. \A x, y \in Nat : y < x => <<y, x>> \in Less
  BY Zenon DEF OpToRel
<1>. HIDE DEF Less
<1>3. PICK x \in T : \A y \in T : ~ (<<y, x>> \in Less)
  BY <1>1, WFMin
<1>4. \A y \in T : ~ (y < x)
  BY <1>2, <1>3
<1>5. \A y \in Nat : ~ (y < x) => x <= y
  BY <1>3
<1>6. \A y \in T : x <= y
  BY <1>4, <1>5
<1>. QED
  BY <1>3, <1>6, Zenon DEF Min

LEMMA Inductive ==
    ASSUME NEW T, 0 \in T, \A x \in Nat : x \in T => x + 1 \in T
    PROVE  Nat \subseteq T
<1>. DEFINE U == Nat \ T
<1>1. SUFFICES ASSUME U # {} PROVE FALSE
  OBVIOUS
<1>2. PICK x \in U : \A y \in U : x <= y
  <2>1. U \subseteq Nat
    OBVIOUS
  <2>. HIDE DEF U
  <2>. QED
    BY <1>1, <2>1, MinIs
<1>3. x \in Nat /\ x \notin T /\ x # 0
  BY <1>2
<1>4. x - 1 \in Nat /\ (x - 1) + 1 = x /\ ~ (x <= x - 1)
  BY <1>3
<1>5. x - 1 \notin U
  <2>. HIDE DEF U
  <2>. QED
    BY <1>2, <1>4
<1>6. x - 1 \in T
  BY <1>4, <1>5
<1>. QED
  BY <1>3, <1>4, <1>6

LEMMA InductiveTo ==
    ASSUME NEW m \in Nat, NEW T, 0 \in T, \A x \in 0 .. (m - 1) : x \in T => x + 1 \in T
    PROVE  \A x \in 0 .. m : x \in T
<1>. DEFINE U == {x \in Nat : x <= m => x \in T}
<1>1. 0 \in U
  OBVIOUS
<1>2. ASSUME NEW x \in Nat, x \in U PROVE x + 1 \in U
  <2>1. CASE x + 1 <= m
    <3>1. x \in 0 .. (m - 1) /\ x <= m
      BY <2>1
    <3>. QED
      BY <3>1, <1>2
  <2>2. CASE ~ (x + 1 <= m)
    BY <2>2
  <2>. QED
    BY <2>1, <2>2
<1>3. Nat \subseteq U
  <2>. HIDE DEF U
  <2>. QED
    BY <1>1, <1>2, Inductive
<1>. QED
  BY <1>3

LEMMA Commutes == ASSUME NEW a \in Int, NEW b \in Int PROVE a * b = b * a /\ a * b \in Int
OBVIOUS

LEMMA Distributes ==
    ASSUME NEW a \in Int, NEW b \in Int, NEW c \in Int
    PROVE  a * (b + c) = a * b + a * c /\ (b + c) * a = b * a + c * a
           /\ a * (b - c) = a * b - a * c /\ (b - c) * a = b * a - c * a
OBVIOUS

LEMMA Naturals == ASSUME NEW a \in Nat, NEW b \in Nat PROVE a * b \in Nat
OBVIOUS

LEMMA Grows ==
    ASSUME NEW a \in Nat, NEW b \in Nat, NEW c \in Nat, a <= b
    PROVE  a * c <= b * c /\ c * a <= c * b
OBVIOUS

LEMMA GrowsMore ==
    ASSUME NEW a \in Nat, NEW b \in Nat, NEW c \in Nat \ {0}, a < b
    PROVE  a * c < b * c /\ a * c + c <= b * c
<1>1. (a + 1) * c <= b * c
  BY Grows
<1>2. (a + 1) * c = a * c + c
  OBVIOUS
<1>3. a * c \in Nat /\ b * c \in Nat
  OBVIOUS
<1>. QED
  BY <1>1, <1>2, <1>3

LEMMA DivideBy ==
    ASSUME NEW x \in Int, NEW m \in Nat \ {0}
    PROVE  /\ x \div m \in Int /\ x % m \in 0 .. (m - 1)
           /\ x = (m * (x \div m)) + (x % m)
           /\ x \in Nat => x \div m \in Nat
OBVIOUS

LEMMA OneRest ==
    ASSUME NEW m \in Nat \ {0}, NEW a \in Int, NEW q \in Int,
           NEW y \in 0 .. (m - 1), NEW z \in 0 .. (m - 1), m * a + y = m * q + z
    PROVE  a = q /\ y = z
<1>1. ASSUME NEW u \in Int, NEW v \in Int, NEW aa \in 0 .. (m - 1), NEW bb \in 0 .. (m - 1),
             m * u + aa = m * v + bb
      PROVE  ~ (u > v)
  <2>1. SUFFICES ASSUME u > v PROVE FALSE
    OBVIOUS
  <2>. DEFINE d == u - v
  <2>2. d \in Nat \ {0}
    BY <2>1
  <2>3. m * u - m * v = m * d
    BY Distributes
  <2>4. m * u \in Int /\ m * v \in Int
    OBVIOUS
  <2>5. m * d = bb - aa
    BY <1>1, <2>3, <2>4
  <2>. HIDE DEF d
  <2>6. m * 1 <= m * d
    BY <2>2, Grows
  <2>. QED
    BY <2>5, <2>6
<1>2. a = q
  <2>1. ~ (a > q)
    BY <1>1
  <2>2. ~ (q > a)
    <3>1. m * q + z = m * a + y
      OBVIOUS
    <3>. QED
      BY <3>1, <1>1
  <2>. QED
    BY <2>1, <2>2
<1>3. m * a \in Int
  OBVIOUS
<1>. QED
  BY <1>2, <1>3

LEMMA RestIs ==
    ASSUME NEW m \in Nat \ {0}, NEW a \in Int, NEW y \in 0 .. (m - 1)
    PROVE  (m * a + y) \div m = a /\ (m * a + y) % m = y
<1>. DEFINE x == m * a + y
            u == x \div m
            v == x % m
<1>1. x \in Int
  OBVIOUS
<1>2. u \in Int /\ v \in 0 .. (m - 1) /\ x = m * u + v
  <2>. HIDE DEF x
  <2>. QED
    BY <1>1, DivideBy
<1>. HIDE DEF u, v
<1>3. u = a /\ v = y
  BY <1>2, OneRest
<1>. QED
  BY <1>3 DEF u, v

LEMMA MaxIs ==
    ASSUME NEW m \in Nat, NEW T, T \subseteq 0 .. m, T # {}
    PROVE  Max(T) \in T /\ \A y \in T : Max(T) >= y
<1>. DEFINE U == {m - t : t \in T}
<1>1. U \subseteq Nat /\ U # {}
  <2>1. \A t \in T : m - t \in Nat
    OBVIOUS
  <2>2. PICK t \in T : TRUE
    OBVIOUS
  <2>3. m - t \in U
    OBVIOUS
  <2>. QED
    BY <2>1, <2>3
<1>2. Min(U) \in U /\ \A u \in U : Min(U) <= u
  <2>. HIDE DEF U
  <2>. QED
    BY <1>1, MinIs
<1>3. PICK x \in T : Min(U) = m - x
  BY <1>2
<1>4. \A y \in T : m - x <= m - y
  BY <1>2, <1>3
<1>5. \A y \in T : x >= y
  BY <1>4
<1>. QED
  BY <1>5, Zenon DEF Max

LEMMA Widths ==
    /\ W \in Nat \ {0} /\ W >= 1 /\ Byte = 256 /\ Byte \in Nat \ {0} /\ SearchLimit \in Nat \ {0}
    /\ 0 \in 0 .. (Byte - 1)
<1>1. Byte = 256
  BY DEF Byte
<1>. QED
  BY <1>1, NamesAssumption

-----------------------------------------------------------------------------
(* Words.                                                                  *)
Powers(f, m) == f = [k \in 0 .. m |-> IF k = 0 THEN 1 ELSE f[k - 1] * Byte]

LEMMA PowersAre ==
    ASSUME NEW f, NEW m \in Nat, Powers(f, m)
    PROVE  f[0] = 1 /\ \A k \in 0 .. (m - 1) : f[k + 1] = f[k] * Byte
<1>1. \A k \in 0 .. m : f[k] = IF k = 0 THEN 1 ELSE f[k - 1] * Byte
  BY DEF Powers
<1>2. 0 \in 0 .. m /\ \A k \in 0 .. (m - 1) : k + 1 \in 0 .. m /\ k + 1 # 0 /\ (k + 1) - 1 = k
  OBVIOUS
<1>. QED
  BY <1>1, <1>2

LEMMA SomePowers == \A m \in Nat : \E f : Powers(f, m)
<1>. DEFINE T == {m \in Nat : \E f : Powers(f, m)}
<1>1. 0 \in T
  <2>. DEFINE g == [k \in 0 .. 0 |-> 1]
  <2>1. g = [k \in 0 .. 0 |-> IF k = 0 THEN 1 ELSE g[k - 1] * Byte]
    OBVIOUS
  <2>2. Powers(g, 0)
    <3>. HIDE DEF g
    <3>. QED
      BY <2>1 DEF Powers
  <2>. QED
    BY <2>2
<1>2. ASSUME NEW m \in Nat, m \in T PROVE m + 1 \in T
  <2>1. PICK f : Powers(f, m)
    BY <1>2
  <2>2. f[0] = 1 /\ \A k \in 0 .. (m - 1) : f[k + 1] = f[k] * Byte
    BY <2>1, PowersAre
  <2>. DEFINE g == [k \in 0 .. (m + 1) |-> IF k = m + 1 THEN f[m] * Byte ELSE f[k]]
  <2>3. ASSUME NEW k \in 0 .. (m + 1)
        PROVE  g[k] = IF k = 0 THEN 1 ELSE g[k - 1] * Byte
    <3>1. CASE k = 0
      BY <2>2, <3>1
    <3>2. CASE k = m + 1
      BY <3>2
    <3>3. CASE k \in 1 .. m
      <4>1. k - 1 \in 0 .. (m - 1) /\ (k - 1) + 1 = k /\ k # m + 1 /\ k - 1 # m + 1 /\ k # 0
            /\ k - 1 \in 0 .. (m + 1)
        BY <3>3
      <4>2. g[k] = f[k] /\ g[k - 1] = f[k - 1]
        BY <4>1
      <4>. HIDE DEF g
      <4>3. f[(k - 1) + 1] = f[k - 1] * Byte
        BY <4>1, <2>2
      <4>. QED
        BY <4>1, <4>2, <4>3
    <3>. QED
      BY <3>1, <3>2, <3>3
  <2>4. g = [k \in 0 .. (m + 1) |-> g[k]]
    OBVIOUS
  <2>. HIDE DEF g
  <2>5. Powers(g, m + 1)
    BY <2>3, <2>4 DEF Powers
  <2>. QED
    BY <2>5
<1>. HIDE DEF T
<1>3. Nat \subseteq T
  BY <1>1, <1>2, Inductive
<1>. QED
  BY <1>3 DEF T

LEMMA PowIs == Pow(0) = 1 /\ \A k \in Nat : Pow(k + 1) = Pow(k) * Byte
<1>1. ASSUME NEW m \in Nat PROVE \E f : Powers(f, m) /\ Pow(m) = f[m]
  <2>. DEFINE h == CHOOSE f : Powers(f, m)
  <2>1. Pow(m) = h[m]
    BY DEF Pow, Powers
  <2>2. Powers(h, m)
    BY SomePowers
  <2>. HIDE DEF h
  <2>. QED
    BY <2>1, <2>2
<1>2. Pow(0) = 1
  <2>1. 0 \in Nat
    OBVIOUS
  <2>2. PICK f : Powers(f, 0) /\ Pow(0) = f[0]
    BY <2>1, <1>1
  <2>. QED
    BY <2>1, <2>2, PowersAre
<1>3. ASSUME NEW m \in Nat PROVE Pow(m + 1) = Pow(m) * Byte
  <2>1. PICK f : Powers(f, m) /\ Pow(m) = f[m]
    BY <1>1
  <2>2. PICK g : Powers(g, m + 1) /\ Pow(m + 1) = g[m + 1]
    <3>1. m + 1 \in Nat
      OBVIOUS
    <3>. QED
      BY <3>1, <1>1
  <2>3. f[0] = 1 /\ \A k \in 0 .. (m - 1) : f[k + 1] = f[k] * Byte
    BY <2>1, PowersAre
  <2>4. g[0] = 1 /\ \A k \in 0 .. m : g[k + 1] = g[k] * Byte
    <3>1. m + 1 \in Nat /\ (m + 1) - 1 = m
      OBVIOUS
    <3>. QED
      BY <2>2, <3>1, PowersAre
  <2>. DEFINE T == {k \in 0 .. m : f[k] = g[k]}
  <2>5. 0 \in T
    BY <2>3, <2>4
  <2>6. \A k \in 0 .. (m - 1) : k \in T => k + 1 \in T
    BY <2>3, <2>4
  <2>7. m \in T
    <3>. HIDE DEF T
    <3>. QED
      BY <2>5, <2>6, InductiveTo
  <2>. QED
    BY <2>1, <2>2, <2>4, <2>7
<1>. QED
  BY <1>2, <1>3

LEMMA PowNat == \A k \in Nat : Pow(k) \in Nat \ {0}
<1>. DEFINE T == {k \in Nat : Pow(k) \in Nat \ {0}}
<1>1. 0 \in T
  BY PowIs
<1>2. ASSUME NEW k \in Nat, k \in T PROVE k + 1 \in T
  <2>1. Pow(k + 1) = Pow(k) * Byte /\ Pow(k) \in Nat \ {0}
    BY <1>2, PowIs
  <2>. DEFINE q == Pow(k)
  <2>2. q * Byte \in Nat \ {0}
    <3>1. q \in Nat \ {0}
      BY <2>1
    <3>. HIDE DEF q
    <3>. QED
      BY <3>1, Widths
  <2>. QED
    BY <2>1, <2>2
<1>. HIDE DEF T
<1>3. Nat \subseteq T
  BY <1>1, <1>2, Inductive
<1>. QED
  BY <1>3 DEF T

LEMMA SpaceIs == Space \in Nat \ {0}
BY PowNat, Widths DEF Space

(* A number from its digits, as far as each.                               *)
Digits(f, b, m) == f = [k \in 0 .. m |-> IF k = 0 THEN 0 ELSE f[k - 1] * Byte + b[k]]

LEMMA DigitsAre ==
    ASSUME NEW f, NEW b, NEW m \in Nat, Digits(f, b, m)
    PROVE  f[0] = 0 /\ \A k \in 0 .. (m - 1) : f[k + 1] = f[k] * Byte + b[k + 1]
<1>. DEFINE G(k, y) == y * Byte + b[k]
<1>1. \A k \in 0 .. m : f[k] = IF k = 0 THEN 0 ELSE G(k, f[k - 1])
  BY DEF Digits
<1>. HIDE DEF G
<1>2. 0 \in 0 .. m /\ \A k \in 0 .. (m - 1) : k + 1 \in 0 .. m /\ k + 1 # 0 /\ (k + 1) - 1 = k
  OBVIOUS
<1>3. f[0] = 0 /\ \A k \in 0 .. (m - 1) : f[k + 1] = G(k + 1, f[k])
  BY <1>1, <1>2
<1>. QED
  BY <1>3, Zenon DEF G

LEMMA SomeDigits == ASSUME NEW b PROVE \A m \in Nat : \E f : Digits(f, b, m)
<1>. DEFINE T == {m \in Nat : \E f : Digits(f, b, m)}
            G(k, y) == y * Byte + b[k]
            z == 0
<1>1. 0 \in T
  <2>. DEFINE g == [k \in 0 .. 0 |-> z]
  <2>1. g = [k \in 0 .. 0 |-> IF k = 0 THEN z ELSE G(k, g[k - 1])]
    <3>. HIDE DEF G, z
    <3>. QED
      OBVIOUS
  <2>2. Digits(g, b, 0)
    <3>. HIDE DEF g
    <3>. QED
      BY <2>1, Zenon DEF Digits, G, z
  <2>3. 0 \in Nat
    OBVIOUS
  <2>. QED
    BY <2>2, <2>3
<1>2. ASSUME NEW m \in Nat, m \in T PROVE m + 1 \in T
  <2>1. PICK f : Digits(f, b, m)
    BY <1>2
  <2>2. f[0] = z /\ \A k \in 1 .. m : f[k] = G(k, f[k - 1])
    <3>1. \A k \in 0 .. m : f[k] = IF k = 0 THEN z ELSE G(k, f[k - 1])
      <4>1. f = [k \in 0 .. m |-> IF k = 0 THEN z ELSE G(k, f[k - 1])]
        BY <2>1, Zenon DEF Digits, G, z
      <4>. HIDE DEF G, z
      <4>. QED
        BY <4>1
    <3>. HIDE DEF G, z
    <3>2. 0 \in 0 .. m /\ \A k \in 1 .. m : k \in 0 .. m /\ k # 0
      OBVIOUS
    <3>. QED
      BY <3>1, <3>2
  <2>. HIDE DEF G, z
  <2>. DEFINE g == [k \in 0 .. (m + 1) |-> IF k = m + 1 THEN G(m + 1, f[m]) ELSE f[k]]
  <2>3. ASSUME NEW k \in 0 .. (m + 1)
        PROVE  g[k] = IF k = 0 THEN z ELSE G(k, g[k - 1])
    <3>1. CASE k = 0
      BY <2>2, <3>1
    <3>2. CASE k = m + 1
      <4>1. g[k] = G(k, f[m]) /\ k - 1 = m /\ m \in 0 .. (m + 1) /\ m # m + 1 /\ k # 0
        BY <3>2
      <4>2. g[m] = f[m]
        BY <4>1
      <4>. QED
        BY <4>1, <4>2
    <3>3. CASE k \in 1 .. m
      <4>1. k # m + 1 /\ k - 1 # m + 1 /\ k # 0 /\ k - 1 \in 0 .. (m + 1)
        BY <3>3
      <4>2. g[k] = f[k] /\ g[k - 1] = f[k - 1]
        BY <4>1
      <4>. HIDE DEF g
      <4>. QED
        BY <4>1, <4>2, <2>2, <3>3
    <3>. QED
      BY <3>1, <3>2, <3>3
  <2>4. g = [k \in 0 .. (m + 1) |-> g[k]]
    OBVIOUS
  <2>. HIDE DEF g
  <2>5. g = [k \in 0 .. (m + 1) |-> IF k = 0 THEN z ELSE G(k, g[k - 1])]
    BY <2>3, <2>4
  <2>6. Digits(g, b, m + 1)
    BY <2>5, Zenon DEF Digits, G, z
  <2>7. m + 1 \in Nat
    OBVIOUS
  <2>. QED
    BY <2>6, <2>7
<1>. HIDE DEF T
<1>3. Nat \subseteq T
  BY <1>1, <1>2, Inductive
<1>. QED
  BY <1>3, Zenon DEF T

LEMMA NumberIs == ASSUME NEW b PROVE \E f : Digits(f, b, W) /\ Number(b) = f[W]
<1>. DEFINE h == CHOOSE f : Digits(f, b, W)
<1>1. Number(b) = h[W]
  BY DEF Number, Digits
<1>2. Digits(h, b, W)
  <2>1. \E f : Digits(f, b, W)
    BY SomeDigits, Widths
  <2>. QED
    BY <2>1
<1>. HIDE DEF h
<1>. QED
  BY <1>1, <1>2

LEMMA NumberIn ==
    ASSUME NEW b, \A i \in 1 .. W : b[i] \in 0 .. (Byte - 1)
    PROVE  Number(b) \in 0 .. (Space - 1)
<1>1. PICK f : Digits(f, b, W) /\ Number(b) = f[W]
  BY NumberIs
<1>2. f[0] = 0 /\ \A k \in 0 .. (W - 1) : f[k + 1] = f[k] * Byte + b[k + 1]
  BY <1>1, DigitsAre, Widths
<1>. DEFINE T == {j \in 0 .. W : f[j] \in 0 .. (Pow(j) - 1)}
<1>3. 0 \in T
  BY <1>2, PowIs, Widths
<1>4. ASSUME NEW j \in 0 .. (W - 1), j \in T PROVE j + 1 \in T
  <2>. DEFINE q == Pow(j)
              v == f[j]
              d == b[j + 1]
  <2>0. j \in Nat /\ j + 1 \in 0 .. W /\ j + 1 \in 1 .. W
    BY Widths
  <2>1. q \in Nat \ {0} /\ Pow(j + 1) = q * Byte /\ j + 1 \in 0 .. W /\ j + 1 \in 1 .. W
    BY <2>0, PowNat, PowIs
  <2>2. v \in 0 .. (q - 1) /\ f[j + 1] = v * Byte + d
    BY <1>2, <1>4
  <2>3. d \in 0 .. (Byte - 1)
    BY <2>1
  <2>. HIDE DEF q, v, d
  <2>4. v * Byte + Byte <= q * Byte /\ v * Byte \in Nat /\ q * Byte \in Nat
    BY Widths, <2>1, <2>2, GrowsMore, Naturals
  <2>. DEFINE vb == v * Byte
              qb == q * Byte
  <2>5. vb + Byte <= qb /\ vb \in Nat /\ qb \in Nat
    BY <2>4
  <2>. HIDE DEF vb, qb
  <2>6. vb + d \in 0 .. (qb - 1)
    BY Widths, <2>5, <2>3
  <2>. QED
    BY <2>1, <2>2, <2>6 DEF vb, qb
<1>5. \A j \in 0 .. W : j \in T
  <2>. HIDE DEF T
  <2>. QED
    BY <1>3, <1>4, InductiveTo, Widths
<1>6. f[W] \in 0 .. (Pow(W) - 1)
  BY <1>5, Widths
<1>. QED
  BY <1>1, <1>6 DEF Space

(* Dividing by one more byte.                                              *)
LEMMA Shifted ==
    ASSUME NEW n \in Nat, NEW k \in Nat
    PROVE  n \div Pow(k) = (n \div Pow(k + 1)) * Byte + ((n \div Pow(k)) % Byte)
<1>. DEFINE q == Pow(k)
            x == n \div q
            y == x \div Byte
            r == n % q
            u == x % Byte
<1>1. q \in Nat \ {0} /\ Pow(k + 1) = q * Byte
  BY PowNat, PowIs
<1>2. x \in Nat /\ r \in 0 .. (q - 1) /\ n = q * x + r
  <2>. HIDE DEF q
  <2>1. q \in Nat \ {0} /\ n \in Int
    BY <1>1
  <2>. QED
    BY <2>1, DivideBy
<1>3. y \in Nat /\ u \in 0 .. (Byte - 1) /\ x = Byte * y + u
  <2>. HIDE DEF x
  <2>1. x \in Int /\ x \in Nat
    BY <1>2
  <2>. QED
    BY <2>1, DivideBy, Widths
<1>. HIDE DEF x, y, r, u, q
<1>4. q * u + r \in 0 .. (q * Byte - 1)
  <2>1. q * u + q <= q * Byte /\ q * u \in Nat /\ q * Byte \in Nat
    <3>1. u * q + q <= Byte * q
      BY <1>1, <1>3, Widths, GrowsMore
    <3>2. u * q = q * u /\ Byte * q = q * Byte /\ q * u \in Nat /\ q * Byte \in Nat
      BY <1>1, <1>3, Widths, Commutes, Naturals
    <3>. QED
      BY <3>1, <3>2
  <2>. DEFINE qu == q * u
              qb == q * Byte
  <2>2. qu + q <= qb /\ qu \in Nat /\ qb \in Nat
    BY <2>1
  <2>. HIDE DEF qu, qb
  <2>3. qu + r \in 0 .. (qb - 1)
    BY <2>2, <1>1, <1>2
  <2>. QED
    BY <2>3 DEF qu, qb
<1>5. n = (q * Byte) * y + (q * u + r)
  <2>1. q * (Byte * y + u) = q * (Byte * y) + q * u
    BY <1>1, <1>3, Widths, Distributes
  <2>2. q * (Byte * y) = (q * Byte) * y
    <3>1. \A a, b, c \in Nat : a * (b * c) = (a * b) * c
      OBVIOUS
    <3>. QED
      BY <3>1, <1>1, <1>3, Widths
  <2>3. (q * Byte) * y \in Nat /\ q * u \in Nat
    BY <1>1, <1>3, Widths, Naturals
  <2>. QED
    BY <2>1, <2>2, <2>3, <1>2, <1>3
<1>6. n \div (q * Byte) = y
  <2>1. q * Byte \in Nat \ {0}
    BY <1>1, PowNat
  <2>. DEFINE qb == q * Byte
              ru == q * u + r
  <2>2. qb \in Nat \ {0} /\ ru \in 0 .. (qb - 1) /\ n = qb * y + ru /\ y \in Int
    BY <2>1, <1>3, <1>4, <1>5
  <2>. HIDE DEF qb, ru
  <2>3. n \div qb = y
    BY <2>2, RestIs
  <2>. QED
    BY <2>3 DEF qb
<1>7. x = y * Byte + u
  <2>1. Byte * y = y * Byte
    BY <1>3, Widths, Commutes
  <2>. QED
    BY <2>1, <1>3
<1>. QED
  BY <1>1, <1>6, <1>7 DEF x, u, q

(* The bytes of a number, from the left, are the word for it.              *)
LEMMA NumberOf ==
    ASSUME NEW n \in 0 .. (Space - 1), NEW b, \A i \in 1 .. W : b[i] = ByteOf(n, i - 1)
    PROVE  Number(b) = n
<1>1. PICK f : Digits(f, b, W) /\ Number(b) = f[W]
  BY NumberIs
<1>2. f[0] = 0 /\ \A k \in 0 .. (W - 1) : f[k + 1] = f[k] * Byte + b[k + 1]
  BY <1>1, DigitsAre, Widths
<1>0. n \in Nat /\ n < Space
  BY SpaceIs
<1>. DEFINE T == {j \in 0 .. W : f[j] = n \div Pow(W - j)}
<1>3. 0 \in T
  <2>1. n \div Space = 0
    <3>1. n = Space * 0 + n /\ 0 \in Int
      BY <1>0, SpaceIs
    <3>2. (Space * 0 + n) \div Space = 0
      BY <3>1, SpaceIs, RestIs
    <3>. QED
      BY <3>1, <3>2
  <2>2. W - 0 = W /\ 0 \in 0 .. W
    BY Widths
  <2>. QED
    BY <2>1, <2>2, <1>2 DEF Space
<1>4. ASSUME NEW j \in 0 .. (W - 1), j \in T PROVE j + 1 \in T
  <2>. DEFINE k == W - (j + 1)
  <2>1. k \in Nat /\ k + 1 = W - j /\ j + 1 \in 1 .. W /\ j + 1 \in 0 .. W /\ W - 1 - ((j + 1) - 1) = k
    BY Widths
  <2>2. b[j + 1] = (n \div Pow(k)) % Byte
    <3>1. b[j + 1] = ByteOf(n, (j + 1) - 1)
      BY <2>1
    <3>. QED
      BY <2>1, <3>1 DEF ByteOf
  <2>3. f[j] = n \div Pow(k + 1)
    BY <1>4, <2>1
  <2>. HIDE DEF k
  <2>4. f[j + 1] = f[j] * Byte + b[j + 1]
    BY <1>2
  <2>5. f[j + 1] = n \div Pow(k)
    BY <2>1, <2>2, <2>3, <2>4, <1>0, Shifted
  <2>. QED
    BY <2>1, <2>5 DEF k
<1>5. \A j \in 0 .. W : j \in T
  <2>. HIDE DEF T
  <2>. QED
    BY <1>3, <1>4, InductiveTo, Widths
<1>6. f[W] = n \div Pow(W - W) /\ W - W = 0
  BY <1>5, Widths
<1>7. n \div 1 = n
  BY <1>0
<1>. QED
  BY <1>1, <1>6, <1>7, PowIs

LEMMA NumberZero ==
    ASSUME NEW b, \A i \in 1 .. W : b[i] = 0
    PROVE  Number(b) = 0
<1>1. 0 \in 0 .. (Space - 1)
  BY SpaceIs
<1>2. \A i \in 1 .. W : ByteOf(0, i - 1) = 0
  <2>1. TAKE i \in 1 .. W
  <2>2. W - 1 - (i - 1) \in Nat
    BY Widths
  <2>. DEFINE q == Pow(W - 1 - (i - 1))
  <2>3. q \in Nat \ {0}
    BY <2>2, PowNat
  <2>. HIDE DEF q
  <2>4. 0 \div q = 0
    BY <2>3
  <2>5. 0 % Byte = 0
    BY Widths
  <2>. QED
    BY <2>4, <2>5 DEF ByteOf, q
<1>. QED
  BY <1>1, <1>2, NumberOf

-----------------------------------------------------------------------------
(* Bytes and what is read from them.                                       *)
IsMem(m, size) == size \in Nat /\ m \in [0 .. (size - 1) -> 0 .. (Byte - 1)]

LEMMA BytesAre ==
    ASSUME NEW size, NEW m, IsMem(m, size)
    PROVE  /\ \A a : ByteAt(m, a) \in 0 .. (Byte - 1)
           /\ \A a \in Nat : a >= size => ByteAt(m, a) = 0
<1>1. size \in Nat /\ DOMAIN m = 0 .. (size - 1) /\ \A a \in DOMAIN m : m[a] \in 0 .. (Byte - 1)
  BY DEF IsMem
<1>2. \A a : ByteAt(m, a) \in 0 .. (Byte - 1)
  BY <1>1, Widths, Zenon DEF ByteAt
<1>3. \A a \in Nat : a >= size => a \notin DOMAIN m
  BY <1>1
<1>. QED
  BY <1>2, <1>3 DEF ByteAt

LEMMA WordIn ==
    ASSUME NEW size, NEW m, IsMem(m, size), NEW a
    PROVE  WordAt(m, a) \in 0 .. (Space - 1) /\ WordAt(m, a) \in Nat /\ WordAt(m, a) < Space
<1>. DEFINE b == [i \in 1 .. W |-> ByteAt(m, a + i - 1)]
<1>1. \A i \in 1 .. W : b[i] \in 0 .. (Byte - 1)
  BY BytesAre
<1>. HIDE DEF b
<1>2. Number(b) \in 0 .. (Space - 1)
  BY <1>1, NumberIn
<1>. QED
  BY <1>2, SpaceIs DEF WordAt, b

LEMMA WordSame ==
    ASSUME NEW m, NEW m2, NEW a \in Int,
           \A c \in a .. (a + W - 1) : ByteAt(m, c) = ByteAt(m2, c)
    PROVE  WordAt(m, a) = WordAt(m2, a)
<1>1. \A i \in 1 .. W : a + i - 1 \in a .. (a + W - 1)
  BY Widths
<1>2. [i \in 1 .. W |-> ByteAt(m, a + i - 1)] = [i \in 1 .. W |-> ByteAt(m2, a + i - 1)]
  BY <1>1
<1>. QED
  BY <1>2, Zenon DEF WordAt

LEMMA WordBehind ==
    ASSUME NEW size, NEW m, IsMem(m, size), NEW a \in Nat, a >= size
    PROVE  WordAt(m, a) = 0
<1>. DEFINE b == [i \in 1 .. W |-> ByteAt(m, a + i - 1)]
<1>1. \A i \in 1 .. W : b[i] = 0
  <2>1. TAKE i \in 1 .. W
  <2>2. a + i - 1 \in Nat /\ a + i - 1 >= size
    BY Widths DEF IsMem
  <2>. QED
    BY <2>2, BytesAre
<1>. HIDE DEF b
<1>2. Number(b) = 0
  BY <1>1, NumberZero
<1>. QED
  BY <1>2 DEF WordAt, b

LEMMA ReadsSame ==
    ASSUME NEW m, NEW m2, NEW a \in Int, NEW S, NEW s \in Seq(S),
           \A c \in a .. (a + Len(s)) : ByteAt(m, c) = ByteAt(m2, c)
    PROVE  Reads(m, a, s) <=> Reads(m2, a, s)
<1>1. Len(s) \in Nat /\ DOMAIN s = 1 .. Len(s)
  BY LenProperties
<1>2. a + Len(s) \in a .. (a + Len(s)) /\ \A i \in 1 .. Len(s) : a + i - 1 \in a .. (a + Len(s))
  BY <1>1
<1>. QED
  BY <1>1, <1>2 DEF Reads

(* Two names that can be read at one place are the same.                   *)
LEMMA OneName ==
    ASSUME NEW m, NEW a, NEW s \in Seq(1 .. (Byte - 1)), NEW r \in Seq(1 .. (Byte - 1)),
           Reads(m, a, s), Reads(m, a, r), a \in Int
    PROVE  s = r
<1>1. /\ Len(s) \in Nat /\ DOMAIN s = 1 .. Len(s) /\ \A i \in 1 .. Len(s) : s[i] \in 1 .. (Byte - 1)
      /\ Len(r) \in Nat /\ DOMAIN r = 1 .. Len(r) /\ \A i \in 1 .. Len(r) : r[i] \in 1 .. (Byte - 1)
  BY LenProperties, ElementOfSeq
<1>2. /\ \A i \in 1 .. Len(s) : ByteAt(m, a + i - 1) = s[i] /\ ByteAt(m, a + i - 1) # 0
      /\ \A i \in 1 .. Len(r) : ByteAt(m, a + i - 1) = r[i] /\ ByteAt(m, a + i - 1) # 0
      /\ ByteAt(m, a + Len(s)) = 0 /\ ByteAt(m, a + Len(r)) = 0
  <2>1. \A i \in 1 .. Len(s) : ByteAt(m, a + i - 1) = s[i] /\ ByteAt(m, a + i - 1) # 0
    <3>1. \A i \in 1 .. Len(s) : ByteAt(m, a + i - 1) = s[i]
      BY <1>1, Zenon DEF Reads
    <3>2. \A i \in 1 .. Len(s) : s[i] # 0
      BY <1>1
    <3>. QED
      BY <3>1, <3>2, Zenon
  <2>2. \A i \in 1 .. Len(r) : ByteAt(m, a + i - 1) = r[i] /\ ByteAt(m, a + i - 1) # 0
    <3>1. \A i \in 1 .. Len(r) : ByteAt(m, a + i - 1) = r[i]
      BY <1>1, Zenon DEF Reads
    <3>2. \A i \in 1 .. Len(r) : r[i] # 0
      BY <1>1
    <3>. QED
      BY <3>1, <3>2, Zenon
  <2>. QED
    BY <2>1, <2>2, Zenon DEF Reads
<1>3. ~ (Len(s) < Len(r))
  <2>1. SUFFICES ASSUME Len(s) < Len(r) PROVE FALSE
    OBVIOUS
  <2>2. Len(s) + 1 \in 1 .. Len(r) /\ a + (Len(s) + 1) - 1 = a + Len(s)
    BY <2>1, <1>1
  <2>. QED
    BY <2>2, <1>2
<1>4. ~ (Len(r) < Len(s))
  <2>1. SUFFICES ASSUME Len(r) < Len(s) PROVE FALSE
    OBVIOUS
  <2>2. Len(r) + 1 \in 1 .. Len(s) /\ a + (Len(r) + 1) - 1 = a + Len(r)
    BY <2>1, <1>1
  <2>. QED
    BY <2>2, <1>2
<1>5. Len(s) = Len(r)
  <2>1. Len(s) \in Nat /\ Len(r) \in Nat
    BY <1>1
  <2>. QED
    BY <2>1, <1>3, <1>4
<1>. QED
  BY <1>1, <1>2, <1>5, SeqEqual

-----------------------------------------------------------------------------
(* Whole words.                                                            *)
LEMMA Multiples ==
    ASSUME NEW x \in Nat, NEW y \in Nat, x % W = 0, y % W = 0
    PROVE  /\ (x + y) % W = 0 /\ (y <= x => (x - y) % W = 0)
           /\ W % W = 0 /\ (3 * W) % W = 0 /\ 3 * W \in Nat
<1>. DEFINE u == x \div W
            v == y \div W
<1>1. W \in Nat \ {0} /\ x \in Int /\ y \in Int /\ 0 \in 0 .. (W - 1)
  BY Widths
<1>2. u \in Nat /\ v \in Nat /\ x = W * u + (x % W) /\ y = W * v + (y % W)
  BY <1>1, DivideBy
<1>3. x = W * u /\ y = W * v
  <2>. HIDE DEF u, v
  <2>1. W * u \in Nat /\ W * v \in Nat
    BY <1>1, <1>2, Naturals
  <2>. QED
    BY <1>2, <2>1
<1>. HIDE DEF u, v
<1>4. \A z \in Int : (W * z) % W = 0
  <2>1. TAKE z \in Int
  <2>2. (W * z + 0) % W = 0
    BY <1>1, RestIs
  <2>3. W * z + 0 = W * z
    BY <1>1
  <2>. QED
    BY <2>2, <2>3
<1>5. x + y = W * (u + v) /\ x - y = W * (u - v) /\ W = W * 1 /\ 3 * W = W * 3
  BY <1>1, <1>2, <1>3, Distributes
<1>6. u + v \in Int /\ u - v \in Int /\ 1 \in Int /\ 3 \in Int /\ 3 * W \in Nat
  BY <1>1, <1>2
<1>7. (W * (u + v)) % W = 0 /\ (W * (u - v)) % W = 0 /\ (W * 1) % W = 0 /\ (W * 3) % W = 0
  BY <1>4, <1>6
<1>. QED
  BY <1>5, <1>6, <1>7

LEMMA RoundedUp ==
    ASSUME NEW x \in Nat
    PROVE  /\ Rounded(x) \in Nat
           /\ x + W - 1 < Space => Rounded(x) \in x .. (x + W - 1) /\ Rounded(x) % W = 0
<1>. DEFINE y == (x + W - 1) % Space
            r == y % W
            u == y \div W
<1>1. W \in Nat \ {0} /\ W >= 1 /\ Space \in Nat \ {0} /\ x + W - 1 \in Nat /\ x + W - 1 \in Int
  BY Widths, SpaceIs
<1>2. y \in 0 .. (Space - 1)
  BY <1>1, DivideBy
<1>3. y \in Nat /\ y \in Int
  BY <1>1, <1>2
<1>4. r \in 0 .. (W - 1) /\ u \in Nat /\ y = W * u + r
  <2>. HIDE DEF y
  <2>. QED
    BY <1>1, <1>3, DivideBy
<1>5. Rounded(x) = y - r
  BY DEF Rounded
<1>6. x + W - 1 < Space => y = x + W - 1
  BY <1>1
<1>. HIDE DEF y, r, u
<1>7. W * u \in Nat
  BY <1>1, <1>4, Naturals
<1>8. Rounded(x) = W * u
  BY <1>3, <1>4, <1>5, <1>7
<1>9. (W * u) % W = 0
  <2>1. (W * u + 0) % W = 0
    BY <1>1, <1>4, RestIs
  <2>. QED
    BY <2>1, <1>7
<1>10. x + W - 1 < Space => y - r \in x .. (x + W - 1)
  BY <1>1, <1>4, <1>6
<1>. QED
  BY <1>5, <1>7, <1>8, <1>9, <1>10

(* There is one whole word's place in reach.                               *)
LEMMA RoundedIs ==
    ASSUME NEW x \in Nat, x + W - 1 < Space, NEW q \in Nat, q \in x .. (x + W - 1), q % W = 0
    PROVE  Rounded(x) = q
<1>. DEFINE y == Rounded(x)
            u == y \div W
            v == q \div W
<1>1. y \in Nat /\ y \in x .. (x + W - 1) /\ y % W = 0
  BY RoundedUp
<1>. HIDE DEF y
<1>2. W \in Nat \ {0} /\ q \in Int /\ y \in Int
  BY Widths, <1>1
<1>3. u \in Nat /\ v \in Nat /\ y = W * u + 0 /\ q = W * v + 0
  BY <1>1, <1>2, DivideBy
<1>. HIDE DEF u, v
<1>4. W * u \in Nat /\ W * v \in Nat
  BY <1>2, <1>3, Naturals
<1>5. ~ (u < v)
  <2>1. SUFFICES ASSUME u < v PROVE FALSE
    OBVIOUS
  <2>2. u * W + W <= v * W /\ u * W = W * u /\ v * W = W * v
    BY <2>1, <1>2, <1>3, GrowsMore, Commutes
  <2>. QED
    BY <2>2, <1>1, <1>2, <1>3, <1>4
<1>6. ~ (v < u)
  <2>1. SUFFICES ASSUME v < u PROVE FALSE
    OBVIOUS
  <2>2. v * W + W <= u * W /\ u * W = W * u /\ v * W = W * v
    BY <2>1, <1>2, <1>3, GrowsMore, Commutes
  <2>. QED
    BY <2>2, <1>1, <1>2, <1>3, <1>4
<1>7. u = v
  BY <1>3, <1>5, <1>6
<1>. QED
  BY <1>3, <1>7 DEF y

(* The same from a place on.                                               *)
LEMMA RoundedFrom ==
    ASSUME NEW a \in Nat, a % W = 0, NEW x \in Nat, x + W - 1 < Space,
           NEW q \in Nat, q \in (a + x) .. (a + x + W - 1), q % W = 0
    PROVE  a + Rounded(x) = q
<1>1. q - a \in Nat /\ q - a \in x .. (x + W - 1) /\ a <= q
  BY Widths
<1>2. (q - a) % W = 0
  BY <1>1, Multiples
<1>3. Rounded(x) = q - a
  BY <1>1, <1>2, RoundedIs
<1>. QED
  BY <1>3

-----------------------------------------------------------------------------
(* The tree.                                                               *)
LEMMA TreeIs ==
    ASSUME NEW t, LaidOut(t)
    PROVE  /\ IsMem(t.mem, Size(t)) /\ Size(t) \in Nat \ {0} /\ Size(t) + 2 * W <= Space
           /\ DOMAIN t.mem = 0 .. (Size(t) - 1) /\ Max(DOMAIN t.mem) = Size(t) - 1
           /\ Last(t) \in Nat \ {0}
           /\ \A k \in 1 .. Last(t) :
                 Pos(t, k) \in Nat /\ Path(t, k) \in Seq(Nat) /\ Len(Path(t, k)) \in Nat
           /\ Struct(t) \in Nat /\ Strings(t) \in Nat
           /\ Pos(t, 1) = Struct(t) /\ Path(t, 1) = <<>>
<1>. DEFINE S == Size(t)
<1>1. t.mem \in [0 .. (S - 1) -> 0 .. (Byte - 1)] /\ S \in Nat \ {0} /\ S + 2 * W <= Space
  BY Zenon DEF LaidOut
<1>2. IsMem(t.mem, S) /\ DOMAIN t.mem = 0 .. (S - 1)
  <2>. HIDE DEF S
  <2>. QED
    BY <1>1 DEF IsMem
<1>3. Max(DOMAIN t.mem) = S - 1
  <2>. DEFINE T == DOMAIN t.mem
              x == S - 1
  <2>1. x \in Nat /\ T = 0 .. x
    BY <1>1, <1>2
  <2>. HIDE DEF T, x, S
  <2>2. T \subseteq 0 .. x /\ T # {}
    BY <2>1
  <2>3. Max(T) \in T /\ \A y \in T : Max(T) >= y
    BY <2>1, <2>2, MaxIs
  <2>4. x \in T
    BY <2>1
  <2>5. Max(T) >= x /\ Max(T) \in 0 .. x
    BY <2>1, <2>3, <2>4
  <2>. QED
    BY <2>1, <2>5 DEF T, x
<1>4. t.tokens \in Seq([pos : Nat, path : Seq(Nat)]) /\ Last(t) >= 1
  BY Zenon DEF LaidOut
<1>5. Last(t) \in Nat \ {0} /\ DOMAIN t.tokens = 1 .. Last(t)
  BY <1>4, LenProperties DEF Last
<1>6. \A k \in 1 .. Last(t) : t.tokens[k] \in [pos : Nat, path : Seq(Nat)]
  BY <1>4, ElementOfSeq DEF Last
<1>7. \A k \in 1 .. Last(t) : Pos(t, k) \in Nat /\ Path(t, k) \in Seq(Nat)
  BY <1>6 DEF Pos, Path
<1>8. \A k \in 1 .. Last(t) : Len(Path(t, k)) \in Nat
  BY <1>7, LenProperties
<1>9. Struct(t) \in Nat /\ Strings(t) \in Nat
  BY <1>2, WordIn DEF Struct, Strings
<1>10. Pos(t, 1) = Struct(t) /\ Path(t, 1) = <<>>
  BY Zenon DEF LaidOut
<1>. QED
  BY <1>1, <1>2, <1>3, <1>5, <1>7, <1>8, <1>9, <1>10

(* Each token is of the kind of its tag.                                   *)
LEMMA KindIs ==
    ASSUME NEW t, LaidOut(t), NEW k \in 1 .. (Last(t) - 1)
    PROVE  /\ k \in 1 .. Last(t) /\ k + 1 \in 1 .. Last(t) /\ Last(t) > 1 /\ k \in Nat
           /\ Tag(t, k) \in 1 .. 4
           /\ Tag(t, k) = 1 => BeginsNode(t, k)
           /\ Tag(t, k) = 2 => EndsNode(t, k)
           /\ Tag(t, k) = 3 => IsProp(t, k)
           /\ Tag(t, k) = 4 => IsNop(t, k)
           /\ Pos(t, k) % W = 0 /\ Pos(t, k + 1) % W = 0
           /\ Pos(t, k) \in Nat /\ Pos(t, k + 1) \in Nat
           /\ ValueLen(t, k) \in Nat /\ NameOff(t, k) \in Nat
<1>1. /\ BeginsNode(t, k) \/ EndsNode(t, k) \/ IsProp(t, k) \/ IsNop(t, k)
      /\ Pos(t, k) % W = 0 /\ Pos(t, k + 1) % W = 0
  BY Zenon DEF LaidOut
<1>2. k \in 1 .. Last(t) /\ k + 1 \in 1 .. Last(t) /\ Last(t) > 1 /\ k \in Nat
  BY TreeIs
<1>3. BeginsNode(t, k) => Tag(t, k) = 1
  BY DEF BeginsNode
<1>4. EndsNode(t, k) => Tag(t, k) = 2
  BY DEF EndsNode
<1>5. IsProp(t, k) => Tag(t, k) = 3
  BY DEF IsProp
<1>6. IsNop(t, k) => Tag(t, k) = 4
  BY DEF IsNop
<1>7. ValueLen(t, k) \in Nat /\ NameOff(t, k) \in Nat
  BY TreeIs, WordIn DEF ValueLen, NameOff
<1>8. Pos(t, k) \in Nat /\ Pos(t, k + 1) \in Nat
  BY <1>2, TreeIs
<1>9. Tag(t, k) = 1 \/ Tag(t, k) = 2 \/ Tag(t, k) = 3 \/ Tag(t, k) = 4
  BY <1>1, <1>3, <1>4, <1>5, <1>6, Zenon
<1>10. Tag(t, k) \in 1 .. 4
  BY <1>9
<1>11. /\ Tag(t, k) = 1 => BeginsNode(t, k)
       /\ Tag(t, k) = 2 => EndsNode(t, k)
       /\ Tag(t, k) = 3 => IsProp(t, k)
       /\ Tag(t, k) = 4 => IsNop(t, k)
  <2>. DEFINE A == BeginsNode(t, k)
              B == EndsNode(t, k)
              C == IsProp(t, k)
              D == IsNop(t, k)
              g == Tag(t, k)
  <2>1. (A \/ B \/ C \/ D) /\ (A => g = 1) /\ (B => g = 2) /\ (C => g = 3) /\ (D => g = 4)
    BY <1>1, <1>3, <1>4, <1>5, <1>6, Zenon
  <2>. HIDE DEF A, B, C, D, g
  <2>2. (g = 1 => A) /\ (g = 2 => B) /\ (g = 3 => C) /\ (g = 4 => D)
    BY <2>1
  <2>. QED
    BY <2>2, Zenon DEF A, B, C, D, g
<1>. QED
  BY <1>1, <1>2, <1>7, <1>8, <1>10, <1>11, Zenon

(* Where the next token is.                                                *)
LEMMA NextToken ==
    ASSUME NEW t, LaidOut(t), NEW k \in 1 .. (Last(t) - 1)
    PROVE  /\ Pos(t, k) + W <= Pos(t, k + 1)
           /\ Tag(t, k) = 3 => Pos(t, k) + 3 * W + ValueLen(t, k) <= Pos(t, k + 1)
<1>. DEFINE a == Pos(t, k)
            b == Pos(t, k + 1)
            l == ValueLen(t, k)
<1>1. W \in Nat /\ a \in Nat /\ b \in Nat /\ l \in Nat
  BY Widths, KindIs
<1>2. CASE Tag(t, k) = 1
  <2>1. BeginsNode(t, k)
    BY <1>2, KindIs
  <2>2. \E z \in (a + W) .. (b - 1) : TRUE
    BY <2>1 DEF BeginsNode
  <2>. QED
    BY <1>1, <1>2, <2>2
<1>3. CASE Tag(t, k) = 2
  <2>1. b = a + W
    BY <1>3, KindIs DEF EndsNode
  <2>. QED
    BY <1>1, <1>3, <2>1
<1>4. CASE Tag(t, k) = 3
  <2>1. b \in (a + 3 * W + l) .. (a + 3 * W + l + W - 1)
    BY <1>4, KindIs DEF IsProp
  <2>. HIDE DEF a, b, l
  <2>2. a + 3 * W + l <= b /\ a + W <= b
    BY <1>1, <2>1
  <2>. QED
    BY <2>2 DEF a, b, l
<1>5. CASE Tag(t, k) = 4
  <2>1. b = a + W
    BY <1>5, KindIs DEF IsNop
  <2>. QED
    BY <1>1, <1>5, <2>1
<1>6. Tag(t, k) \in {1, 2, 3, 4}
  BY KindIs
<1>. QED
  BY <1>2, <1>3, <1>4, <1>5, <1>6

(* The tokens are in order, one behind the other.                          *)
LEMMA Ordered ==
    ASSUME NEW t, LaidOut(t), NEW j \in 1 .. Last(t), NEW k \in 1 .. Last(t), j < k
    PROVE  Pos(t, j + 1) <= Pos(t, k) /\ Pos(t, j) + W <= Pos(t, k) /\ j \in 1 .. (Last(t) - 1)
<1>. DEFINE N == Last(t)
            T == {i \in 0 .. N : j < i => Pos(t, j + 1) <= Pos(t, i)}
<1>1. N \in Nat /\ j \in 1 .. (N - 1) /\ j \in Nat /\ k \in Nat
  BY TreeIs
<1>2. 0 \in T
  BY <1>1
<1>3. ASSUME NEW i \in 0 .. (N - 1), i \in T PROVE i + 1 \in T
  <2>1. i + 1 \in 0 .. N /\ i \in Nat
    BY <1>1
  <2>2. CASE j < i
    <3>1. i \in 1 .. (N - 1) /\ i \in 1 .. N /\ i + 1 \in 1 .. N /\ j + 1 \in 1 .. N
      BY <1>1, <2>2
    <3>2. Pos(t, i) + W <= Pos(t, i + 1)
      BY <3>1, NextToken
    <3>3. Pos(t, i) \in Nat /\ Pos(t, i + 1) \in Nat /\ Pos(t, j + 1) \in Nat /\ W \in Nat
      BY <3>1, TreeIs, Widths
    <3>4. Pos(t, j + 1) <= Pos(t, i)
      BY <1>3, <2>2
    <3>5. Pos(t, j + 1) <= Pos(t, i + 1)
      BY <3>2, <3>3, <3>4
    <3>. QED
      BY <2>1, <3>5
  <2>3. CASE j = i
    <3>1. Pos(t, j + 1) = Pos(t, i + 1) /\ j + 1 \in 1 .. N
      BY <2>3, <1>1
    <3>2. Pos(t, j + 1) \in Nat
      BY <3>1, TreeIs
    <3>3. Pos(t, j + 1) <= Pos(t, i + 1)
      BY <3>1, <3>2
    <3>. QED
      BY <2>1, <3>3
  <2>4. CASE ~ (j <= i)
    BY <2>1, <2>4, <1>1
  <2>. QED
    BY <2>1, <2>2, <2>3, <2>4, <1>1
<1>4. \A i \in 0 .. N : i \in T
  <2>. HIDE DEF T, N
  <2>. QED
    BY <1>1, <1>2, <1>3, InductiveTo
<1>5. Pos(t, j + 1) <= Pos(t, k)
  BY <1>1, <1>4
<1>6. Pos(t, j) + W <= Pos(t, j + 1)
  BY <1>1, NextToken
<1>7. j + 1 \in 1 .. N
  BY <1>1
<1>8. Pos(t, j) \in Nat /\ Pos(t, j + 1) \in Nat /\ Pos(t, k) \in Nat /\ W \in Nat
  BY <1>7, TreeIs, Widths
<1>. QED
  BY <1>1, <1>5, <1>6, <1>8

(* Tokens lie between the header and the strings.                          *)
LEMMA Between ==
    ASSUME NEW t, LaidOut(t), NEW k \in 1 .. Last(t)
    PROVE  /\ Pos(t, 1) <= Pos(t, k) /\ Pos(t, k) <= Pos(t, Last(t))
           /\ Last(t) > 1 => /\ 10 * W <= Pos(t, k)
                             /\ Pos(t, Last(t)) <= Size(t) /\ Pos(t, Last(t)) <= Strings(t)
<1>. DEFINE N == Last(t)
<1>1. N \in Nat \ {0} /\ 1 \in 1 .. N /\ N \in 1 .. N /\ k \in Nat
  BY TreeIs
<1>2. Pos(t, 1) \in Nat /\ Pos(t, k) \in Nat /\ Pos(t, N) \in Nat /\ W \in Nat
  BY <1>1, TreeIs, Widths
<1>3. Pos(t, 1) <= Pos(t, k)
  <2>1. CASE k = 1
    BY <2>1, <1>2
  <2>2. CASE k # 1
    <3>1. 1 < k
      BY <2>2, <1>1
    <3>2. Pos(t, 1) + W <= Pos(t, k)
      BY <3>1, <1>1, Ordered
    <3>. QED
      BY <3>2, <1>2
  <2>. QED
    BY <2>1, <2>2
<1>4. Pos(t, k) <= Pos(t, N)
  <2>1. CASE k = N
    BY <2>1, <1>2
  <2>2. CASE k # N
    <3>1. k < N
      BY <2>2, <1>1
    <3>2. Pos(t, k) + W <= Pos(t, N)
      BY <3>1, <1>1, Ordered
    <3>. QED
      BY <3>2, <1>2
  <2>. QED
    BY <2>1, <2>2
<1>5. N > 1 => 10 * W <= Pos(t, 1) /\ Pos(t, N) <= Size(t) /\ Pos(t, N) <= Strings(t)
  BY TreeIs, Zenon DEF LaidOut
<1>. QED
  BY <1>2, <1>3, <1>4, <1>5

-----------------------------------------------------------------------------
(* The cells fdt_update_bootargs may write. *)
ArgsCells(t) ==
    IF Props(t, BootargsName) = {} THEN {}
    ELSE LET v == ValueOf(t, Min(Props(t, BootargsName)))
         IN  Start(v.pos, v.len) .. (v.pos + v.len - 1)

(* Apart from them, the tree is as it was loaded. *)
Kept == \A c \in (DOMAIN dtb) \ ArgsCells(given) : dtb[c] = given.mem[c]

LEMMA PropsAre ==
    ASSUME NEW t, LaidOut(t), NEW s \in {RegName, BootargsName}, NEW k \in Props(t, s)
    PROVE  /\ k \in 1 .. (Last(t) - 1) /\ Tag(t, k) = 3 /\ IsProp(t, k)
           /\ Reads(t.mem, Strings(t) + NameOff(t, k), s)
           /\ NameOff(t, k) < SearchLimit /\ NameOff(t, k) \in Nat
<1>1. k \in 1 .. (Last(t) - 1) /\ PropNamed(t, k, s)
  BY DEF Props
<1>2. Tag(t, k) = 3 /\ Reads(t.mem, Strings(t) + NameOff(t, k), s)
  BY <1>1, Zenon DEF PropNamed
<1>3. IsProp(t, k) /\ NameOff(t, k) \in Nat
  BY <1>1, <1>2, KindIs
<1>4. NameOff(t, k) < SearchLimit
  BY Zenon DEF LaidOut
<1>. QED
  BY <1>1, <1>2, <1>3, <1>4

LEMMA FirstProp ==
    ASSUME NEW t, LaidOut(t), NEW S, S \subseteq 1 .. (Last(t) - 1), S # {}
    PROVE  /\ Min(S) \in S /\ Min(S) \in 1 .. (Last(t) - 1) /\ \A k \in S : Min(S) <= k
           /\ FirstValue(t, S) = ValueOf(t, Min(S))
           /\ FirstValue(t, S).pos = Pos(t, Min(S)) + 3 * W
           /\ FirstValue(t, S).len = ValueLen(t, Min(S))
<1>1. S \subseteq Nat
  BY TreeIs
<1>2. Min(S) \in S /\ \A k \in S : Min(S) <= k
  BY <1>1, MinIs
<1>. QED
  BY <1>2 DEF FirstValue, ValueOf

(* Only a value is written, or the last byte of its name's offset.         *)
LEMMA ArgsCellsIn ==
    ASSUME NEW t, LaidOut(t), NEW c \in ArgsCells(t)
    PROVE  LET a == Min(Props(t, BootargsName)) IN
           /\ a \in Props(t, BootargsName) /\ a \in 1 .. (Last(t) - 1) /\ Last(t) > 1
           /\ c \in Nat /\ c < Pos(t, a + 1) /\ Pos(t, a) + 3 * W - 1 <= c
           /\ ValueLen(t, a) # 0 => Pos(t, a) + 3 * W <= c
<1>. DEFINE S == Props(t, BootargsName)
            a == Min(S)
            b == Pos(t, a) + 3 * W
            l == ValueLen(t, a)
<1>1. S # {} /\ c \in Start(ValueOf(t, a).pos, ValueOf(t, a).len) .. (ValueOf(t, a).pos + ValueOf(t, a).len - 1)
  BY DEF ArgsCells
<1>2. ValueOf(t, a).pos = b /\ ValueOf(t, a).len = l
  BY DEF ValueOf
<1>3. c \in Start(b, l) .. (b + l - 1)
  BY <1>1, <1>2
<1>4. S \subseteq 1 .. (Last(t) - 1)
  BY DEF Props
<1>5. a \in S /\ a \in 1 .. (Last(t) - 1)
  <2>. HIDE DEF S
  <2>. QED
    BY <1>1, <1>4, FirstProp
<1>. HIDE DEF S, a
<1>6. Tag(t, a) = 3
  BY <1>5, PropsAre DEF S
<1>7. b + l <= Pos(t, a + 1)
  BY <1>5, <1>6, NextToken
<1>8. Pos(t, a) \in Nat /\ Pos(t, a + 1) \in Nat /\ l \in Nat /\ Last(t) > 1 /\ W \in Nat /\ W >= 1
  BY <1>5, KindIs, Widths
<1>9. b \in Nat /\ b >= 1
  BY <1>8
<1>10. l = 0 => Start(b, l) = b - 1
  BY DEF Start
<1>11. l # 0 => Start(b, l) = b
  BY DEF Start
<1>. HIDE DEF b, l
<1>12. c \in Nat /\ c < Pos(t, a + 1) /\ b - 1 <= c /\ (l # 0 => b <= c)
  <2>1. CASE l = 0
    BY <1>3, <1>7, <1>8, <1>9, <1>10, <2>1
  <2>2. CASE l # 0
    BY <1>3, <1>7, <1>8, <1>9, <1>11, <2>2
  <2>. QED
    BY <2>1, <2>2
<1>. QED
  BY <1>5, <1>8, <1>12 DEF S, a, b, l

(* What the updates have before them when the first one is over.           *)
LEMMA KeptBytes ==
    ASSUME LaidOut(given), DOMAIN dtb = DOMAIN given.mem, Kept, NEW c, c \notin ArgsCells(given)
    PROVE  At(c) = ByteAt(given.mem, c)
BY DEF Kept, At, ByteAt

(* Outside the property bootargs, all bytes are as they were.              *)
LEMMA KeptOutside ==
    ASSUME LaidOut(given), DOMAIN dtb = DOMAIN given.mem, Kept, NEW c \in Nat,
           \/ Last(given) > 1 => c < 10 * W \/ Pos(given, Last(given)) <= c
           \/ \E k \in 1 .. (Last(given) - 1) :
                 /\ \/ Tag(given, k) # 3 \/ c < Pos(given, k) + 2 * W
                    \/ c < Pos(given, k) + 3 * W /\ ValueLen(given, k) # 0
                 /\ Pos(given, k) <= c /\ c < Pos(given, k + 1)
    PROVE  At(c) = ByteAt(given.mem, c)
<1>1. SUFFICES ASSUME c \in ArgsCells(given) PROVE FALSE
  BY KeptBytes
<1>. DEFINE N == Last(given)
            a == Min(Props(given, BootargsName))
<1>2. /\ a \in Props(given, BootargsName) /\ a \in 1 .. (N - 1) /\ N > 1
      /\ c < Pos(given, a + 1) /\ Pos(given, a) + 3 * W - 1 <= c
      /\ ValueLen(given, a) # 0 => Pos(given, a) + 3 * W <= c
  BY <1>1, ArgsCellsIn
<1>. HIDE DEF a
<1>3. /\ Tag(given, a) = 3 /\ Pos(given, a) \in Nat /\ Pos(given, a + 1) \in Nat
      /\ a \in 1 .. N /\ a + 1 \in 1 .. N /\ W \in Nat /\ W >= 1 /\ Pos(given, N) \in Nat
      /\ N \in Nat /\ N \in 1 .. N
  <2>1. Tag(given, a) = 3
    BY <1>2, PropsAre
  <2>2. /\ a \in 1 .. N /\ a + 1 \in 1 .. N
        /\ Pos(given, a) \in Nat /\ Pos(given, a + 1) \in Nat
    BY <1>2, KindIs
  <2>3. N \in Nat /\ N \in 1 .. N
    BY TreeIs
  <2>4. Pos(given, N) \in Nat
    BY <2>3, TreeIs
  <2>. QED
    BY <2>1, <2>2, <2>3, <2>4, Widths
<1>4. 10 * W <= Pos(given, a) /\ Pos(given, a + 1) <= Pos(given, N)
  BY <1>2, <1>3, Between
<1>5. ~ (c < 10 * W) /\ ~ (Pos(given, N) <= c)
  BY <1>2, <1>3, <1>4
<1>6. PICK k \in 1 .. (N - 1) :
                 /\ \/ Tag(given, k) # 3 \/ c < Pos(given, k) + 2 * W
                    \/ c < Pos(given, k) + 3 * W /\ ValueLen(given, k) # 0
                 /\ Pos(given, k) <= c /\ c < Pos(given, k + 1)
  BY <1>2, <1>5
<1>7. Pos(given, k) \in Nat /\ Pos(given, k + 1) \in Nat /\ k \in 1 .. N /\ k + 1 \in 1 .. N
  BY <1>6, KindIs
<1>8. ~ (k < a)
  <2>1. SUFFICES ASSUME k < a PROVE FALSE
    OBVIOUS
  <2>2. Pos(given, k + 1) <= Pos(given, a)
    BY <2>1, <1>3, <1>7, Ordered
  <2>. QED
    BY <2>2, <1>2, <1>3, <1>6, <1>7
<1>9. ~ (a < k)
  <2>1. SUFFICES ASSUME a < k PROVE FALSE
    OBVIOUS
  <2>2. Pos(given, a + 1) <= Pos(given, k)
    BY <2>1, <1>3, <1>7, Ordered
  <2>. QED
    BY <2>2, <1>2, <1>3, <1>6, <1>7
<1>10. a = k
  BY <1>2, <1>6, <1>8, <1>9
<1>11. c < Pos(given, a) + 2 * W \/ (c < Pos(given, a) + 3 * W /\ ValueLen(given, a) # 0)
  BY <1>3, <1>6, <1>10
<1>. QED
  BY <1>2, <1>3, <1>11

(* The header, tokens, lengths and node names read as they did.            *)
LEMMA HeaderKept ==
    ASSUME LaidOut(given), DOMAIN dtb = DOMAIN given.mem, Kept
    PROVE  /\ off_struct = Struct(given) /\ off_strings = Strings(given)
           /\ size_dt_strings = WordAt(given.mem, 8 * W)
           /\ size_dt_struct = WordAt(given.mem, 9 * W)
           /\ HasMagic <=> Starts(given.mem)
<1>1. W \in Nat \ {0}
  BY Widths
<1>2. \A c \in 0 .. (10 * W - 1) : ByteAt(dtb, c) = ByteAt(given.mem, c)
  <2>1. TAKE c \in 0 .. (10 * W - 1)
  <2>2. c \in Nat /\ c < 10 * W
    BY <1>1
  <2>. QED
    BY <2>2, KeptOutside DEF At
<1>3. \A a \in 0 .. (9 * W) : WordAt(dtb, a) = WordAt(given.mem, a)
  <2>1. TAKE a \in 0 .. (9 * W)
  <2>2. a \in Int /\ \A c \in a .. (a + W - 1) : c \in 0 .. (10 * W - 1)
    BY <1>1
  <2>. QED
    BY <2>2, <1>2, WordSame
<1>4. 2 * W \in 0 .. (9 * W) /\ 3 * W \in 0 .. (9 * W) /\ 8 * W \in 0 .. (9 * W) /\ 9 * W \in 0 .. (9 * W)
  BY <1>1
<1>5. \A i \in 1 .. W : i - 1 \in 0 .. (10 * W - 1)
  BY <1>1
<1>6. HasMagic <=> Starts(given.mem)
  BY <1>2, <1>5 DEF HasMagic, Starts
<1>. QED
  BY <1>3, <1>4, <1>6
     DEF off_struct, off_strings, size_dt_strings, size_dt_struct, Word, Struct, Strings

LEMMA TokenKept ==
    ASSUME LaidOut(given), DOMAIN dtb = DOMAIN given.mem, Kept, NEW k \in 1 .. Last(given)
    PROVE  Word(Pos(given, k)) = Tag(given, k)
<1>. DEFINE a == Pos(given, k)
<1>1. a \in Nat /\ W \in Nat \ {0} /\ Last(given) \in Nat
  BY TreeIs, Widths
<1>2. \A c \in a .. (a + W - 1) : ByteAt(dtb, c) = ByteAt(given.mem, c)
  <2>1. TAKE c \in a .. (a + W - 1)
  <2>2. c \in Nat
    BY <1>1
  <2>3. CASE k = Last(given)
    <3>1. Pos(given, Last(given)) <= c
      BY <1>1, <2>3
    <3>. QED
      BY <3>1, <2>2, KeptOutside DEF At
  <2>4. CASE k # Last(given)
    <3>1. k \in 1 .. (Last(given) - 1)
      BY <2>4, <1>1
    <3>2. a + W <= Pos(given, k + 1) /\ Pos(given, k + 1) \in Nat
      BY <3>1, NextToken, KindIs
    <3>3. a <= c /\ c < Pos(given, k + 1) /\ c < a + 2 * W
      BY <3>2, <1>1
    <3>. QED
      BY <3>1, <3>3, <2>2, KeptOutside DEF At
  <2>. QED
    BY <2>3, <2>4
<1>3. WordAt(dtb, a) = WordAt(given.mem, a)
  <2>1. a \in Int
    BY <1>1
  <2>. QED
    BY <2>1, <1>2, WordSame
<1>. QED
  BY <1>3 DEF Word, Tag

LEMMA PropKept ==
    ASSUME LaidOut(given), DOMAIN dtb = DOMAIN given.mem, Kept,
           NEW k \in 1 .. (Last(given) - 1), Tag(given, k) = 3
    PROVE  /\ Word(Pos(given, k) + W) = ValueLen(given, k)
           /\ ValueLen(given, k) # 0 => Word(Pos(given, k) + 2 * W) = NameOff(given, k)
<1>. DEFINE a == Pos(given, k)
<1>1. a \in Nat /\ W \in Nat \ {0} /\ Pos(given, k + 1) \in Nat /\ ValueLen(given, k) \in Nat
  BY KindIs, Widths
<1>2. a + 3 * W + ValueLen(given, k) <= Pos(given, k + 1)
  BY NextToken
<1>3. \A c \in (a + W) .. (a + 2 * W - 1) : ByteAt(dtb, c) = ByteAt(given.mem, c)
  <2>1. TAKE c \in (a + W) .. (a + 2 * W - 1)
  <2>2. c \in Nat /\ a <= c /\ c < Pos(given, k + 1) /\ c < a + 2 * W
    BY <1>1, <1>2
  <2>. QED
    BY <2>2, KeptOutside DEF At
<1>4. ASSUME ValueLen(given, k) # 0, NEW c \in (a + 2 * W) .. (a + 3 * W - 1)
      PROVE  ByteAt(dtb, c) = ByteAt(given.mem, c)
  <2>2. c \in Nat /\ a <= c /\ c < Pos(given, k + 1) /\ c < a + 3 * W
    BY <1>1, <1>2
  <2>. QED
    BY <2>2, <1>4, KeptOutside DEF At
<1>5. WordAt(dtb, a + W) = WordAt(given.mem, a + W)
  <2>1. a + W \in Int /\ \A c \in (a + W) .. (a + W + W - 1) : c \in (a + W) .. (a + 2 * W - 1)
    BY <1>1
  <2>. QED
    BY <2>1, <1>3, WordSame
<1>6. ValueLen(given, k) # 0 => WordAt(dtb, a + 2 * W) = WordAt(given.mem, a + 2 * W)
  <2>1. a + 2 * W \in Int /\ \A c \in (a + 2 * W) .. (a + 2 * W + W - 1) : c \in (a + 2 * W) .. (a + 3 * W - 1)
    BY <1>1
  <2>. QED
    BY <2>1, <1>4, WordSame
<1>. QED
  BY <1>5, <1>6 DEF Word, ValueLen, NameOff

LEMMA NodeKept ==
    ASSUME LaidOut(given), DOMAIN dtb = DOMAIN given.mem, Kept,
           NEW k \in 1 .. (Last(given) - 1), Tag(given, k) = 1,
           NEW c \in Pos(given, k) .. (Pos(given, k + 1) - 1)
    PROVE  At(c) = ByteAt(given.mem, c)
<1>1. Pos(given, k) \in Nat /\ Pos(given, k + 1) \in Nat
  BY KindIs
<1>2. c \in Nat /\ Pos(given, k) <= c /\ c < Pos(given, k + 1)
  BY <1>1
<1>. QED
  BY <1>2, KeptOutside

(* So does all that is behind the tokens, with the strings.                *)
LEMMA BehindKept ==
    ASSUME LaidOut(given), DOMAIN dtb = DOMAIN given.mem, Kept,
           NEW a \in Nat, Last(given) > 1 => Pos(given, Last(given)) <= a
    PROVE  /\ Word(a) = WordAt(given.mem, a)
           /\ \A S : \A s \in Seq(S) : IsString(a, s) <=> Reads(given.mem, a, s)
<1>1. ASSUME NEW c \in Int, a <= c PROVE ByteAt(dtb, c) = ByteAt(given.mem, c)
  <2>1. c \in Nat /\ (Last(given) > 1 => Pos(given, Last(given)) <= c)
    BY <1>1, TreeIs
  <2>. QED
    BY <2>1, KeptOutside DEF At
<1>2. WordAt(dtb, a) = WordAt(given.mem, a)
  <2>1. a \in Int /\ \A c \in a .. (a + W - 1) : c \in Int /\ a <= c
    BY Widths
  <2>. QED
    BY <2>1, <1>1, WordSame
<1>3. ASSUME NEW S, NEW s \in Seq(S)
      PROVE  Reads(dtb, a, s) <=> Reads(given.mem, a, s)
  <2>1. a \in Int /\ \A c \in a .. (a + Len(s)) : c \in Int /\ a <= c
    BY LenProperties
  <2>. QED
    BY <2>1, <1>1, ReadsSame
<1>. QED
  BY <1>2, <1>3 DEF Word, IsString

LEMMA StringsKept ==
    ASSUME LaidOut(given), DOMAIN dtb = DOMAIN given.mem, Kept, NEW i \in Nat, NEW S, NEW s \in Seq(S)
    PROVE  IsString(Strings(given) + i, s) <=> Reads(given.mem, Strings(given) + i, s)
<1>1. Strings(given) \in Nat /\ Last(given) \in 1 .. Last(given)
  BY TreeIs
<1>2. Last(given) > 1 => Pos(given, Last(given)) <= Strings(given)
  BY <1>1, Between
<1>3. Pos(given, Last(given)) \in Nat
  BY <1>1, TreeIs
<1>4. Strings(given) + i \in Nat /\ (Last(given) > 1 => Pos(given, Last(given)) <= Strings(given) + i)
  BY <1>1, <1>2, <1>3
<1>. QED
  BY <1>4, BehindKept

(* bootargs lies within the walk's bound. *)
ArgsReached ==
    /\ given.whole /\ Props(given, BootargsName) # {}
    /\ given.args.pos <= Struct(given) + WordAt(given.mem, 8 * W)

(* Where the walk over the tree for bootargs stands: at a token and not    *)
(* behind the property, or else where it can find nothing any more.        *)
ArgsWalk ==
    /\ bootargs_nameoff \in NameOffsets /\ \A i \in NameOffsets : bootargs_nameoff <= i
    /\ end = Struct(given) + WordAt(given.mem, 8 * W)
    /\ \/ \E k \in 1 .. Last(given) :
            /\ p = Pos(given, k)
            /\ \A j \in Props(given, BootargsName) : j >= k
       \/ /\ ~ ArgsReached
          /\ p + 3 * W > end \/ (Tag(given, Last(given)) # 9 /\ p >= Pos(given, Last(given)))

(* Where the walk for memory@0/reg stands: it knows how deep in the tree   *)
(* it is, and how deep memory@0 if it is in that.                          *)
InTree(k) ==
    /\ p = Pos(given, k) /\ depth = Len(Path(given, k))
    /\ in_memory_node \in 0 .. depth
    /\ \A i \in 1 .. depth : IsMemory(given, Path(given, k)[i]) <=> i = in_memory_node
    /\ \A j \in Regs(given) : j >= k

MemoryWalk ==
    /\ end = Struct(given) + WordAt(given.mem, 9 * W) /\ strings = Strings(given)
    /\ \/ \E k \in 1 .. Last(given) : InTree(k)
       \/ Tag(given, Last(given)) # 9 /\ p >= Pos(given, Last(given))

MemoryHolds ==
    given.whole /\ given.reg # NoValue =>
        Word(given.reg.pos) = 0 /\ Word(given.reg.pos + W) = MemorySize

TreeInv ==
    /\ FdtTypeOK /\ given \in Trees /\ cmdline \in Cmdlines
    /\ phase \in {"call_args", "args"} => dtb = given.mem
    /\ phase = "args" => ArgsWalk
    /\ phase \in {"call_memory", "memory"} => Kept
    /\ phase = "memory" => MemoryWalk
    /\ phase \in {"call_memory", "memory", "done"} /\ ArgsReached => ArgsHold
    /\ phase = "done" => OnlyValuesChange /\ MemoryHolds

-----------------------------------------------------------------------------
(* The walk for bootargs.                                                  *)
LEMMA AsLoaded ==
    ASSUME TreeInv, phase \in {"call_args", "args"}
    PROVE  /\ given \in Trees /\ LaidOut(given) /\ dtb = given.mem
           /\ \A a : At(a) = ByteAt(given.mem, a) /\ Word(a) = WordAt(given.mem, a)
           /\ HasMagic <=> Starts(given.mem)
           /\ off_struct = Struct(given) /\ size_dt_strings = WordAt(given.mem, 8 * W)
           /\ \A i : i \in NameOffsets <=>
                 i \in 0 .. (SearchLimit - 1) /\ Reads(given.mem, Strings(given) + i, BootargsName)
<1>1. given \in Trees /\ dtb = given.mem
  BY DEF TreeInv
<1>2. LaidOut(given)
  BY <1>1, FdtAssumption
<1>3. \A a : At(a) = ByteAt(given.mem, a) /\ Word(a) = WordAt(given.mem, a)
  BY <1>1 DEF At, Word
<1>4. off_struct = Struct(given) /\ size_dt_strings = WordAt(given.mem, 8 * W)
  BY <1>3 DEF off_struct, size_dt_strings, Struct
<1>5. \A i : i \in NameOffsets <=>
         i \in 0 .. (SearchLimit - 1) /\ Reads(given.mem, Strings(given) + i, BootargsName)
  BY <1>1, <1>3 DEF NameOffsets, IsString, off_strings, Strings
<1>. QED
  BY <1>1, <1>2, <1>3, <1>4, <1>5 DEF HasMagic

LEMMA CutIsSilent ==
    ASSUME NEW t, LaidOut(t), Tag(t, Last(t)) # 9
    PROVE  Silent(t) /\ ~ t.whole
BY Zenon DEF LaidOut

(* What bootargs' place is in a tree that has it.                          *)
LEMMA ArgsPlace ==
    ASSUME NEW t, LaidOut(t), Props(t, BootargsName) # {}
    PROVE  LET a == Min(Props(t, BootargsName)) IN
           /\ a \in Props(t, BootargsName) /\ a \in 1 .. (Last(t) - 1)
           /\ \A k \in Props(t, BootargsName) : a <= k
           /\ t.args = ValueOf(t, a)
           /\ t.args.pos = Pos(t, a) + 3 * W /\ t.args.len = ValueLen(t, a)
<1>. DEFINE S == Props(t, BootargsName)
<1>1. t.args = FirstValue(t, S)
  BY Zenon DEF LaidOut
<1>2. S \subseteq 1 .. (Last(t) - 1)
  BY DEF Props
<1>. HIDE DEF S
<1>3. /\ Min(S) \in S /\ Min(S) \in 1 .. (Last(t) - 1) /\ \A k \in S : Min(S) <= k
      /\ FirstValue(t, S) = ValueOf(t, Min(S))
      /\ FirstValue(t, S).pos = Pos(t, Min(S)) + 3 * W
      /\ FirstValue(t, S).len = ValueLen(t, Min(S))
  BY <1>2, FirstProp DEF S
<1>. QED
  BY <1>1, <1>3 DEF S

(* In front of bootargs, the walk is at a token and within its bound.      *)
LEMMA ArgsAhead ==
    ASSUME LaidOut(given), ArgsReached, NEW k \in 1 .. Last(given),
           \A j \in Props(given, BootargsName) : j >= k
    PROVE  /\ k \in 1 .. (Last(given) - 1)
           /\ Pos(given, k) + 3 * W <= Struct(given) + WordAt(given.mem, 8 * W)
           /\ Tag(given, k) # 3 =>
                 Pos(given, k + 1) + 3 * W <= Struct(given) + WordAt(given.mem, 8 * W)
<1>. DEFINE a == Min(Props(given, BootargsName))
            b == Struct(given) + WordAt(given.mem, 8 * W)
<1>1. /\ a \in Props(given, BootargsName) /\ a \in 1 .. (Last(given) - 1)
      /\ given.args.pos = Pos(given, a) + 3 * W /\ given.args.pos <= b
  BY ArgsPlace DEF ArgsReached
<1>. HIDE DEF a
<1>2. a >= k /\ Tag(given, a) = 3
  BY <1>1, PropsAre
<1>3. /\ W \in Nat /\ Pos(given, a) \in Nat /\ Pos(given, k) \in Nat /\ b \in Nat
      /\ a \in 1 .. Last(given) /\ Last(given) \in Nat /\ k \in Nat /\ a \in Nat
  <2>1. a \in 1 .. Last(given) /\ Pos(given, a) \in Nat
    BY <1>1, KindIs
  <2>2. Pos(given, k) \in Nat /\ Last(given) \in Nat
    BY TreeIs
  <2>3. Struct(given) \in Nat /\ WordAt(given.mem, 8 * W) \in Nat
    BY TreeIs, WordIn
  <2>. QED
    BY <2>1, <2>2, <2>3, Widths
<1>4. k \in 1 .. (Last(given) - 1)
  BY <1>1, <1>2, <1>3
<1>5. Pos(given, k + 1) \in Nat
  BY <1>4, KindIs
<1>. HIDE DEF b
<1>6. CASE k = a
  BY <1>1, <1>2, <1>3, <1>4, <1>6 DEF b
<1>7. CASE k # a
  <2>1. k < a
    BY <1>1, <1>2, <1>7
  <2>2. Pos(given, k + 1) <= Pos(given, a) /\ Pos(given, k) + W <= Pos(given, a)
    BY <1>3, <2>1, Ordered
  <2>3. Pos(given, k) + 3 * W <= b /\ Pos(given, k + 1) + 3 * W <= b
    BY <1>1, <1>3, <1>5, <2>2
  <2>. QED
    BY <1>4, <2>3 DEF b
<1>. QED
  BY <1>6, <1>7

(* Where the walk reads a tag it knows: at a token, or behind the last of  *)
(* a tree that was cut off.                                                *)
LEMMA ArgsWhere ==
    ASSUME TreeInv, NEW tag \in 1 .. 4, ArgsAt(tag)
    PROVE  /\ LaidOut(given) /\ p \in Nat /\ end \in Nat /\ p + 3 * W <= end
           /\ \/ \E k \in 1 .. (Last(given) - 1) :
                    /\ p = Pos(given, k) /\ Tag(given, k) = tag
                    /\ \A j \in Props(given, BootargsName) : j >= k
              \/ /\ Tag(given, Last(given)) # 9 /\ Silent(given) /\ ~ ArgsReached
                 /\ p >= Pos(given, Last(given)) /\ p < Size(given)
<1>1. phase = "args" /\ p + 3 * W <= end /\ Word(p) = tag
  BY DEF ArgsAt
<1>2. p \in Nat /\ end \in Nat /\ ArgsWalk
  BY <1>1 DEF TreeInv, FdtTypeOK
<1>3. LaidOut(given) /\ Word(p) = WordAt(given.mem, p)
  BY <1>1, AsLoaded
<1>4. Tag(given, Last(given)) # 9 => Silent(given) /\ ~ ArgsReached
  BY <1>3, CutIsSilent DEF ArgsReached
<1>5. p < Size(given)
  <2>1. SUFFICES ASSUME p >= Size(given) PROVE FALSE
    BY <1>2, <1>3, TreeIs
  <2>2. WordAt(given.mem, p) = 0
    BY <2>1, <1>2, <1>3, TreeIs, WordBehind
  <2>. QED
    BY <2>2, <1>1, <1>3
<1>6. ~ (p + 3 * W > end)
  BY <1>1, <1>2, Widths
<1>7. CASE \E k \in 1 .. Last(given) :
             p = Pos(given, k) /\ \A j \in Props(given, BootargsName) : j >= k
  <2>1. PICK k \in 1 .. Last(given) :
             p = Pos(given, k) /\ \A j \in Props(given, BootargsName) : j >= k
    BY <1>7
  <2>2. Tag(given, k) = tag
    BY <1>1, <1>3, <2>1 DEF Tag
  <2>3. CASE k = Last(given)
    <3>1. Tag(given, Last(given)) # 9
      BY <2>2, <2>3
    <3>. QED
      BY <1>1, <1>2, <1>3, <1>4, <1>5, <2>1, <2>3, <3>1
  <2>4. CASE k # Last(given)
    <3>1. k \in 1 .. (Last(given) - 1)
      BY <2>4, <1>3, TreeIs
    <3>. QED
      BY <3>1, <2>1, <2>2, <1>1, <1>2, <1>3
  <2>. QED
    BY <2>3, <2>4
<1>8. CASE /\ ~ ArgsReached
           /\ p + 3 * W > end \/ (Tag(given, Last(given)) # 9 /\ p >= Pos(given, Last(given)))
  BY <1>1, <1>2, <1>3, <1>4, <1>5, <1>6, <1>8
<1>. QED
  BY <1>2, <1>7, <1>8 DEF ArgsWalk

(* A step that only moves p.                                               *)
LEMMA ArgsMoves ==
    ASSUME TreeInv, phase = "args", p' \in Nat,
           UNCHANGED <<phase, dtb, cmdline, end, strings, bootargs_nameoff, depth,
                       in_memory_node, given>>,
           \/ \E k \in 1 .. Last(given) :
                 p' = Pos(given, k) /\ \A j \in Props(given, BootargsName) : j >= k
           \/ /\ ~ ArgsReached
              /\ p' + 3 * W > end \/ (Tag(given, Last(given)) # 9 /\ p' >= Pos(given, Last(given)))
    PROVE  TreeInv'
<1>1. FdtTypeOK'
  BY DEF TreeInv, FdtTypeOK
<1>2. NameOffsets' = NameOffsets
  BY DEF NameOffsets, IsString, off_strings, Word
<1>3. ArgsReached' <=> ArgsReached
  BY DEF ArgsReached
<1>4. ArgsWalk
  BY DEF TreeInv
<1>5. ArgsWalk'
  BY <1>2, <1>3, <1>4 DEF ArgsWalk
<1>. QED
  BY <1>1, <1>5 DEF TreeInv

(* The same for the walk's actions, by where p goes.                       *)
LEMMA ArgsBeginGoes ==
    ASSUME TreeInv, ArgsBegin
    PROVE  /\ p' \in Nat
           /\ \/ \E k \in 1 .. Last(given) :
                    p' = Pos(given, k) /\ \A j \in Props(given, BootargsName) : j >= k
              \/ /\ ~ ArgsReached
                 /\ p' + 3 * W > end \/ (Tag(given, Last(given)) # 9 /\ p' >= Pos(given, Last(given)))
<1>. DEFINE T == {a \in (p + W) .. end : a = end \/ At(a) = 0}
            e == Min(T)
<1>1. phase = "args" /\ ArgsAt(1) /\ p' = Rounded(e + 1)
  BY DEF ArgsBegin, ArgsAt
<1>2. /\ LaidOut(given) /\ p \in Nat /\ end \in Nat /\ p + 3 * W <= end
      /\ \/ \E k \in 1 .. (Last(given) - 1) :
               /\ p = Pos(given, k) /\ Tag(given, k) = 1
               /\ \A j \in Props(given, BootargsName) : j >= k
         \/ /\ Tag(given, Last(given)) # 9 /\ Silent(given) /\ ~ ArgsReached
            /\ p >= Pos(given, Last(given)) /\ p < Size(given)
  BY <1>1, ArgsWhere
<1>3. /\ W \in Nat /\ W >= 1 /\ Space \in Nat
      /\ Size(given) \in Nat /\ Size(given) + 2 * W <= Space
      /\ end = Struct(given) + WordAt(given.mem, 8 * W)
  BY <1>1, <1>2, Widths, SpaceIs, TreeIs DEF TreeInv, ArgsWalk
<1>4. \A a : At(a) = ByteAt(given.mem, a)
  BY <1>1, AsLoaded
<1>5. T \subseteq Nat /\ end \in T
  BY <1>2, <1>3
<1>6. e \in T /\ \A y \in T : e <= y
  <2>. HIDE DEF T
  <2>. QED
    BY <1>5, MinIs
<1>7. e \in (p + W) .. end /\ e \in Nat /\ (e = end \/ At(e) = 0)
  BY <1>5, <1>6
<1>8. \A y \in (p + W) .. end : At(y) = 0 => e <= y
  BY <1>6
<1>. HIDE DEF T, e
<1>9. ASSUME NEW k \in 1 .. (Last(given) - 1), p = Pos(given, k), Tag(given, k) = 1,
             \A j \in Props(given, BootargsName) : j >= k
      PROVE  \/ p' = Pos(given, k + 1) /\ \A j \in Props(given, BootargsName) : j >= k + 1
             \/ ~ ArgsReached /\ p' + 3 * W > end
  <2>1. /\ k + 1 \in 1 .. Last(given) /\ k \in Nat /\ BeginsNode(given, k)
        /\ Pos(given, k + 1) \in Nat /\ Pos(given, k + 1) % W = 0
    BY <1>2, <1>9, KindIs
  <2>2. Pos(given, k + 1) <= Size(given)
    <3>1. Pos(given, k + 1) <= Pos(given, Last(given)) /\ Pos(given, Last(given)) <= Size(given)
      BY <1>2, <2>1, KindIs, Between
    <3>2. Pos(given, Last(given)) \in Nat
      BY <1>2, TreeIs
    <3>. QED
      BY <1>3, <2>1, <3>1, <3>2
  <2>3. PICK z \in (p + W) .. (Pos(given, k + 1) - 1) :
          /\ ByteAt(given.mem, z) = 0
          /\ \A c \in (p + W) .. (z - 1) : ByteAt(given.mem, c) # 0
          /\ Pos(given, k + 1) <= z + W
    BY <1>9, <2>1 DEF BeginsNode
  <2>4. z \in Nat /\ p + W <= z /\ z + 1 <= Pos(given, k + 1)
    BY <1>2, <1>3, <2>1, <2>3
  <2>5. ~ (e < z) \/ e = end
    BY <1>2, <1>3, <1>4, <1>7, <2>3, <2>4
  <2>6. CASE z <= end
    <3>1. z \in (p + W) .. end /\ At(z) = 0
      BY <1>2, <1>3, <1>4, <2>3, <2>4, <2>6
    <3>2. e = z
      BY <3>1, <1>2, <1>7, <1>8, <2>4, <2>5, <2>6
    <3>3. /\ z + 1 \in Nat /\ (z + 1) + W - 1 < Space
          /\ Pos(given, k + 1) \in (z + 1) .. ((z + 1) + W - 1)
      BY <1>3, <2>1, <2>2, <2>3, <2>4
    <3>4. Rounded(z + 1) = Pos(given, k + 1)
      BY <2>1, <3>3, RoundedIs
    <3>5. \A j \in Props(given, BootargsName) : j \in Nat /\ j # k
      BY <1>2, <1>9, PropsAre, KindIs
    <3>6. \A j \in Props(given, BootargsName) : j >= k + 1
      BY <1>9, <2>1, <3>5
    <3>. QED
      BY <1>1, <3>2, <3>4, <3>6
  <2>7. CASE z > end
    <3>1. e = end
      BY <1>2, <1>7, <2>4, <2>5, <2>7
    <3>2. e + 1 \in Nat /\ (e + 1) + W - 1 < Space
      BY <1>2, <1>3, <2>1, <2>2, <2>4, <2>7, <3>1
    <3>3. Rounded(e + 1) >= e + 1 /\ Rounded(e + 1) \in Nat
      BY <3>2, RoundedUp
    <3>4. ArgsReached => Pos(given, k + 1) + 3 * W <= end
      BY <1>2, <1>3, <1>9, KindIs, ArgsAhead
    <3>5. ~ ArgsReached
      BY <1>2, <1>3, <2>1, <2>4, <2>7, <3>4
    <3>. QED
      BY <1>1, <1>2, <1>3, <3>1, <3>3, <3>5
  <2>. QED
    BY <1>2, <2>4, <2>6, <2>7
<1>10. ASSUME Tag(given, Last(given)) # 9, ~ ArgsReached,
              p >= Pos(given, Last(given)), p < Size(given)
       PROVE  p' >= Pos(given, Last(given))
  <2>1. Pos(given, Last(given)) \in Nat
    BY <1>2, TreeIs
  <2>2. e <= Size(given) + W - 1
    <3>1. CASE p + W >= Size(given)
      <4>1. At(p + W) = 0
        BY <3>1, <1>2, <1>3, <1>4, TreeIs, BytesAre
      <4>2. e <= p + W
        BY <4>1, <1>2, <1>3, <1>8
      <4>. QED
        BY <4>2, <1>2, <1>3, <1>7, <1>10
    <3>2. CASE p + W < Size(given) /\ Size(given) <= end
      <4>1. At(Size(given)) = 0
        BY <1>2, <1>3, <1>4, TreeIs, BytesAre
      <4>2. e <= Size(given)
        BY <3>2, <4>1, <1>2, <1>3, <1>8
      <4>. QED
        BY <4>2, <1>3, <1>7
    <3>3. CASE end < Size(given)
      BY <3>3, <1>2, <1>3, <1>7
    <3>. QED
      BY <3>1, <3>2, <3>3, <1>2, <1>3
  <2>3. e + 1 \in Nat /\ (e + 1) + W - 1 < Space
    BY <2>2, <1>3, <1>7
  <2>4. Rounded(e + 1) >= e + 1 /\ Rounded(e + 1) \in Nat
    BY <2>3, RoundedUp
  <2>. QED
    BY <2>1, <2>4, <1>1, <1>2, <1>3, <1>7, <1>10
<1>11. p' \in Nat
  BY <1>1, <1>7, RoundedUp
<1>12. \A k \in 1 .. (Last(given) - 1) : k + 1 \in 1 .. Last(given)
  BY <1>2, KindIs
<1>. QED
  BY <1>2, <1>9, <1>10, <1>11, <1>12

LEMMA ArgsPassGoes ==
    ASSUME TreeInv, ArgsPass
    PROVE  /\ p' \in Nat
           /\ \/ \E k \in 1 .. Last(given) :
                    p' = Pos(given, k) /\ \A j \in Props(given, BootargsName) : j >= k
              \/ /\ ~ ArgsReached
                 /\ p' + 3 * W > end \/ (Tag(given, Last(given)) # 9 /\ p' >= Pos(given, Last(given)))
<1>1. PICK tag \in {2, 4} : ArgsAt(tag)
  BY DEF ArgsPass
<1>2. /\ LaidOut(given) /\ p \in Nat /\ W \in Nat
      /\ \/ \E k \in 1 .. (Last(given) - 1) :
               /\ p = Pos(given, k) /\ Tag(given, k) = tag
               /\ \A j \in Props(given, BootargsName) : j >= k
         \/ /\ Tag(given, Last(given)) # 9 /\ Silent(given) /\ ~ ArgsReached
            /\ p >= Pos(given, Last(given)) /\ p < Size(given)
  BY <1>1, Widths, ArgsWhere
<1>3. p' = p + W
  BY DEF ArgsPass
<1>4. ASSUME NEW k \in 1 .. (Last(given) - 1), p = Pos(given, k), Tag(given, k) = tag,
             \A j \in Props(given, BootargsName) : j >= k
      PROVE  /\ k + 1 \in 1 .. Last(given) /\ p' = Pos(given, k + 1)
             /\ \A j \in Props(given, BootargsName) : j >= k + 1
  <2>1. k + 1 \in 1 .. Last(given) /\ k \in Nat
    BY <1>2, KindIs
  <2>2. Pos(given, k + 1) = p + W
    BY <1>1, <1>2, <1>4, KindIs DEF EndsNode, IsNop
  <2>3. \A j \in Props(given, BootargsName) : j \in Nat /\ j # k
    BY <1>1, <1>2, <1>4, PropsAre, KindIs
  <2>. QED
    BY <1>3, <1>4, <2>1, <2>2, <2>3
<1>5. ASSUME p >= Pos(given, Last(given)) PROVE p' >= Pos(given, Last(given))
  <2>1. Pos(given, Last(given)) \in Nat
    BY <1>2, TreeIs
  <2>. QED
    BY <2>1, <1>2, <1>3, <1>5
<1>6. p' \in Nat
  BY <1>2, <1>3
<1>. QED
  BY <1>2, <1>4, <1>5, <1>6

(* The property whose name begins where the search found bootargs.         *)
LEMMA ArgsFound ==
    ASSUME TreeInv, phase = "args", NEW k \in 1 .. (Last(given) - 1), Tag(given, k) = 3
    PROVE  NameOff(given, k) = bootargs_nameoff <=> k \in Props(given, BootargsName)
<1>1. /\ LaidOut(given)
      /\ \A i : i \in NameOffsets <=>
           i \in 0 .. (SearchLimit - 1) /\ Reads(given.mem, Strings(given) + i, BootargsName)
  BY AsLoaded
<1>2. bootargs_nameoff \in NameOffsets /\ \A i \in NameOffsets : bootargs_nameoff <= i
  BY DEF TreeInv, ArgsWalk
<1>3. bootargs_nameoff \in Nat /\ Reads(given.mem, Strings(given) + bootargs_nameoff, BootargsName)
  BY <1>1, <1>2, Widths
<1>4. ASSUME NameOff(given, k) = bootargs_nameoff PROVE k \in Props(given, BootargsName)
  BY <1>3, <1>4 DEF Props, PropNamed
<1>5. ASSUME k \in Props(given, BootargsName) PROVE NameOff(given, k) = bootargs_nameoff
  <2>1. /\ NameOff(given, k) < SearchLimit /\ NameOff(given, k) \in Nat
        /\ Reads(given.mem, Strings(given) + NameOff(given, k), BootargsName)
    BY <1>1, <1>5, PropsAre
  <2>2. bootargs_nameoff <= NameOff(given, k)
    BY <1>1, <1>2, <2>1, Widths
  <2>3. \A i \in 0 .. (NameOff(given, k) - 1) : ~ Reads(given.mem, Strings(given) + i, BootargsName)
    BY <1>1, <1>5, Zenon DEF LaidOut
  <2>4. ~ (bootargs_nameoff < NameOff(given, k))
    BY <1>3, <2>1, <2>3
  <2>. QED
    BY <1>3, <2>1, <2>2, <2>4
<1>. QED
  BY <1>4, <1>5

LEMMA ArgsProps ==
    ASSUME TreeInv, ArgsAt(3)
    PROVE  /\ LaidOut(given) /\ p \in Nat
           /\ \/ \E k \in 1 .. (Last(given) - 1) :
                    /\ p = Pos(given, k) /\ Tag(given, k) = 3
                    /\ Word(p + W) = ValueLen(given, k)
                    /\ Word(p + 2 * W) = bootargs_nameoff <=> k \in Props(given, BootargsName)
                    /\ \A j \in Props(given, BootargsName) : j >= k
              \/ /\ Tag(given, Last(given)) # 9 /\ ~ ArgsReached
                 /\ p >= Pos(given, Last(given)) /\ Word(p + 2 * W) # bootargs_nameoff
<1>1. phase = "args" /\ Word(p) = 3
  BY DEF ArgsAt
<1>2. /\ LaidOut(given) /\ p \in Nat
      /\ \/ \E k \in 1 .. (Last(given) - 1) :
               /\ p = Pos(given, k) /\ Tag(given, k) = 3
               /\ \A j \in Props(given, BootargsName) : j >= k
         \/ /\ Tag(given, Last(given)) # 9 /\ Silent(given) /\ ~ ArgsReached
            /\ p >= Pos(given, Last(given)) /\ p < Size(given)
  BY ArgsWhere
<1>3. /\ \A a : Word(a) = WordAt(given.mem, a)
      /\ \A i : i \in NameOffsets <=>
           i \in 0 .. (SearchLimit - 1) /\ Reads(given.mem, Strings(given) + i, BootargsName)
  BY <1>1, AsLoaded
<1>4. ASSUME NEW k \in 1 .. (Last(given) - 1), p = Pos(given, k), Tag(given, k) = 3
      PROVE  /\ Word(p + W) = ValueLen(given, k)
             /\ Word(p + 2 * W) = bootargs_nameoff <=> k \in Props(given, BootargsName)
  <2>1. Word(p + W) = ValueLen(given, k) /\ Word(p + 2 * W) = NameOff(given, k)
    BY <1>3, <1>4 DEF ValueLen, NameOff
  <2>2. NameOff(given, k) = bootargs_nameoff <=> k \in Props(given, BootargsName)
    BY <1>1, <1>4, ArgsFound
  <2>. QED
    BY <2>1, <2>2
<1>5. ASSUME Silent(given), p >= Pos(given, Last(given)), p < Size(given)
      PROVE  Word(p + 2 * W) # bootargs_nameoff
  <2>1. SUFFICES ASSUME Word(p + 2 * W) = bootargs_nameoff PROVE FALSE
    OBVIOUS
  <2>2. p \in Pos(given, Last(given)) .. (Size(given) - 1)
    BY <1>2, <1>5, TreeIs
  <2>3. /\ bootargs_nameoff < SearchLimit
        /\ Reads(given.mem, Strings(given) + bootargs_nameoff, BootargsName)
    BY <1>1, <1>3, Widths DEF TreeInv, ArgsWalk
  <2>4. WordAt(given.mem, p) = 3 /\ WordAt(given.mem, p + 2 * W) = bootargs_nameoff
    BY <1>1, <1>3, <2>1
  <2>. QED
    BY <1>5, <2>2, <2>3, <2>4 DEF Silent
<1>. QED
  BY <1>2, <1>4, <1>5

(* Behind a property, its value filled up to whole words.                  *)
LEMMA BehindValue ==
    ASSUME NEW t, LaidOut(t), NEW k \in 1 .. (Last(t) - 1), Tag(t, k) = 3
    PROVE  /\ Pos(t, k) + 3 * W + Rounded(ValueLen(t, k)) = Pos(t, k + 1)
           /\ 2 * W + ValueLen(t, k) < Space
           /\ Pos(t, k) + W + Rounded(2 * W + ValueLen(t, k)) = Pos(t, k + 1)
           /\ Pos(t, k) + 3 * W + ValueLen(t, k) <= Size(t) /\ Pos(t, k + 1) <= Size(t)
<1>. DEFINE a == Pos(t, k)
            b == Pos(t, k + 1)
            l == ValueLen(t, k)
<1>1. /\ k + 1 \in 1 .. Last(t) /\ Last(t) > 1 /\ IsProp(t, k) /\ a % W = 0 /\ b % W = 0
      /\ a \in Nat /\ b \in Nat /\ l \in Nat
  BY KindIs
<1>2. b \in (a + 3 * W + l) .. ((a + 3 * W + l) + W - 1)
  BY <1>1 DEF IsProp
<1>3. W \in Nat /\ W >= 1 /\ Size(t) \in Nat /\ Size(t) + 2 * W <= Space /\ Space \in Nat
  BY Widths, TreeIs, SpaceIs
<1>4. b <= Size(t)
  <2>1. b <= Pos(t, Last(t)) /\ Pos(t, Last(t)) <= Size(t)
    BY <1>1, Between
  <2>2. Pos(t, Last(t)) \in Nat
    BY TreeIs
  <2>. QED
    BY <1>1, <1>3, <2>1, <2>2
<1>5. 10 * W <= a
  BY <1>1, Between, KindIs
<1>. HIDE DEF a, b, l
<1>6. /\ 3 * W \in Nat /\ (3 * W) % W = 0 /\ W % W = 0 /\ W \in Nat
      /\ (a + 3 * W) % W = 0 /\ (a + W) % W = 0
  <2>1. 0 \in Nat /\ 0 % W = 0
    BY Widths
  <2>2. (3 * W) % W = 0 /\ 3 * W \in Nat /\ W % W = 0
    BY <2>1, Multiples
  <2>. QED
    BY <1>1, <1>3, <2>2, Multiples
<1>7. a + 3 * W + Rounded(l) = b
  <2>1. /\ a + 3 * W \in Nat /\ l + W - 1 < Space
        /\ b \in ((a + 3 * W) + l) .. ((a + 3 * W) + l + W - 1)
    BY <1>1, <1>2, <1>3, <1>4
  <2>. QED
    BY <1>1, <1>6, <2>1, RoundedFrom
<1>8. a + W + Rounded(2 * W + l) = b
  <2>1. /\ a + W \in Nat /\ 2 * W + l \in Nat /\ (2 * W + l) + W - 1 < Space
        /\ b \in ((a + W) + (2 * W + l)) .. ((a + W) + (2 * W + l) + W - 1)
    BY <1>1, <1>2, <1>3, <1>4, <1>5
  <2>. QED
    BY <1>1, <1>6, <2>1, RoundedFrom
<1>9. 2 * W + l < Space /\ a + 3 * W + l <= Size(t)
  BY <1>1, <1>2, <1>3, <1>4, <1>5
<1>. QED
  BY <1>4, <1>7, <1>8, <1>9 DEF a, b, l

LEMMA ArgsOtherGoes ==
    ASSUME TreeInv, ArgsOther
    PROVE  /\ p' \in Nat
           /\ \/ \E k \in 1 .. Last(given) :
                    p' = Pos(given, k) /\ \A j \in Props(given, BootargsName) : j >= k
              \/ /\ ~ ArgsReached
                 /\ p' + 3 * W > end \/ (Tag(given, Last(given)) # 9 /\ p' >= Pos(given, Last(given)))
<1>1. ArgsAt(3) /\ Word(p + 2 * W) # bootargs_nameoff /\ p' = p + 3 * W + Rounded(Word(p + W))
  BY DEF ArgsOther
<1>2. /\ LaidOut(given) /\ p \in Nat
      /\ \/ \E k \in 1 .. (Last(given) - 1) :
               /\ p = Pos(given, k) /\ Tag(given, k) = 3
               /\ Word(p + W) = ValueLen(given, k)
               /\ Word(p + 2 * W) = bootargs_nameoff <=> k \in Props(given, BootargsName)
               /\ \A j \in Props(given, BootargsName) : j >= k
         \/ /\ Tag(given, Last(given)) # 9 /\ ~ ArgsReached
            /\ p >= Pos(given, Last(given)) /\ Word(p + 2 * W) # bootargs_nameoff
  BY <1>1, ArgsProps
<1>3. ASSUME NEW k \in 1 .. (Last(given) - 1), p = Pos(given, k), Tag(given, k) = 3,
             Word(p + W) = ValueLen(given, k), k \notin Props(given, BootargsName),
             \A j \in Props(given, BootargsName) : j >= k
      PROVE  /\ k + 1 \in 1 .. Last(given) /\ p' = Pos(given, k + 1)
             /\ \A j \in Props(given, BootargsName) : j >= k + 1
  <2>1. k + 1 \in 1 .. Last(given) /\ k \in Nat
    BY <1>2, KindIs
  <2>2. Pos(given, k + 1) = p'
    BY <1>1, <1>2, <1>3, BehindValue
  <2>3. \A j \in Props(given, BootargsName) : j \in Nat /\ j # k
    BY <1>2, <1>3, PropsAre, KindIs
  <2>. QED
    BY <1>3, <2>1, <2>2, <2>3
<1>4. /\ p' \in Nat
      /\ p >= Pos(given, Last(given)) => p' >= Pos(given, Last(given))
  <2>1. Word(p + W) \in Nat
    <3>1. phase = "args" /\ IsMem(given.mem, Size(given))
      BY <1>1, <1>2, TreeIs DEF ArgsAt
    <3>. QED
      BY <3>1, AsLoaded, WordIn
  <2>2. Rounded(Word(p + W)) \in Nat
    BY <2>1, RoundedUp
  <2>3. Pos(given, Last(given)) \in Nat /\ W \in Nat
    BY <1>2, TreeIs, Widths
  <2>. QED
    BY <1>1, <1>2, <2>2, <2>3
<1>. QED
  BY <1>1, <1>2, <1>3, <1>4

(* What is written into bootargs.                                          *)
LEMMA TerminatedIs ==
    ASSUME NEW s \in Seq(1 .. (Byte - 1)), s # <<>>, NEW len \in Nat
    PROVE  LET e == Terminated(s, len)
               n == Min({Len(s), len - 1})
           IN  /\ e \in Seq(0 .. (Byte - 1))
               /\ len = 0 => Len(e) = 1
               /\ len > 0 => /\ n \in Nat /\ n + 1 <= len /\ Len(e) = n + 1 /\ e[n + 1] = 0
                             /\ SubSeq(s, 1, n) \in Seq(1 .. (Byte - 1)) /\ Len(SubSeq(s, 1, n)) = n
                             /\ \A i \in 1 .. n : e[i] = SubSeq(s, 1, n)[i]
<1>. DEFINE B == 0 .. (Byte - 1)
            C == 1 .. (Byte - 1)
            l == Len(s)
            n == Min({l, len - 1})
            e == Terminated(s, len)
<1>1. l \in Nat /\ 0 \in B /\ s \in Seq(B) /\ l >= 1 /\ s \in Seq(C)
  <2>1. l \in Nat /\ l >= 1
    BY LenProperties, EmptySeq
  <2>2. \A i \in 1 .. l : s[i] \in C
    BY ElementOfSeq
  <2>3. \A x \in C : x \in B
    BY Widths
  <2>4. s \in Seq(B)
    <3>1. SubSeq(s, 1, l) = s
      BY SubSeqFull
    <3>2. \A i \in 1 .. l : s[i] \in B
      BY <2>2, <2>3
    <3>3. SubSeq(s, 1, l) \in Seq(B)
      <4>. HIDE DEF B, l
      <4>. QED
        BY <2>1, <3>2, SubSeqProperties
    <3>. QED
      BY <3>1, <3>3
  <2>. QED
    BY <2>1, <2>4, Widths
<1>2. ASSUME len = 0 PROVE e \in Seq(B) /\ Len(e) = 1
  <2>. DEFINE r == SubSeq(s, 1, len - 1)
  <2>1. ~ (l + 1 <= len)
    BY <1>1, <1>2
  <2>2. e = Append(r, 0)
    BY <2>1 DEF Terminated
  <2>3. len - 1 \in Int /\ len - 1 < 1 /\ \A i \in 1 .. (len - 1) : s[i] \in B
    BY <1>2
  <2>4. r \in Seq(B) /\ Len(r) = 0
    <3>. HIDE DEF B
    <3>. QED
      BY <2>3, SubSeqProperties
  <2>. HIDE DEF r
  <2>5. e \in Seq(B) /\ Len(e) = 1
    <3>. HIDE DEF B, e
    <3>. QED
      BY <1>1, <2>2, <2>4, AppendProperties
  <2>. QED
    BY <2>5
<1>3. ASSUME len > 0
      PROVE  /\ e \in Seq(B) /\ n \in Nat /\ n + 1 <= len /\ Len(e) = n + 1 /\ e[n + 1] = 0
             /\ SubSeq(s, 1, n) \in Seq(C) /\ Len(SubSeq(s, 1, n)) = n
             /\ \A i \in 1 .. n : e[i] = SubSeq(s, 1, n)[i]
  <2>. DEFINE r == SubSeq(s, 1, n)
  <2>1. n = IF l + 1 <= len THEN l ELSE len - 1
    <3>. DEFINE T == {l, len - 1}
    <3>1. T \subseteq Nat /\ T # {}
      BY <1>1, <1>3
    <3>2. Min(T) \in T /\ \A y \in T : Min(T) <= y
      <4>. HIDE DEF T
      <4>. QED
        BY <3>1, MinIs
    <3>3. (Min(T) = l \/ Min(T) = len - 1) /\ Min(T) <= l /\ Min(T) <= len - 1
      BY <3>2
    <3>. QED
      BY <1>1, <1>3, <3>3
  <2>. HIDE DEF n
  <2>2. n \in Nat /\ n <= l /\ n + 1 <= len
    BY <1>1, <1>3, <2>1
  <2>3. \A i \in 1 .. n : s[i] \in C /\ s[i] \in B
    BY <1>1, <2>2, Widths, ElementOfSeq
  <2>4. r \in Seq(C) /\ Len(r) = n /\ r \in Seq(B)
    <3>1. n \in Int /\ 1 \in Int /\ (1 <= n => n - 1 + 1 = n) /\ (~ (1 <= n) => n = 0)
      BY <2>2
    <3>2. r \in Seq(C) /\ Len(r) = IF 1 <= n THEN n - 1 + 1 ELSE 0
      BY <3>1, <2>3, SubSeqProperties
    <3>3. r \in Seq(B)
      BY <3>1, <2>3, SubSeqProperties
    <3>. QED
      BY <3>1, <3>2, <3>3
  <2>5. e = Append(r, 0)
    <3>1. CASE l + 1 <= len
      <4>1. n = l /\ e = Append(s, 0)
        BY <2>1, <3>1 DEF Terminated
      <4>2. r = s
        BY <4>1, SubSeqFull
      <4>. QED
        BY <4>1, <4>2
    <3>2. CASE ~ (l + 1 <= len)
      BY <2>1, <3>2 DEF Terminated
    <3>. QED
      BY <3>1, <3>2
  <2>. HIDE DEF r
  <2>6. /\ e \in Seq(B) /\ Len(e) = n + 1 /\ e[n + 1] = 0
        /\ \A i \in 1 .. n : e[i] = r[i]
    <3>. HIDE DEF B, e
    <3>. QED
      BY <1>1, <2>4, <2>5, AppendProperties
  <2>. QED
    BY <2>2, <2>4, <2>6 DEF r
<1>4. len = 0 \/ len > 0
  OBVIOUS
<1>6. /\ e \in Seq(B)
      /\ len = 0 => Len(e) = 1
      /\ len > 0 => /\ n \in Nat /\ n + 1 <= len /\ Len(e) = n + 1 /\ e[n + 1] = 0
                    /\ SubSeq(s, 1, n) \in Seq(C) /\ Len(SubSeq(s, 1, n)) = n
                    /\ \A i \in 1 .. n : e[i] = SubSeq(s, 1, n)[i]
  <2>. HIDE DEF B, C, n, e
  <2>. QED
    BY <1>2, <1>3, <1>4, Zenon
<1>. QED
  BY <1>6, Zenon

(* What is stored is read, and the other bytes stay.                       *)
Stored(m, a, s) ==
    [c \in DOMAIN m |-> IF c - a \in 0 .. (Len(s) - 1) THEN s[c - a + 1] ELSE m[c]]

(* m2 holds s from a on and is m elsewhere. *)
HoldsFrom(m2, D, m, a, s) ==
    /\ m2 \in [D -> 0 .. (Byte - 1)] /\ DOMAIN m2 = D
    /\ \A c \in D : c \notin a .. (a + Len(s) - 1) => m2[c] = m[c]
    /\ \A i \in 1 .. Len(s) : a + i - 1 \in D => m2[a + i - 1] = s[i]

LEMMA StoreIs ==
    ASSUME NEW D, D \subseteq Int, NEW m \in [D -> 0 .. (Byte - 1)],
           NEW a \in Int, NEW s \in Seq(0 .. (Byte - 1))
    PROVE  HoldsFrom(Stored(m, a, s), D, m, a, s)
<1>. DEFINE m2 == Stored(m, a, s)
<1>1. m2 = [c \in D |-> IF c - a \in 0 .. (Len(s) - 1) THEN s[c - a + 1] ELSE m[c]]
  BY DEF Stored
<1>. HIDE DEF m2
<1>2. Len(s) \in Nat /\ \A i \in 1 .. Len(s) : s[i] \in 0 .. (Byte - 1)
  BY LenProperties, ElementOfSeq
<1>3. ASSUME NEW c \in D PROVE m2[c] \in 0 .. (Byte - 1)
  <2>1. CASE c - a \in 0 .. (Len(s) - 1)
    <3>1. m2[c] = s[c - a + 1] /\ c - a + 1 \in 1 .. Len(s)
      BY <1>1, <1>2, <2>1
    <3>. QED
      BY <3>1, <1>2
  <2>2. CASE c - a \notin 0 .. (Len(s) - 1)
    BY <1>1, <2>2
  <2>. QED
    BY <2>1, <2>2
<1>4. ASSUME NEW c \in D, c \notin a .. (a + Len(s) - 1) PROVE m2[c] = m[c]
  <2>1. c \in Int /\ c - a \notin 0 .. (Len(s) - 1)
    BY <1>2, <1>4
  <2>. QED
    BY <1>1, <2>1
<1>5. ASSUME NEW i \in 1 .. Len(s), a + i - 1 \in D PROVE m2[a + i - 1] = s[i]
  <2>. DEFINE c == a + i - 1
  <2>1. c - a \in 0 .. (Len(s) - 1) /\ c - a + 1 = i
    BY <1>2
  <2>2. m2[c] = s[c - a + 1]
    <3>. HIDE DEF c
    <3>. QED
      BY <1>1, <1>5, <2>1 DEF c
  <2>. QED
    BY <2>1, <2>2
<1>6. m2 \in [D -> 0 .. (Byte - 1)] /\ DOMAIN m2 = D
  BY <1>1, <1>3
<1>. QED
  BY <1>4, <1>5, <1>6 DEF HoldsFrom, m2

LEMMA ArgsSetInv == ASSUME TreeInv, ArgsSet PROVE TreeInv'
<1>. DEFINE len == Word(p + W)
            b == p + 3 * W
            e == Terminated(cmdline, len)
            n == Min({Len(cmdline), len - 1})
            D == DOMAIN given.mem
<1>1. /\ phase = "args" /\ ArgsAt(3) /\ Word(p + 2 * W) = bootargs_nameoff
      /\ Store(Start(b, len), e) /\ phase' = "call_memory"
      /\ UNCHANGED <<cmdline, p, end, strings, bootargs_nameoff, depth, in_memory_node, given>>
  BY DEF ArgsSet, ArgsAt
<1>2. PICK k \in 1 .. (Last(given) - 1) :
        /\ p = Pos(given, k) /\ Tag(given, k) = 3 /\ len = ValueLen(given, k)
        /\ k \in Props(given, BootargsName) /\ \A j \in Props(given, BootargsName) : j >= k
  BY <1>1, ArgsProps
<1>3. LaidOut(given) /\ dtb = given.mem /\ given \in Trees /\ cmdline \in Cmdlines /\ FdtTypeOK
  BY <1>1, AsLoaded DEF TreeInv
<1>4. Min(Props(given, BootargsName)) = k /\ Props(given, BootargsName) # {}
  <2>1. Min(Props(given, BootargsName)) \in Props(given, BootargsName)
        /\ Min(Props(given, BootargsName)) <= k
        /\ Min(Props(given, BootargsName)) \in 1 .. (Last(given) - 1)
    BY <1>2, <1>3, ArgsPlace
  <2>2. Min(Props(given, BootargsName)) >= k
    BY <1>2, <2>1
  <2>3. k \in Nat /\ Last(given) \in Nat
    BY <1>2, <1>3, KindIs, TreeIs
  <2>. QED
    BY <2>1, <2>2, <2>3, <1>2
<1>5. given.args.pos = b /\ given.args.len = len
  BY <1>2, <1>3, <1>4, ArgsPlace
<1>6. ArgsCells(given) = Start(b, len) .. (b + len - 1)
  <2>1. ValueOf(given, k).pos = b /\ ValueOf(given, k).len = len
    BY <1>2 DEF ValueOf
  <2>2. ArgsCells(given) = Start(ValueOf(given, k).pos, ValueOf(given, k).len)
                             .. (ValueOf(given, k).pos + ValueOf(given, k).len - 1)
    BY <1>4 DEF ArgsCells
  <2>. QED
    BY <2>1, <2>2
<1>7. /\ p \in Nat /\ W \in Nat /\ W >= 1 /\ len \in Nat /\ D = 0 .. (Size(given) - 1)
      /\ Size(given) \in Nat /\ dtb \in [D -> 0 .. (Byte - 1)] /\ DOMAIN dtb = D
  <2>1. Pos(given, k) \in Nat /\ ValueLen(given, k) \in Nat
    BY <1>3, KindIs
  <2>2. Size(given) \in Nat /\ D = 0 .. (Size(given) - 1)
    BY <1>3, TreeIs
  <2>3. dtb \in [D -> 0 .. (Byte - 1)] /\ DOMAIN dtb = D
    BY <1>3 DEF FdtTypeOK
  <2>. QED
    BY <1>2, <2>1, <2>2, <2>3, Widths
<1>8. b + len <= Size(given)
  BY <1>2, <1>3, BehindValue
<1>9. cmdline \in Seq(1 .. (Byte - 1)) /\ cmdline # <<>>
  BY <1>3, FdtAssumption
<1>10. /\ e \in Seq(0 .. (Byte - 1))
       /\ len = 0 => Len(e) = 1
       /\ len > 0 => /\ n \in Nat /\ n + 1 <= len /\ Len(e) = n + 1 /\ e[n + 1] = 0
                     /\ SubSeq(cmdline, 1, n) \in Seq(1 .. (Byte - 1))
                     /\ Len(SubSeq(cmdline, 1, n)) = n
                     /\ \A i \in 1 .. n : e[i] = SubSeq(cmdline, 1, n)[i]
  <2>. HIDE DEF len
  <2>. QED
    BY <1>7, <1>9, TerminatedIs
<1>. HIDE DEF len, e, n, b, D
<1>99. /\ b \in Nat /\ b >= 1 /\ len \in Nat /\ Len(e) \in Nat
       /\ len = 0 => Len(e) = 1
       /\ len > 0 => n \in Nat /\ n + 1 <= len /\ Len(e) = n + 1
  BY <1>7, <1>10, LenProperties DEF b
<1>11. /\ len = 0 => Start(b, len) = b - 1
       /\ len > 0 => Start(b, len) = b
  BY DEF Start
<1>12. Start(b, len) \in Int /\ D \subseteq Int
  BY <1>7, <1>99, <1>11
<1>13. /\ dtb' \in [D -> 0 .. (Byte - 1)] /\ DOMAIN dtb' = D
       /\ \A c \in D : c \notin Start(b, len) .. (Start(b, len) + Len(e) - 1) => dtb'[c] = dtb[c]
       /\ \A i \in 1 .. Len(e) : Start(b, len) + i - 1 \in D => dtb'[Start(b, len) + i - 1] = e[i]
  <2>. DEFINE f == Start(b, len)
  <2>1. f \in Int /\ D \subseteq Int /\ dtb \in [D -> 0 .. (Byte - 1)]
        /\ e \in Seq(0 .. (Byte - 1))
    BY <1>7, <1>10, <1>12
  <2>2. dtb' = Stored(dtb, f, e)
    BY <1>1, Zenon DEF Store, Stored
  <2>. HIDE DEF f
  <2>3. HoldsFrom(Stored(dtb, f, e), D, dtb, f, e)
    BY <2>1, StoreIs
  <2>4. HoldsFrom(dtb', D, dtb, f, e)
    BY <2>2, <2>3
  <2>. QED
    BY <2>4 DEF HoldsFrom, f
<1>14. \A c \in D \ ArgsCells(given) : c \notin Start(b, len) .. (Start(b, len) + Len(e) - 1)
  <2>1. TAKE c \in D \ ArgsCells(given)
  <2>2. c \in Int /\ c \notin Start(b, len) .. (b + len - 1)
    BY <1>6, <1>7
  <2>. DEFINE l == Len(e)
              f == Start(b, len)
  <2>3. l \in Nat /\ (len = 0 => l = 1 /\ f = b - 1) /\ (len > 0 => l <= len /\ f = b)
    BY <1>99, <1>11
  <2>4. c \notin f .. (b + len - 1)
    BY <2>2
  <2>. HIDE DEF l, f
  <2>5. c \notin f .. (f + l - 1)
    <3>1. CASE len = 0
      BY <3>1, <1>99, <2>2, <2>3, <2>4
    <3>2. CASE len > 0
      BY <3>2, <1>99, <2>2, <2>3, <2>4
    <3>. QED
      BY <3>1, <3>2, <1>99
  <2>. QED
    BY <2>5 DEF f, l
<1>15. Kept'
  BY <1>1, <1>3, <1>7, <1>13, <1>14 DEF Kept
<1>16. len > 0 => Reads(dtb', b, SubSeq(cmdline, 1, n))
  <2>1. SUFFICES ASSUME len > 0 PROVE Reads(dtb', b, SubSeq(cmdline, 1, n))
    OBVIOUS
  <2>2. \A i \in 1 .. (n + 1) : b + i - 1 \in D /\ dtb'[b + i - 1] = e[i]
    <3>1. TAKE i \in 1 .. (n + 1)
    <3>2. b + i - 1 \in D /\ i \in 1 .. Len(e)
      BY <1>7, <1>99, <1>8, <2>1
    <3>. QED
      BY <3>2, <2>1, <1>11, <1>13
  <2>3. \A i \in 1 .. (n + 1) : ByteAt(dtb', b + i - 1) = e[i]
    BY <2>2, <1>13 DEF ByteAt
  <2>4. DOMAIN SubSeq(cmdline, 1, n) = 1 .. n
    BY <1>10, <2>1, LenProperties
  <2>5. n + 1 \in 1 .. (n + 1) /\ b + (n + 1) - 1 = b + n /\ \A i \in 1 .. n : i \in 1 .. (n + 1)
    BY <1>99, <2>1
  <2>6. \A i \in 1 .. n : ByteAt(dtb', b + i - 1) = SubSeq(cmdline, 1, n)[i]
    BY <2>3, <2>5, <1>10, <2>1
  <2>7. ByteAt(dtb', b + n) = 0
    BY <2>3, <2>5, <1>10, <2>1
  <2>. QED
    BY <2>4, <2>6, <2>7, <1>10, <2>1 DEF Reads
<1>17. ArgsHold'
  BY <1>1, <1>5, <1>16 DEF ArgsHold, IsString, n
<1>18. FdtTypeOK'
  BY <1>1, <1>3, <1>13 DEF FdtTypeOK, D
<1>. QED
  BY <1>1, <1>3, <1>15, <1>17, <1>18 DEF TreeInv

LEMMA ArgsStopInv == ASSUME TreeInv, ArgsStop PROVE TreeInv'
<1>1. /\ phase = "args" /\ phase' = "call_memory"
      /\ p + 3 * W > end \/ Word(p) \notin 1 .. 4
      /\ UNCHANGED <<dtb, cmdline, p, end, strings, bootargs_nameoff, depth, in_memory_node, given>>
  BY DEF ArgsStop
<1>2. /\ LaidOut(given) /\ dtb = given.mem /\ given \in Trees /\ cmdline \in Cmdlines
      /\ FdtTypeOK /\ ArgsWalk /\ Word(p) = WordAt(given.mem, p)
  BY <1>1, AsLoaded DEF TreeInv
<1>3. ~ ArgsReached
  <2>1. SUFFICES ASSUME ArgsReached PROVE FALSE
    OBVIOUS
  <2>2. PICK k \in 1 .. Last(given) :
             p = Pos(given, k) /\ \A j \in Props(given, BootargsName) : j >= k
    BY <1>2, <2>1 DEF ArgsWalk
  <2>3. k \in 1 .. (Last(given) - 1) /\ p + 3 * W <= end
    BY <1>2, <2>1, <2>2, ArgsAhead DEF ArgsWalk
  <2>4. Tag(given, k) \in 1 .. 4
    BY <1>2, <2>3, KindIs
  <2>5. Word(p) \in 1 .. 4
    BY <1>2, <2>2, <2>4 DEF Tag
  <2>6. ~ (p + 3 * W > end)
    BY <1>2, <2>3, Widths DEF FdtTypeOK
  <2>. QED
    BY <1>1, <2>5, <2>6
<1>4. FdtTypeOK'
  BY <1>1, <1>2 DEF FdtTypeOK
<1>5. Kept'
  BY <1>1, <1>2 DEF Kept
<1>6. ~ ArgsReached'
  BY <1>1, <1>3 DEF ArgsReached
<1>. QED
  BY <1>1, <1>2, <1>4, <1>5, <1>6 DEF TreeInv

LEMMA ArgsWalkInv ==
    ASSUME TreeInv, ArgsBegin \/ ArgsPass \/ ArgsOther
    PROVE  TreeInv'
<1>1. /\ phase = "args"
      /\ UNCHANGED <<phase, dtb, cmdline, end, strings, bootargs_nameoff, depth,
                     in_memory_node, given>>
  BY DEF ArgsBegin, ArgsPass, ArgsOther, ArgsAt
<1>2. /\ p' \in Nat
      /\ \/ \E k \in 1 .. Last(given) :
               p' = Pos(given, k) /\ \A j \in Props(given, BootargsName) : j >= k
         \/ /\ ~ ArgsReached
            /\ p' + 3 * W > end \/ (Tag(given, Last(given)) # 9 /\ p' >= Pos(given, Last(given)))
  <2>1. CASE ArgsBegin
    BY <2>1, ArgsBeginGoes
  <2>2. CASE ArgsPass
    BY <2>2, ArgsPassGoes
  <2>3. CASE ArgsOther
    BY <2>3, ArgsOtherGoes
  <2>. QED
    BY <2>1, <2>2, <2>3
<1>. QED
  BY <1>1, <1>2, ArgsMoves

LEMMA CallBootargsInv == ASSUME TreeInv, CallBootargs PROVE TreeInv'
<1>1. /\ phase = "call_args"
      /\ UNCHANGED <<dtb, cmdline, strings, depth, in_memory_node, given>>
  BY DEF CallBootargs
<1>2. /\ LaidOut(given) /\ dtb = given.mem /\ given \in Trees /\ cmdline \in Cmdlines
      /\ HasMagic <=> Starts(given.mem)
      /\ off_struct = Struct(given) /\ size_dt_strings = WordAt(given.mem, 8 * W)
      /\ \A i : i \in NameOffsets <=>
           i \in 0 .. (SearchLimit - 1) /\ Reads(given.mem, Strings(given) + i, BootargsName)
      /\ FdtTypeOK /\ cmdline # <<>>
  BY <1>1, AsLoaded, FdtAssumption DEF TreeInv
<1>3. NameOffsets' = NameOffsets
  BY <1>1 DEF NameOffsets, IsString, off_strings, Word
<1>4. CASE cmdline = <<>> \/ ~ HasMagic \/ NameOffsets = {}
  <2>1. phase' = "call_memory" /\ UNCHANGED <<p, end, bootargs_nameoff>>
    BY <1>4 DEF CallBootargs
  <2>2. ~ ArgsReached
    <3>1. SUFFICES ASSUME ArgsReached PROVE FALSE
      OBVIOUS
    <3>2. given.whole /\ Props(given, BootargsName) # {}
      BY <3>1 DEF ArgsReached
    <3>3. HasMagic
      BY <1>2, <3>2, Zenon DEF LaidOut
    <3>4. PICK a \in Props(given, BootargsName) : TRUE
      BY <3>2
    <3>5. /\ NameOff(given, a) < SearchLimit /\ NameOff(given, a) \in Nat
          /\ Reads(given.mem, Strings(given) + NameOff(given, a), BootargsName)
      BY <1>2, PropsAre
    <3>6. NameOff(given, a) \in NameOffsets
      BY <1>2, <3>5, Widths
    <3>. QED
      BY <1>2, <1>4, <3>3, <3>6
  <2>3. FdtTypeOK' /\ Kept' /\ ~ ArgsReached'
    BY <1>1, <1>2, <2>1, <2>2 DEF FdtTypeOK, Kept, ArgsReached
  <2>. QED
    BY <1>1, <1>2, <2>1, <2>3 DEF TreeInv
<1>5. CASE ~ (cmdline = <<>> \/ ~ HasMagic \/ NameOffsets = {})
  <2>1. /\ bootargs_nameoff' = Min(NameOffsets) /\ p' = off_struct
        /\ end' = off_struct + size_dt_strings /\ phase' = "args"
    BY <1>5 DEF CallBootargs
  <2>2. NameOffsets \subseteq Nat
    BY <1>2, Widths
  <2>3. Min(NameOffsets) \in NameOffsets /\ \A i \in NameOffsets : Min(NameOffsets) <= i
    BY <1>5, <2>2, MinIs
  <2>4. Min(NameOffsets) < SearchLimit
    BY <1>2, <2>3, Widths
  <2>5. /\ Last(given) \in Nat \ {0} /\ p' = Pos(given, 1) /\ p' \in Nat
        /\ end' = Struct(given) + WordAt(given.mem, 8 * W) /\ end' \in Nat
    <3>1. Struct(given) \in Nat /\ WordAt(given.mem, 8 * W) \in Nat /\ Last(given) \in Nat \ {0}
          /\ Pos(given, 1) = Struct(given)
      BY <1>2, TreeIs, WordIn
    <3>. QED
      BY <1>2, <2>1, <3>1
  <2>6. \A j \in Props(given, BootargsName) : j >= 1
    BY <1>2, TreeIs DEF Props
  <2>7. FdtTypeOK'
    BY <1>1, <1>2, <2>1, <2>4, <2>5 DEF FdtTypeOK
  <2>8. ArgsWalk'
    <3>1. 1 \in 1 .. Last(given)
      BY <2>5
    <3>2. /\ bootargs_nameoff' \in NameOffsets'
          /\ \A i \in NameOffsets' : bootargs_nameoff' <= i
      BY <1>3, <2>1, <2>3
    <3>. QED
      BY <1>1, <2>5, <2>6, <3>1, <3>2 DEF ArgsWalk
  <2>. QED
    BY <1>1, <1>2, <2>1, <2>7, <2>8 DEF TreeInv
<1>. QED
  BY <1>4, <1>5

-----------------------------------------------------------------------------
(* The walk for memory@0/reg.                                              *)
LEMMA RegsAre ==
    ASSUME NEW t, LaidOut(t), NEW k \in Regs(t)
    PROVE  /\ k \in Props(t, RegName) /\ k \in 1 .. (Last(t) - 1) /\ k \in Nat /\ Tag(t, k) = 3
           /\ ValueLen(t, k) = 2 * W /\ IsMemory(t, Path(t, k)[Len(Path(t, k))])
           /\ Reads(t.mem, Strings(t) + NameOff(t, k), RegName)
           /\ NameOff(t, k) < SearchLimit /\ NameOff(t, k) \in Nat
<1>1. k \in Props(t, RegName)
      /\ ValueLen(t, k) = 2 * W /\ IsMemory(t, Path(t, k)[Len(Path(t, k))])
  BY DEF Regs
<1>2. /\ k \in 1 .. (Last(t) - 1) /\ Tag(t, k) = 3
      /\ Reads(t.mem, Strings(t) + NameOff(t, k), RegName)
      /\ NameOff(t, k) < SearchLimit /\ NameOff(t, k) \in Nat
  BY <1>1, PropsAre
<1>3. k \in Nat
  BY <1>2, KindIs
<1>. QED
  BY <1>1, <1>2, <1>3

LEMMA AsKept ==
    ASSUME TreeInv
    PROVE  /\ given \in Trees /\ LaidOut(given) /\ cmdline \in Cmdlines /\ FdtTypeOK
           /\ DOMAIN dtb = DOMAIN given.mem /\ IsMem(dtb, Size(given))
           /\ \A a : Word(a) \in Nat /\ Word(a) < Space
           /\ phase \in {"call_memory", "memory"} => Kept
           /\ phase = "memory" => MemoryWalk
           /\ {p, end, strings, depth, in_memory_node} \subseteq Nat
<1>1. given \in Trees /\ FdtTypeOK /\ cmdline \in Cmdlines
  BY DEF TreeInv
<1>2. LaidOut(given)
  BY <1>1, FdtAssumption
<1>3. dtb \in [DOMAIN given.mem -> 0 .. (Byte - 1)] /\ DOMAIN dtb = DOMAIN given.mem
      /\ {p, end, strings, depth, in_memory_node} \subseteq Nat
  BY <1>1 DEF FdtTypeOK
<1>4. DOMAIN given.mem = 0 .. (Size(given) - 1) /\ Size(given) \in Nat
  BY <1>2, TreeIs
<1>5. IsMem(dtb, Size(given))
  BY <1>3, <1>4 DEF IsMem
<1>6. \A a : Word(a) \in Nat /\ Word(a) < Space
  BY <1>5, WordIn DEF Word
<1>. QED
  BY <1>1, <1>2, <1>3, <1>5, <1>6 DEF TreeInv

(* Where the walk reads a tag it knows: at a token, or behind the last of  *)
(* a tree that was cut off.                                                *)
LEMMA MemoryWhere ==
    ASSUME TreeInv, NEW tag \in 1 .. 4, MemoryAt(tag)
    PROVE  \/ \E k \in 1 .. (Last(given) - 1) : InTree(k) /\ Tag(given, k) = tag
           \/ /\ Tag(given, Last(given)) # 9 /\ Silent(given)
              /\ p >= Pos(given, Last(given)) /\ p < Size(given)
<1>1. phase = "memory" /\ Word(p) = tag
  BY DEF MemoryAt
<1>2. /\ LaidOut(given) /\ Kept /\ DOMAIN dtb = DOMAIN given.mem /\ p \in Nat
      /\ IsMem(dtb, Size(given)) /\ MemoryWalk
  BY <1>1, AsKept
<1>3. p < Size(given)
  <2>1. SUFFICES ASSUME p >= Size(given) PROVE FALSE
    BY <1>2, TreeIs
  <2>2. WordAt(dtb, p) = 0
    BY <2>1, <1>2, TreeIs, WordBehind
  <2>. QED
    BY <2>2, <1>1 DEF Word
<1>4. Tag(given, Last(given)) # 9 => Silent(given)
  BY <1>2, CutIsSilent
<1>5. ASSUME NEW k \in 1 .. Last(given), InTree(k)
      PROVE  \/ \E j \in 1 .. (Last(given) - 1) : InTree(j) /\ Tag(given, j) = tag
             \/ Tag(given, Last(given)) # 9 /\ p >= Pos(given, Last(given))
  <2>1. p = Pos(given, k)
    BY <1>5 DEF InTree
  <2>2. Tag(given, k) = tag
    BY <1>1, <1>2, <2>1, TokenKept
  <2>3. CASE k = Last(given)
    BY <1>2, <2>1, <2>2, <2>3
  <2>4. CASE k # Last(given)
    <3>1. k \in 1 .. (Last(given) - 1)
      BY <2>4, <1>2, TreeIs
    <3>. QED
      BY <3>1, <1>5, <2>2
  <2>. QED
    BY <2>3, <2>4
<1>. QED
  BY <1>2, <1>3, <1>4, <1>5 DEF MemoryWalk

(* A step that leaves the tree as it is.                                   *)
LEMMA MemoryMoves ==
    ASSUME TreeInv, phase = "memory", {p', depth', in_memory_node'} \subseteq Nat,
           UNCHANGED <<phase, dtb, cmdline, end, strings, bootargs_nameoff, given>>,
           \/ \E k \in 1 .. Last(given) :
                 /\ p' = Pos(given, k) /\ depth' = Len(Path(given, k))
                 /\ in_memory_node' \in 0 .. depth'
                 /\ \A i \in 1 .. depth' :
                       IsMemory(given, Path(given, k)[i]) <=> i = in_memory_node'
                 /\ \A j \in Regs(given) : j >= k
           \/ Tag(given, Last(given)) # 9 /\ p' >= Pos(given, Last(given))
    PROVE  TreeInv'
<1>1. FdtTypeOK'
  BY DEF TreeInv, FdtTypeOK
<1>2. ArgsReached' <=> ArgsReached
  BY DEF ArgsReached
<1>3. ArgsHold' <=> ArgsHold
  BY DEF ArgsHold, IsString
<1>4. Kept' <=> Kept
  BY DEF Kept
<1>5. MemoryWalk
  BY DEF TreeInv
<1>6. MemoryWalk'
  BY <1>5 DEF MemoryWalk, InTree
<1>. QED
  BY <1>1, <1>2, <1>3, <1>4, <1>6 DEF TreeInv

LEMMA MemoryNopInv == ASSUME TreeInv, MemoryNop PROVE TreeInv'
<1>1. /\ MemoryAt(4) /\ phase = "memory" /\ p' = p + W
      /\ UNCHANGED <<phase, dtb, cmdline, end, strings, bootargs_nameoff, depth,
                     in_memory_node, given>>
  BY DEF MemoryNop, MemoryAt
<1>2. LaidOut(given) /\ {p, depth, in_memory_node} \subseteq Nat /\ W \in Nat
  BY AsKept, Widths
<1>3. ASSUME NEW k \in 1 .. (Last(given) - 1), InTree(k), Tag(given, k) = 4
      PROVE  /\ k + 1 \in 1 .. Last(given) /\ p' = Pos(given, k + 1)
             /\ Path(given, k + 1) = Path(given, k)
             /\ \A j \in Regs(given) : j >= k + 1
  <2>1. /\ k + 1 \in 1 .. Last(given) /\ k \in Nat
        /\ Pos(given, k + 1) = Pos(given, k) + W /\ Path(given, k + 1) = Path(given, k)
    BY <1>2, <1>3, KindIs DEF IsNop
  <2>2. \A j \in Regs(given) : j \in Nat /\ j # k
    BY <1>2, <1>3, RegsAre
  <2>. QED
    BY <1>1, <1>3, <2>1, <2>2 DEF InTree
<1>4. ASSUME p >= Pos(given, Last(given)) PROVE p' >= Pos(given, Last(given))
  <2>1. Pos(given, Last(given)) \in Nat
    BY <1>2, TreeIs
  <2>. QED
    BY <1>1, <1>2, <1>4, <2>1
<1>5. \/ \E k \in 1 .. (Last(given) - 1) : InTree(k) /\ Tag(given, k) = 4
      \/ Tag(given, Last(given)) # 9 /\ p >= Pos(given, Last(given))
  BY <1>1, MemoryWhere
<1>6. {p', depth', in_memory_node'} \subseteq Nat
  BY <1>1, <1>2
<1>7. CASE \E k \in 1 .. (Last(given) - 1) : InTree(k) /\ Tag(given, k) = 4
  <2>1. PICK k \in 1 .. (Last(given) - 1) : InTree(k) /\ Tag(given, k) = 4
    BY <1>7
  <2>2. /\ p' = Pos(given, k + 1) /\ depth' = Len(Path(given, k + 1))
        /\ in_memory_node' \in 0 .. depth'
        /\ \A i \in 1 .. depth' :
              IsMemory(given, Path(given, k + 1)[i]) <=> i = in_memory_node'
        /\ \A j \in Regs(given) : j >= k + 1
    BY <1>1, <1>3, <2>1 DEF InTree
  <2>. QED
    BY <1>1, <1>3, <1>6, <2>1, <2>2, MemoryMoves
<1>8. CASE Tag(given, Last(given)) # 9 /\ p >= Pos(given, Last(given))
  BY <1>1, <1>4, <1>6, <1>8, MemoryMoves
<1>. QED
  BY <1>5, <1>7, <1>8

LEMMA MemoryEndInv == ASSUME TreeInv, MemoryEnd PROVE TreeInv'
<1>1. /\ MemoryAt(2) /\ phase = "memory" /\ p' = p + W
      /\ in_memory_node' = IF in_memory_node = depth THEN 0 ELSE in_memory_node
      /\ depth' = IF depth > 0 THEN depth - 1 ELSE 0
      /\ UNCHANGED <<phase, dtb, cmdline, end, strings, bootargs_nameoff, given>>
  BY DEF MemoryEnd, MemoryAt
<1>2. LaidOut(given) /\ {p, depth, in_memory_node} \subseteq Nat /\ W \in Nat
  BY AsKept, Widths
<1>3. {p', depth', in_memory_node'} \subseteq Nat
  BY <1>1, <1>2
<1>4. \/ \E k \in 1 .. (Last(given) - 1) : InTree(k) /\ Tag(given, k) = 2
      \/ Tag(given, Last(given)) # 9 /\ p >= Pos(given, Last(given))
  BY <1>1, MemoryWhere
<1>5. CASE \E k \in 1 .. (Last(given) - 1) : InTree(k) /\ Tag(given, k) = 2
  <2>1. PICK k \in 1 .. (Last(given) - 1) : InTree(k) /\ Tag(given, k) = 2
    BY <1>5
  <2>2. /\ k + 1 \in 1 .. Last(given) /\ k \in Nat /\ EndsNode(given, k)
    BY <1>2, <2>1, KindIs
  <2>3. PICK node \in 1 .. (k - 1) : Path(given, k) = Append(Path(given, k + 1), node)
    BY <2>2 DEF EndsNode
  <2>. DEFINE path == Path(given, k + 1)
              up == Path(given, k)
  <2>4. /\ Len(path) \in Nat /\ Len(up) = Len(path) + 1
        /\ \A i \in 1 .. Len(path) : up[i] = path[i]
    <3>1. path \in Seq(Nat) /\ node \in Nat /\ Len(path) \in Nat
      <4>1. path \in Seq(Nat) /\ Len(path) \in Nat
        BY <1>2, <2>2, TreeIs
      <4>2. node \in Nat
        BY <2>2, <2>3
      <4>. QED
        BY <4>1, <4>2
    <3>. HIDE DEF path
    <3>2. up = Append(path, node)
      BY <2>3 DEF path
    <3>. HIDE DEF up
    <3>. QED
      BY <3>1, <3>2, AppendProperties
  <2>5. /\ p = Pos(given, k) /\ depth = Len(up) /\ in_memory_node \in 0 .. depth
        /\ \A i \in 1 .. depth : IsMemory(given, up[i]) <=> i = in_memory_node
        /\ \A j \in Regs(given) : j >= k
    BY <2>1 DEF InTree
  <2>6. p' = Pos(given, k + 1)
    BY <1>1, <2>2, <2>5 DEF EndsNode
  <2>7. \A j \in Regs(given) : j >= k + 1
    <3>1. \A j \in Regs(given) : j \in Nat /\ j # k
      BY <1>2, <2>1, RegsAre
    <3>. QED
      BY <2>2, <2>5, <3>1
  <2>. HIDE DEF path, up
  <2>8. depth' = Len(path) /\ in_memory_node' \in 0 .. depth'
    BY <1>1, <1>2, <2>4, <2>5
  <2>9. \A i \in 1 .. depth' : IsMemory(given, path[i]) <=> i = in_memory_node'
    <3>1. TAKE i \in 1 .. depth'
    <3>2. i \in 1 .. depth /\ i # depth /\ i # 0 /\ up[i] = path[i]
      BY <2>4, <2>5, <2>8
    <3>3. i = in_memory_node <=> i = in_memory_node'
      BY <1>1, <3>2
    <3>. QED
      BY <2>5, <3>2, <3>3
  <2>. QED
    BY <1>1, <1>3, <2>2, <2>6, <2>7, <2>8, <2>9, MemoryMoves DEF path
<1>6. CASE Tag(given, Last(given)) # 9 /\ p >= Pos(given, Last(given))
  <2>1. Pos(given, Last(given)) \in Nat
    BY <1>2, TreeIs
  <2>2. p' >= Pos(given, Last(given))
    BY <1>1, <1>2, <1>6, <2>1
  <2>. QED
    BY <1>1, <1>3, <1>6, <2>2, MemoryMoves
<1>. QED
  BY <1>4, <1>5, <1>6

(* The walk knows memory@0's reg by what it tests.                         *)
LEMMA RegFound ==
    ASSUME TreeInv, phase = "memory", NEW k \in 1 .. (Last(given) - 1),
           InTree(k), Tag(given, k) = 3
    PROVE  IsMemoryReg <=> k \in Regs(given)
<1>. DEFINE path == Path(given, k)
            l == ValueLen(given, k)
            off == NameOff(given, k)
<1>1. /\ LaidOut(given) /\ Kept /\ DOMAIN dtb = DOMAIN given.mem /\ strings = Strings(given)
      /\ {depth, in_memory_node} \subseteq Nat /\ W \in Nat /\ W >= 1
  BY AsKept, Widths DEF MemoryWalk
<1>2. /\ p = Pos(given, k) /\ depth = Len(path) /\ in_memory_node \in 0 .. depth
      /\ \A i \in 1 .. depth : IsMemory(given, path[i]) <=> i = in_memory_node
  BY DEF InTree
<1>3. /\ Word(p + W) = l /\ (l # 0 => Word(p + 2 * W) = off) /\ l \in Nat /\ off \in Nat
      /\ path # <<>> /\ path \in Seq(Nat) /\ k \in 1 .. Last(given)
  <2>1. IsProp(given, k) /\ l \in Nat /\ off \in Nat /\ k \in 1 .. Last(given)
    BY <1>1, KindIs
  <2>2. path # <<>>
    BY <2>1 DEF IsProp
  <2>3. path \in Seq(Nat)
    BY <1>1, <2>1, TreeIs
  <2>4. Word(p + W) = l /\ (l # 0 => Word(p + 2 * W) = off)
    BY <1>1, <1>2, PropKept
  <2>. QED
    BY <2>1, <2>2, <2>3, <2>4
<1>4. depth \in 1 .. depth /\ depth >= 1
  <2>1. Len(path) \in Nat \ {0}
    BY <1>3, EmptySeq
  <2>. QED
    BY <1>2, <2>1
<1>5. IsMemory(given, path[Len(path)]) <=> in_memory_node = depth
  BY <1>2, <1>4
<1>6. IsString(strings + off, RegName) <=> Reads(given.mem, Strings(given) + off, RegName)
  <2>1. RegName \in Seq(1 .. (Byte - 1))
    BY NamesAssumption
  <2>. QED
    BY <1>1, <1>3, <2>1, StringsKept
<1>7. k \in Regs(given) <=> /\ Reads(given.mem, Strings(given) + off, RegName)
                            /\ l = 2 * W /\ IsMemory(given, path[Len(path)])
  BY DEF Regs, Props, PropNamed
<1>8. IsMemoryReg <=> /\ in_memory_node = depth
                      /\ Word(p + 2 * W) < SearchLimit
                      /\ IsString(strings + Word(p + 2 * W), RegName)
                      /\ Word(p + W) = 2 * W
  BY DEF IsMemoryReg
<1>9. l = 2 * W => Word(p + 2 * W) = off
  BY <1>1, <1>3
<1>10. k \in Regs(given) => off < SearchLimit
  BY <1>1, RegsAre
<1>. HIDE DEF path, l, off
<1>. QED
  BY <1>3, <1>5, <1>6, <1>7, <1>8, <1>9, <1>10

(* Where the walk reads the tag of a property.                             *)
LEMMA MemoryProps ==
    ASSUME TreeInv, MemoryAt(3)
    PROVE  \/ \E k \in 1 .. (Last(given) - 1) :
                 /\ InTree(k) /\ Tag(given, k) = 3 /\ (IsMemoryReg <=> k \in Regs(given))
                 /\ p + W + PropTotal = Pos(given, k + 1)
           \/ /\ Tag(given, Last(given)) # 9 /\ ~ IsMemoryReg
              /\ p >= Pos(given, Last(given)) /\ p < Size(given)
<1>1. /\ phase = "memory" /\ Word(p) = 3
      /\ \/ \E k \in 1 .. (Last(given) - 1) : InTree(k) /\ Tag(given, k) = 3
         \/ /\ Tag(given, Last(given)) # 9 /\ Silent(given)
            /\ p >= Pos(given, Last(given)) /\ p < Size(given)
  BY MemoryWhere DEF MemoryAt
<1>2. /\ LaidOut(given) /\ Kept /\ DOMAIN dtb = DOMAIN given.mem /\ strings = Strings(given)
      /\ p \in Nat /\ W \in Nat /\ W >= 1 /\ Space \in Nat
  BY <1>1, AsKept, Widths, SpaceIs DEF MemoryWalk
<1>3. ASSUME NEW k \in 1 .. (Last(given) - 1), InTree(k), Tag(given, k) = 3
      PROVE  (IsMemoryReg <=> k \in Regs(given)) /\ p + W + PropTotal = Pos(given, k + 1)
  <2>. DEFINE l == ValueLen(given, k)
  <2>1. IsMemoryReg <=> k \in Regs(given)
    BY <1>1, <1>3, RegFound
  <2>2. p = Pos(given, k) /\ Word(p + W) = l
    BY <1>2, <1>3, PropKept DEF InTree
  <2>3. /\ 2 * W + l < Space /\ p + W + Rounded(2 * W + l) = Pos(given, k + 1) /\ l \in Nat
    BY <1>2, <1>3, <2>2, BehindValue, KindIs
  <2>. HIDE DEF l
  <2>4. (2 * W + l) % Space = 2 * W + l
    BY <1>2, <2>3
  <2>5. PropTotal = Rounded(2 * W + l)
    BY <2>2, <2>4 DEF PropTotal
  <2>. QED
    BY <2>1, <2>3, <2>5
<1>4. ASSUME Silent(given), p >= Pos(given, Last(given)), p < Size(given)
      PROVE  ~ IsMemoryReg
  <2>. DEFINE off == Word(p + 2 * W)
  <2>1. SUFFICES ASSUME IsMemoryReg PROVE FALSE
    OBVIOUS
  <2>2. off < SearchLimit /\ IsString(strings + off, RegName)
    BY <2>1 DEF IsMemoryReg
  <2>3. Last(given) \in 1 .. Last(given) /\ Pos(given, Last(given)) \in Nat /\ Size(given) \in Nat
    BY <1>2, TreeIs
  <2>4. WordAt(given.mem, p) = 3 /\ WordAt(given.mem, p + 2 * W) = off /\ off \in Nat
    <3>1. p + 2 * W \in Nat /\ p + 2 * W >= Pos(given, Last(given))
      BY <1>2, <1>4, <2>3
    <3>2. Word(p) = WordAt(given.mem, p) /\ Word(p + 2 * W) = WordAt(given.mem, p + 2 * W)
      BY <1>2, <1>4, <3>1, BehindKept
    <3>. QED
      BY <1>1, <3>2, AsKept
  <2>5. Reads(given.mem, Strings(given) + off, RegName)
    <3>1. RegName \in Seq(1 .. (Byte - 1))
      BY NamesAssumption
    <3>. QED
      BY <1>2, <2>2, <2>4, <3>1, StringsKept
  <2>6. p \in Pos(given, Last(given)) .. (Size(given) - 1)
    BY <1>2, <1>4, <2>3
  <2>. QED
    BY <1>4, <2>2, <2>4, <2>5, <2>6 DEF Silent
<1>. QED
  BY <1>1, <1>3, <1>4

LEMMA MemoryOtherInv == ASSUME TreeInv, MemoryOther PROVE TreeInv'
<1>1. /\ MemoryAt(3) /\ phase = "memory" /\ ~ IsMemoryReg /\ p' = p + W + PropTotal
      /\ UNCHANGED <<phase, dtb, cmdline, end, strings, bootargs_nameoff, depth,
                     in_memory_node, given>>
  BY DEF MemoryOther, MemoryAt
<1>2. LaidOut(given) /\ {p, depth, in_memory_node} \subseteq Nat /\ W \in Nat
  BY AsKept, Widths
<1>3. PropTotal \in Nat
  <2>. DEFINE x == (2 * W + Word(p + W)) % Space
  <2>1. x \in Nat
    BY AsKept, Widths, SpaceIs
  <2>. HIDE DEF x
  <2>. QED
    BY <2>1, RoundedUp DEF PropTotal, x
<1>4. {p', depth', in_memory_node'} \subseteq Nat
  BY <1>1, <1>2, <1>3
<1>5. \/ \E k \in 1 .. (Last(given) - 1) :
            /\ InTree(k) /\ Tag(given, k) = 3 /\ k \notin Regs(given)
            /\ p' = Pos(given, k + 1)
      \/ Tag(given, Last(given)) # 9 /\ p >= Pos(given, Last(given))
  BY <1>1, MemoryProps
<1>6. CASE \E k \in 1 .. (Last(given) - 1) :
            /\ InTree(k) /\ Tag(given, k) = 3 /\ k \notin Regs(given)
            /\ p' = Pos(given, k + 1)
  <2>1. PICK k \in 1 .. (Last(given) - 1) :
            /\ InTree(k) /\ Tag(given, k) = 3 /\ k \notin Regs(given)
            /\ p' = Pos(given, k + 1)
    BY <1>6
  <2>2. k + 1 \in 1 .. Last(given) /\ k \in Nat /\ Path(given, k + 1) = Path(given, k)
    BY <1>2, <2>1, KindIs DEF IsProp
  <2>3. \A j \in Regs(given) : j >= k + 1
    <3>1. \A j \in Regs(given) : j \in Nat /\ j # k /\ j >= k
      BY <1>2, <2>1, RegsAre DEF InTree
    <3>. QED
      BY <2>2, <3>1
  <2>4. /\ depth' = Len(Path(given, k + 1)) /\ in_memory_node' \in 0 .. depth'
        /\ \A i \in 1 .. depth' :
              IsMemory(given, Path(given, k + 1)[i]) <=> i = in_memory_node'
    BY <1>1, <2>1, <2>2 DEF InTree
  <2>. QED
    BY <1>1, <1>4, <2>1, <2>2, <2>3, <2>4, MemoryMoves
<1>7. CASE Tag(given, Last(given)) # 9 /\ p >= Pos(given, Last(given))
  <2>1. Pos(given, Last(given)) \in Nat
    BY <1>2, TreeIs
  <2>2. p' >= Pos(given, Last(given))
    BY <1>1, <1>2, <1>3, <1>7, <2>1
  <2>. QED
    BY <1>1, <1>4, <1>7, <2>2, MemoryMoves
<1>. QED
  BY <1>5, <1>6, <1>7

(* The name of a node is read as it was, and as long as it is.             *)
LEMMA NodeName ==
    ASSUME TreeInv, phase = "memory", NEW k \in 1 .. (Last(given) - 1), Tag(given, k) = 1,
           p = Pos(given, k)
    PROVE  /\ IsString(p + W, MemoryName) <=> IsMemory(given, k)
           /\ p + W + Rounded(strlen(p + W) + 1) = Pos(given, k + 1)
<1>. DEFINE a == p + W
            q == Pos(given, k + 1)
            L == Len(MemoryName)
            T == {n \in 0 .. L + Max(DOMAIN dtb) : At(a + n) = 0}
<1>1. /\ LaidOut(given) /\ Kept /\ DOMAIN dtb = DOMAIN given.mem
      /\ W \in Nat /\ W >= 1 /\ p \in Nat
  BY AsKept, Widths
<1>2. BeginsNode(given, k) /\ q \in Nat /\ q % W = 0 /\ p % W = 0 /\ k + 1 \in 1 .. Last(given)
      /\ Last(given) > 1
  BY <1>1, KindIs
<1>3. PICK z \in a .. (q - 1) :
          /\ ByteAt(given.mem, z) = 0
          /\ \A c \in a .. (z - 1) : ByteAt(given.mem, c) # 0
          /\ q <= z + W
  BY <1>2 DEF BeginsNode
<1>4. z \in Nat /\ a <= z /\ z + 1 <= q /\ a \in Nat
  BY <1>1, <1>2, <1>3
<1>5. \A c \in a .. z : At(c) = ByteAt(given.mem, c)
  <2>1. \A c \in a .. z : c \in Pos(given, k) .. (Pos(given, k + 1) - 1)
    BY <1>1, <1>2, <1>4
  <2>. QED
    BY <2>1, <1>1, NodeKept
<1>6. At(z) = 0 /\ \A c \in a .. (z - 1) : At(c) # 0
  BY <1>3, <1>4, <1>5
<1>7. MemoryName \in Seq(1 .. (Byte - 1)) /\ MemoryName # <<>>
  BY NamesAssumption
<1>8. /\ L \in Nat /\ L >= 1 /\ DOMAIN MemoryName = 1 .. L
      /\ \A i \in 1 .. L : MemoryName[i] # 0
  <2>1. L \in Nat \ {0} /\ DOMAIN MemoryName = 1 .. L
    BY <1>7, LenProperties, EmptySeq
  <2>2. \A i \in 1 .. L : MemoryName[i] \in 1 .. (Byte - 1)
    BY <1>7, ElementOfSeq
  <2>. QED
    BY <2>1, <2>2
<1>9. /\ Size(given) \in Nat /\ Size(given) + 2 * W <= Space
      /\ Max(DOMAIN dtb) = Size(given) - 1 /\ Space \in Nat
  BY <1>1, TreeIs, SpaceIs
<1>10. q <= Size(given)
  <2>1. q <= Pos(given, Last(given)) /\ Pos(given, Last(given)) <= Size(given)
    BY <1>1, <1>2, Between
  <2>2. Pos(given, Last(given)) \in Nat
    BY <1>1, TreeIs
  <2>. QED
    BY <1>2, <1>9, <2>1, <2>2
<1>. HIDE DEF a, q, L
<1>11. Reads(dtb, a, MemoryName) <=> Reads(given.mem, a, MemoryName)
  <2>1. CASE a + L <= z
    <3>1. \A c \in a .. (a + L) : ByteAt(dtb, c) = ByteAt(given.mem, c)
      <4>1. \A c \in a .. (a + L) : c \in a .. z
        BY <1>4, <1>8, <2>1
      <4>. QED
        BY <4>1, <1>5 DEF At
    <3>2. a \in Int
      BY <1>4
    <3>. QED
      BY <1>7, <3>1, <3>2, ReadsSame DEF L
  <2>2. CASE z < a + L
    <3>. DEFINE i == z - a + 1
    <3>1. i \in 1 .. L /\ a + i - 1 = z
      BY <1>4, <1>8, <2>2
    <3>. HIDE DEF i
    <3>2. MemoryName[i] # 0 /\ i \in DOMAIN MemoryName
      BY <1>8, <3>1
    <3>3. ByteAt(dtb, a + i - 1) = 0 /\ ByteAt(given.mem, a + i - 1) = 0
      BY <1>3, <1>6, <3>1 DEF At
    <3>4. ~ Reads(dtb, a, MemoryName)
      BY <3>2, <3>3 DEF Reads
    <3>5. ~ Reads(given.mem, a, MemoryName)
      BY <3>2, <3>3 DEF Reads
    <3>. QED
      BY <3>4, <3>5
  <2>. QED
    BY <1>4, <1>8, <2>1, <2>2
<1>12. strlen(a) = z - a
  <2>1. z - a \in T
    <3>1. z - a \in 0 .. L + Max(DOMAIN dtb) /\ a + (z - a) = z
      BY <1>2, <1>4, <1>8, <1>9, <1>10
    <3>. QED
      BY <3>1, <1>6
  <2>2. T \subseteq Nat
    BY <1>8, <1>9
  <2>3. Min(T) \in T /\ \A y \in T : Min(T) <= y
    <3>. HIDE DEF T
    <3>. QED
      BY <2>1, <2>2, MinIs
  <2>4. Min(T) <= z - a
    BY <2>1, <2>3
  <2>5. Min(T) \in Nat /\ At(a + Min(T)) = 0
    BY <2>2, <2>3
  <2>6. ~ (Min(T) < z - a)
    <3>. HIDE DEF T
    <3>1. SUFFICES ASSUME Min(T) < z - a PROVE FALSE
      OBVIOUS
    <3>2. a + Min(T) \in a .. (z - 1)
      BY <1>4, <2>5, <3>1
    <3>. QED
      BY <1>6, <2>5, <3>2
  <2>7. strlen(a) = Min(T)
    BY DEF strlen, L
  <2>. HIDE DEF T
  <2>. QED
    BY <1>4, <2>4, <2>5, <2>6, <2>7
<1>13. a + Rounded(z - a + 1) = q
  <2>1. /\ z - a + 1 \in Nat /\ (z - a + 1) + W - 1 < Space
        /\ q \in (a + (z - a + 1)) .. (a + (z - a + 1) + W - 1)
    BY <1>1, <1>2, <1>3, <1>4, <1>9, <1>10
  <2>2. a % W = 0
    <3>1. 0 \in Nat /\ 0 % W = 0
      BY Widths
    <3>2. W % W = 0
      BY <3>1, Multiples
    <3>. QED
      BY <1>1, <1>2, <3>2, Multiples DEF a
  <2>. QED
    BY <1>2, <1>4, <2>1, <2>2, RoundedFrom
<1>. QED
  BY <1>11, <1>12, <1>13 DEF a, q, IsString, IsMemory

LEMMA MemoryBeginInv == ASSUME TreeInv, MemoryBegin PROVE TreeInv'
<1>1. /\ MemoryAt(1) /\ phase = "memory" /\ depth' = depth + 1
      /\ in_memory_node' = IF IsString(p + W, MemoryName) THEN depth + 1 ELSE in_memory_node
      /\ p' = p + W + Rounded(strlen(p + W) + 1)
      /\ UNCHANGED <<phase, dtb, cmdline, end, strings, bootargs_nameoff, given>>
  BY DEF MemoryBegin, MemoryAt
<1>2. LaidOut(given) /\ {p, depth, in_memory_node} \subseteq Nat /\ W \in Nat
  BY AsKept, Widths
<1>3. Rounded(strlen(p + W) + 1) \in Nat
  <2>. DEFINE L == Len(MemoryName)
              T == {n \in 0 .. L + Max(DOMAIN dtb) : At(p + W + n) = 0}
  <2>1. L \in Nat /\ L >= 1
    <3>1. MemoryName \in Seq(1 .. (Byte - 1)) /\ MemoryName # <<>>
      BY NamesAssumption
    <3>2. L \in Nat \ {0}
      BY <3>1, EmptySeq
    <3>. QED
      BY <3>2
  <2>2. Size(given) \in Nat /\ Max(DOMAIN dtb) = Size(given) - 1 /\ IsMem(dtb, Size(given))
    BY <1>2, AsKept, TreeIs
  <2>. HIDE DEF L
  <2>3. Size(given) \in T
    <3>1. p + W + Size(given) \in Nat /\ p + W + Size(given) >= Size(given)
      BY <1>2, <2>2
    <3>2. At(p + W + Size(given)) = 0
      BY <3>1, <2>2, BytesAre DEF At
    <3>3. Size(given) \in 0 .. L + Max(DOMAIN dtb)
      BY <2>1, <2>2
    <3>. QED
      BY <3>2, <3>3
  <2>4. T \subseteq Nat
    BY <2>1, <2>2
  <2>5. Min(T) \in Nat
    <3>. HIDE DEF T
    <3>1. Min(T) \in T
      BY <2>3, <2>4, MinIs
    <3>. QED
      BY <2>4, <3>1
  <2>6. strlen(p + W) = Min(T)
    BY DEF strlen, L
  <2>. HIDE DEF T
  <2>7. strlen(p + W) + 1 \in Nat
    BY <2>5, <2>6
  <2>. QED
    BY <2>7, RoundedUp
<1>4. {p', depth', in_memory_node'} \subseteq Nat
  BY <1>1, <1>2, <1>3
<1>5. \/ \E k \in 1 .. (Last(given) - 1) : InTree(k) /\ Tag(given, k) = 1
      \/ Tag(given, Last(given)) # 9 /\ p >= Pos(given, Last(given))
  BY <1>1, MemoryWhere
<1>6. CASE \E k \in 1 .. (Last(given) - 1) : InTree(k) /\ Tag(given, k) = 1
  <2>1. PICK k \in 1 .. (Last(given) - 1) : InTree(k) /\ Tag(given, k) = 1
    BY <1>6
  <2>. DEFINE path == Path(given, k)
              down == Path(given, k + 1)
  <2>2. /\ k \in 1 .. Last(given) /\ k + 1 \in 1 .. Last(given) /\ k \in Nat
        /\ down = Append(path, k)
    BY <1>2, <2>1, KindIs DEF BeginsNode
  <2>3. /\ Len(path) \in Nat /\ Len(down) = Len(path) + 1 /\ down[Len(path) + 1] = k
        /\ \A i \in 1 .. Len(path) : down[i] = path[i]
    <3>1. path \in Seq(Nat) /\ Len(path) \in Nat
      BY <1>2, <2>2, TreeIs
    <3>2. k \in Nat /\ down = Append(path, k)
      BY <2>2
    <3>. HIDE DEF path, down
    <3>. QED
      BY <3>1, <3>2, AppendProperties
  <2>4. /\ p = Pos(given, k) /\ depth = Len(path) /\ in_memory_node \in 0 .. depth
        /\ \A i \in 1 .. depth : IsMemory(given, path[i]) <=> i = in_memory_node
        /\ \A j \in Regs(given) : j >= k
    BY <2>1 DEF InTree
  <2>5. /\ p' = Pos(given, k + 1)
        /\ in_memory_node' = IF IsMemory(given, k) THEN depth + 1 ELSE in_memory_node
    <3>1. /\ IsString(p + W, MemoryName) <=> IsMemory(given, k)
          /\ p + W + Rounded(strlen(p + W) + 1) = Pos(given, k + 1)
      BY <1>1, <2>1, <2>4, NodeName
    <3>. QED
      BY <1>1, <3>1
  <2>6. \A j \in Regs(given) : j >= k + 1
    <3>1. \A j \in Regs(given) : j \in Nat /\ j # k /\ j >= k
      BY <1>2, <2>1, <2>4, RegsAre
    <3>. QED
      BY <2>2, <3>1
  <2>7. \A i, j \in DOMAIN down : IsMemory(given, down[i]) /\ IsMemory(given, down[j]) => i = j
    BY <1>2, <2>2, Zenon DEF LaidOut
  <2>8. DOMAIN down = 1 .. (depth + 1)
    <3>1. down \in Seq(Nat)
      BY <1>2, <2>2, TreeIs
    <3>2. DOMAIN down = 1 .. Len(down)
      <4>. HIDE DEF down
      <4>. QED
        BY <3>1, LenProperties
    <3>. QED
      BY <3>2, <2>3, <2>4
  <2>. HIDE DEF path, down
  <2>9. depth' = Len(down) /\ in_memory_node' \in 0 .. depth'
    BY <1>1, <1>2, <2>3, <2>4, <2>5
  <2>10. \A i \in 1 .. depth' : IsMemory(given, down[i]) <=> i = in_memory_node'
    <3>1. TAKE i \in 1 .. depth'
    <3>2. i \in 1 .. (depth + 1) /\ depth + 1 \in 1 .. (depth + 1) /\ i \in Nat
      BY <1>1, <1>2
    <3>3. IsMemory(given, down[depth + 1]) <=> IsMemory(given, k)
      BY <2>3, <2>4
    <3>4. CASE i = depth + 1
      BY <1>2, <2>4, <2>5, <3>3, <3>4
    <3>5. CASE i # depth + 1
      <4>1. i \in 1 .. depth /\ down[i] = path[i]
        BY <1>2, <2>3, <2>4, <3>2, <3>5
      <4>2. CASE IsMemory(given, k)
        <5>1. ~ IsMemory(given, down[i])
          BY <2>7, <2>8, <3>2, <3>3, <3>5, <4>2
        <5>. QED
          BY <2>5, <3>5, <4>2, <5>1
      <4>3. CASE ~ IsMemory(given, k)
        BY <2>4, <2>5, <4>1, <4>3
      <4>. QED
        BY <4>2, <4>3
    <3>. QED
      BY <3>4, <3>5
  <2>. QED
    BY <1>1, <1>4, <2>2, <2>5, <2>6, <2>9, <2>10, MemoryMoves DEF down
<1>7. CASE Tag(given, Last(given)) # 9 /\ p >= Pos(given, Last(given))
  <2>1. Pos(given, Last(given)) \in Nat
    BY <1>2, TreeIs
  <2>2. p' >= Pos(given, Last(given))
    BY <1>1, <1>2, <1>3, <1>7, <2>1
  <2>. QED
    BY <1>1, <1>4, <1>7, <2>2, MemoryMoves
<1>. QED
  BY <1>5, <1>6, <1>7

(* What differs from the tree as loaded, after the first update.           *)
LEMMA ArgsCellsAre ==
    ASSUME LaidOut(given), NEW c \in ArgsCells(given)
    PROVE  c \in ValueCells(given.args)
                 \union (IF given.args # NoValue /\ given.args.len = 0
                         THEN {given.args.pos - 1} ELSE {})
<1>. DEFINE a == Min(Props(given, BootargsName))
            v == given.args
<1>1. /\ Props(given, BootargsName) # {}
      /\ c \in Start(ValueOf(given, a).pos, ValueOf(given, a).len)
                 .. (ValueOf(given, a).pos + ValueOf(given, a).len - 1)
  BY DEF ArgsCells
<1>2. /\ v = ValueOf(given, a) /\ v.pos = Pos(given, a) + 3 * W
      /\ v.len = ValueLen(given, a) /\ a \in 1 .. (Last(given) - 1)
  BY <1>1, ArgsPlace
<1>3. Pos(given, a) \in Nat /\ ValueLen(given, a) \in Nat /\ W \in Nat /\ W >= 1
  BY <1>2, KindIs, Widths
<1>4. v.pos \in Nat /\ v.pos >= 1 /\ v.len \in Nat /\ v # NoValue
  BY <1>2, <1>3 DEF NoValue
<1>5. c \in Start(v.pos, v.len) .. (v.pos + v.len - 1)
  BY <1>1, <1>2
<1>. HIDE DEF v
<1>6. CASE v.len = 0
  <2>1. Start(v.pos, v.len) = v.pos - 1
    BY <1>6 DEF Start
  <2>2. c = v.pos - 1
    BY <1>4, <1>5, <1>6, <2>1
  <2>. QED
    BY <1>4, <1>6, <2>2 DEF v
<1>7. CASE v.len # 0
  <2>1. Start(v.pos, v.len) = v.pos
    BY <1>7 DEF Start
  <2>. QED
    BY <1>5, <2>1 DEF ValueCells, v
<1>. QED
  BY <1>6, <1>7

LEMMA KeptIsEnough ==
    ASSUME LaidOut(given), DOMAIN dtb = DOMAIN given.mem, Kept
    PROVE  OnlyValuesChange
<1>1. SUFFICES ASSUME NEW c \in Changed
               PROVE  c \in ArgsCells(given)
  BY ArgsCellsAre DEF OnlyValuesChange
<1>. QED
  BY DEF Changed, Kept

(* What reg's place is in a tree that has it.                              *)
LEMMA RegPlace ==
    ASSUME NEW t, LaidOut(t), Regs(t) # {}
    PROVE  LET r == Min(Regs(t)) IN
           /\ r \in Regs(t) /\ r \in 1 .. (Last(t) - 1) /\ \A k \in Regs(t) : r <= k
           /\ t.reg.pos = Pos(t, r) + 3 * W /\ t.reg.len = 2 * W
<1>. DEFINE S == Regs(t)
<1>1. t.reg = FirstValue(t, S)
  BY Zenon DEF LaidOut
<1>2. S \subseteq 1 .. (Last(t) - 1)
  BY DEF Regs, Props
<1>. HIDE DEF S
<1>3. /\ Min(S) \in S /\ Min(S) \in 1 .. (Last(t) - 1) /\ \A k \in S : Min(S) <= k
      /\ FirstValue(t, S).pos = Pos(t, Min(S)) + 3 * W
      /\ FirstValue(t, S).len = ValueLen(t, Min(S))
  BY <1>2, FirstProp DEF S
<1>4. ValueLen(t, Min(S)) = 2 * W
  BY <1>3 DEF S, Regs
<1>. QED
  BY <1>1, <1>3, <1>4 DEF S

LEMMA CallMemoryInv == ASSUME TreeInv, CallMemory PROVE TreeInv'
<1>1. /\ phase = "call_memory" /\ phase' = IF HasMagic THEN "memory" ELSE "done"
      /\ p' = off_struct /\ end' = off_struct + size_dt_struct /\ strings' = off_strings
      /\ depth' = 0 /\ in_memory_node' = 0
      /\ UNCHANGED <<dtb, cmdline, bootargs_nameoff, given>>
  BY DEF CallMemory
<1>2. /\ LaidOut(given) /\ Kept /\ DOMAIN dtb = DOMAIN given.mem /\ TreeInv
      /\ given \in Trees /\ cmdline \in Cmdlines /\ FdtTypeOK
  BY <1>1, AsKept
<1>3. /\ off_struct = Struct(given) /\ off_strings = Strings(given)
      /\ size_dt_struct = WordAt(given.mem, 9 * W)
      /\ HasMagic <=> Starts(given.mem)
  BY <1>2, HeaderKept
<1>4. /\ Struct(given) \in Nat /\ Strings(given) \in Nat /\ WordAt(given.mem, 9 * W) \in Nat
      /\ Pos(given, 1) = Struct(given) /\ Path(given, 1) = <<>> /\ Last(given) \in Nat \ {0}
  BY <1>2, TreeIs, WordIn
<1>5. FdtTypeOK'
  BY <1>1, <1>2, <1>3, <1>4 DEF FdtTypeOK
<1>6. Kept' /\ (ArgsReached' => ArgsHold')
  <2>1. ArgsReached => ArgsHold
    BY <1>1 DEF TreeInv
  <2>2. Kept' /\ (ArgsReached' <=> ArgsReached)
    BY <1>1, <1>2 DEF Kept, ArgsReached
  <2>3. ArgsHold' <=> ArgsHold
    BY <1>1 DEF ArgsHold, IsString
  <2>. QED
    BY <2>1, <2>2, <2>3
<1>7. CASE HasMagic
  <2>1. InTree(1)'
    <3>1. p' = Pos(given, 1) /\ depth' = Len(Path(given, 1)) /\ in_memory_node' \in 0 .. depth'
      BY <1>1, <1>3, <1>4, EmptySeq
    <3>2. \A i \in 1 .. depth' : FALSE
      BY <1>1
    <3>3. \A j \in Regs(given) : j >= 1
      BY <1>2, RegsAre
    <3>. QED
      BY <1>1, <3>1, <3>2, <3>3 DEF InTree
  <2>2. 1 \in 1 .. Last(given')
    BY <1>1, <1>4
  <2>3. MemoryWalk'
    BY <1>1, <1>3, <2>1, <2>2 DEF MemoryWalk
  <2>. QED
    BY <1>1, <1>2, <1>5, <1>6, <1>7, <2>3 DEF TreeInv
<1>8. CASE ~ HasMagic
  <2>1. ~ given.whole
    BY <1>2, <1>3, <1>8, Zenon DEF LaidOut
  <2>2. OnlyValuesChange
    BY <1>2, KeptIsEnough
  <2>3. OnlyValuesChange'
    BY <1>1, <2>2 DEF OnlyValuesChange, Changed
  <2>4. MemoryHolds'
    BY <1>1, <2>1 DEF MemoryHolds
  <2>. QED
    BY <1>1, <1>2, <1>5, <1>6, <1>8, <2>3, <2>4 DEF TreeInv
<1>. QED
  BY <1>7, <1>8

LEMMA MemoryStopInv == ASSUME TreeInv, MemoryStop PROVE TreeInv'
<1>1. /\ phase = "memory" /\ phase' = "done"
      /\ \/ p + W > end
         \/ MemoryAt(3) /\ ~ (Fits(2 * W) /\ (IsMemoryReg \/ Fits(PropTotal)))
         \/ p + W <= end /\ Word(p) \notin 1 .. 4
      /\ UNCHANGED <<dtb, cmdline, p, end, strings, bootargs_nameoff, depth, in_memory_node, given>>
  BY DEF MemoryStop
<1>2. /\ LaidOut(given) /\ Kept /\ DOMAIN dtb = DOMAIN given.mem
      /\ given \in Trees /\ cmdline \in Cmdlines /\ FdtTypeOK /\ MemoryWalk
      /\ {p, end} \subseteq Nat
  BY <1>1, AsKept
<1>3. given.whole => given.reg = NoValue
  <2>1. SUFFICES ASSUME given.whole, given.reg # NoValue PROVE FALSE
    OBVIOUS
  <2>2. /\ given.reg = FirstValue(given, Regs(given)) /\ Tag(given, Last(given)) = 9
        /\ Pos(given, Last(given)) + W = end
    BY <1>2, <2>1, Zenon DEF LaidOut, MemoryWalk, Struct
  <2>3. Regs(given) # {}
    BY <2>1, <2>2 DEF FirstValue
  <2>4. PICK k \in 1 .. Last(given) : InTree(k)
    BY <1>2, <2>2 DEF MemoryWalk
  <2>5. PICK r \in Regs(given) : r \in 1 .. (Last(given) - 1)
    BY <1>2, <2>3, RegPlace
  <2>6. p = Pos(given, k) /\ r >= k
    BY <2>4, <2>5 DEF InTree
  <2>7. k \in 1 .. (Last(given) - 1)
    BY <1>2, <2>4, <2>5, <2>6, TreeIs
  <2>8. /\ Tag(given, k) \in 1 .. 4 /\ k + 1 \in 1 .. Last(given)
        /\ Pos(given, k) \in Nat /\ Pos(given, k + 1) \in Nat
        /\ Pos(given, k) + W <= Pos(given, k + 1)
    BY <1>2, <2>7, KindIs, NextToken
  <2>9. Pos(given, k + 1) + W <= end
    <3>1. Pos(given, k + 1) <= Pos(given, Last(given))
      BY <1>2, <2>8, Between
    <3>2. Pos(given, Last(given)) \in Nat
      BY <1>2, TreeIs
    <3>. QED
      BY <2>2, <2>8, <3>1, <3>2, Widths
  <2>10. ~ (p + W > end)
    BY <1>2, <2>6, <2>8, <2>9, Widths
  <2>11. Word(p) \in 1 .. 4
    BY <1>2, <2>4, <2>6, <2>8, TokenKept
  <2>12. MemoryAt(3) => Fits(2 * W) /\ Fits(PropTotal)
    <3>1. SUFFICES ASSUME MemoryAt(3) PROVE Fits(2 * W) /\ Fits(PropTotal)
      OBVIOUS
    <3>2. Tag(given, k) = 3
      BY <1>2, <2>4, <2>6, <3>1, TokenKept DEF MemoryAt
    <3>3. p + W + PropTotal = Pos(given, k + 1)
      <4>1. PICK j \in 1 .. (Last(given) - 1) : InTree(j) /\ p + W + PropTotal = Pos(given, j + 1)
        BY <2>2, <3>1, MemoryProps
      <4>2. Pos(given, j) = Pos(given, k) /\ W \in Nat /\ W >= 1
        BY <2>6, <4>1, Widths DEF InTree
      <4>3. j \in 1 .. Last(given) /\ k \in 1 .. Last(given) /\ Last(given) \in Nat
        BY <1>2, <2>7, <4>1, TreeIs
      <4>4. ~ (j < k)
        BY <1>2, <2>8, <4>2, <4>3, Ordered
      <4>5. ~ (k < j)
        BY <1>2, <2>8, <4>2, <4>3, Ordered
      <4>6. j = k
        BY <4>3, <4>4, <4>5
      <4>. QED
        BY <4>1, <4>6
    <3>4. Pos(given, k) + 3 * W <= Pos(given, k + 1)
      <4>1. Pos(given, k) + 3 * W + ValueLen(given, k) <= Pos(given, k + 1)
            /\ ValueLen(given, k) \in Nat
        BY <1>2, <2>7, <3>2, NextToken, KindIs
      <4>. QED
        BY <2>8, <4>1, Widths
    <3>5. p + W + PropTotal <= end
      BY <1>2, <2>8, <2>9, <3>3, Widths
    <3>6. p + W + 2 * W <= end
      BY <1>2, <2>6, <2>8, <2>9, <3>4, Widths
    <3>. QED
      BY <3>5, <3>6 DEF Fits
  <2>. QED
    BY <1>1, <2>10, <2>11, <2>12
<1>4. FdtTypeOK'
  BY <1>1, <1>2 DEF FdtTypeOK
<1>5. OnlyValuesChange'
  <2>1. OnlyValuesChange
    BY <1>2, KeptIsEnough
  <2>. QED
    BY <1>1, <2>1 DEF OnlyValuesChange, Changed
<1>6. MemoryHolds'
  BY <1>1, <1>3 DEF MemoryHolds
<1>7. ArgsReached' => ArgsHold'
  <2>1. ArgsReached => ArgsHold
    BY <1>1 DEF TreeInv
  <2>2. ArgsReached' <=> ArgsReached
    BY <1>1 DEF ArgsReached
  <2>3. ArgsHold' <=> ArgsHold
    BY <1>1 DEF ArgsHold, IsString
  <2>. QED
    BY <2>1, <2>2, <2>3
<1>. QED
  BY <1>1, <1>2, <1>4, <1>5, <1>6, <1>7 DEF TreeInv

(* The two values lie apart.                                               *)
LEMMA ValuesApart ==
    ASSUME NEW t, LaidOut(t), NEW a \in Props(t, BootargsName), NEW r \in Regs(t)
    PROVE  \/ Pos(t, a) + 3 * W + ValueLen(t, a) <= Pos(t, r)
           \/ Pos(t, r) + 5 * W <= Pos(t, a)
<1>1. /\ a \in 1 .. (Last(t) - 1) /\ Tag(t, a) = 3
      /\ Reads(t.mem, Strings(t) + NameOff(t, a), BootargsName)
  BY PropsAre
<1>2. /\ r \in 1 .. (Last(t) - 1) /\ Tag(t, r) = 3 /\ ValueLen(t, r) = 2 * W
      /\ Reads(t.mem, Strings(t) + NameOff(t, r), RegName)
  BY RegsAre
<1>3. a # r
  <2>1. SUFFICES ASSUME a = r PROVE FALSE
    OBVIOUS
  <2>2. /\ BootargsName \in Seq(1 .. (Byte - 1)) /\ RegName \in Seq(1 .. (Byte - 1))
        /\ BootargsName # RegName
    BY NamesAssumption
  <2>3. Strings(t) + NameOff(t, a) \in Int
    <3>1. NameOff(t, a) \in Nat /\ Strings(t) \in Nat
      BY <1>1, KindIs, TreeIs
    <3>. QED
      BY <3>1
  <2>. QED
    BY <1>1, <1>2, <2>1, <2>2, <2>3, OneName
<1>4. /\ Pos(t, a) + 3 * W + ValueLen(t, a) <= Pos(t, a + 1)
      /\ Pos(t, r) + 3 * W + 2 * W <= Pos(t, r + 1)
  BY <1>1, <1>2, NextToken
<1>5. /\ a \in 1 .. Last(t) /\ r \in 1 .. Last(t) /\ a \in Nat /\ r \in Nat /\ W \in Nat
      /\ Pos(t, a) \in Nat /\ Pos(t, r) \in Nat /\ Pos(t, a + 1) \in Nat /\ Pos(t, r + 1) \in Nat
      /\ ValueLen(t, a) \in Nat
  BY <1>1, <1>2, KindIs, Widths
<1>6. CASE a < r
  <2>1. Pos(t, a + 1) <= Pos(t, r)
    BY <1>5, <1>6, Ordered
  <2>. QED
    BY <1>4, <1>5, <2>1
<1>7. CASE r < a
  <2>1. Pos(t, r + 1) <= Pos(t, a)
    BY <1>5, <1>7, Ordered
  <2>. QED
    BY <1>4, <1>5, <2>1
<1>. QED
  BY <1>3, <1>5, <1>6, <1>7

LEMMA MemorySetInv == ASSUME TreeInv, MemorySet PROVE TreeInv'
<1>. DEFINE b == p + 3 * W
            e == [i \in 1 .. (2 * W) |-> IF i <= W THEN 0 ELSE ByteOf(MemorySize, i - W - 1)]
            D == DOMAIN given.mem
<1>1. /\ phase = "memory" /\ MemoryAt(3) /\ IsMemoryReg /\ phase' = "done"
      /\ dtb' = Stored(dtb, b, e)
      /\ UNCHANGED <<cmdline, p, end, strings, bootargs_nameoff, depth, in_memory_node, given>>
  BY Zenon DEF MemorySet, MemoryAt, Store, Stored
<1>2. /\ LaidOut(given) /\ Kept /\ DOMAIN dtb = DOMAIN given.mem
      /\ given \in Trees /\ cmdline \in Cmdlines /\ FdtTypeOK /\ p \in Nat
  BY <1>1, AsKept
<1>3. PICK k \in 1 .. (Last(given) - 1) : InTree(k) /\ Tag(given, k) = 3 /\ k \in Regs(given)
  BY <1>1, MemoryProps
<1>4. /\ p = Pos(given, k) /\ given.reg.pos = b /\ given.reg.len = 2 * W
      /\ ValueLen(given, k) = 2 * W /\ k \in Nat
  <2>. DEFINE r == Min(Regs(given))
  <2>1. /\ r \in Regs(given) /\ r <= k /\ r \in Nat /\ k \in Nat
        /\ given.reg.pos = Pos(given, r) + 3 * W /\ given.reg.len = 2 * W
        /\ ValueLen(given, k) = 2 * W
    BY <1>2, <1>3, RegPlace, RegsAre
  <2>. HIDE DEF r
  <2>2. p = Pos(given, k) /\ r >= k
    BY <1>3, <2>1 DEF InTree
  <2>3. r = k
    BY <2>1, <2>2
  <2>. QED
    BY <2>1, <2>2, <2>3
<1>5. /\ W \in Nat /\ W >= 1 /\ Size(given) \in Nat /\ D = 0 .. (Size(given) - 1)
      /\ b \in Nat /\ b + 2 * W <= Size(given)
  <2>1. Pos(given, k) + 3 * W + ValueLen(given, k) <= Size(given)
    BY <1>2, <1>3, BehindValue
  <2>. QED
    BY <1>2, <1>4, <2>1, TreeIs, Widths
<1>6. /\ e \in Seq(0 .. (Byte - 1)) /\ Len(e) = 2 * W
      /\ \A i \in 1 .. W : e[i] = 0 /\ e[W + i] = ByteOf(MemorySize, i - 1)
  <2>1. \A i \in 1 .. (2 * W) : e[i] \in 0 .. (Byte - 1)
    <3>1. TAKE i \in 1 .. (2 * W)
    <3>2. CASE i <= W
      BY <3>2, Widths
    <3>3. CASE ~ (i <= W)
      <4>. DEFINE j == i - W - 1
                  x == MemorySize \div Pow(W - 1 - j)
      <4>1. j \in Nat /\ W - 1 - j \in Nat
        BY <1>5, <3>3
      <4>2. Pow(W - 1 - j) \in Nat \ {0} /\ MemorySize \in Int
        BY <4>1, PowNat, FdtAssumption
      <4>3. x \in Int
        <5>. HIDE DEF j
        <5>. QED
          BY <4>2, DivideBy
      <4>. HIDE DEF x
      <4>4. x % Byte \in 0 .. (Byte - 1)
        BY <4>3, Widths, DivideBy
      <4>5. e[i] = x % Byte
        BY <3>3 DEF ByteOf, x
      <4>. QED
        BY <4>4, <4>5
    <3>. QED
      BY <3>2, <3>3
  <2>2. e \in [1 .. (2 * W) -> 0 .. (Byte - 1)]
    BY <2>1
  <2>3. 2 * W \in Nat
    BY <1>5
  <2>4. e \in Seq(0 .. (Byte - 1)) /\ Len(e) = 2 * W
    <3>. DEFINE m == 2 * W
    <3>1. m \in Nat /\ e \in [1 .. m -> 0 .. (Byte - 1)]
      BY <2>2, <2>3
    <3>. HIDE DEF e, m
    <3>. DEFINE B == 0 .. (Byte - 1)
    <3>2. e \in [1 .. m -> B]
      BY <3>1
    <3>. HIDE DEF B
    <3>3. e \in Seq(B)
      BY <3>1, <3>2
    <3>4. Len(e) = m
      BY <3>1, <3>2, <3>3
    <3>. QED
      BY <3>3, <3>4 DEF m, B
  <2>5. \A i \in 1 .. W : e[i] = 0 /\ e[W + i] = ByteOf(MemorySize, i - 1)
    <3>1. TAKE i \in 1 .. W
    <3>2. i \in 1 .. (2 * W) /\ W + i \in 1 .. (2 * W) /\ i <= W /\ ~ (W + i <= W)
          /\ (W + i) - W - 1 = i - 1
      BY <1>5
    <3>. QED
      BY <3>2
  <2>. QED
    BY <2>4, <2>5
<1>. HIDE DEF e, b, D
<1>7. /\ dtb' \in [D -> 0 .. (Byte - 1)] /\ DOMAIN dtb' = D
      /\ \A c \in D : c \notin b .. (b + Len(e) - 1) => dtb'[c] = dtb[c]
      /\ \A i \in 1 .. Len(e) : b + i - 1 \in D => dtb'[b + i - 1] = e[i]
  <2>1. D \subseteq Int /\ b \in Int /\ dtb \in [D -> 0 .. (Byte - 1)]
    BY <1>2, <1>5 DEF FdtTypeOK, D
  <2>2. HoldsFrom(Stored(dtb, b, e), D, dtb, b, e)
    BY <1>6, <2>1, StoreIs
  <2>3. HoldsFrom(dtb', D, dtb, b, e)
    BY <1>1, <2>2
  <2>. QED
    BY <2>3 DEF HoldsFrom
<1>8. FdtTypeOK'
  BY <1>1, <1>2, <1>7 DEF FdtTypeOK, D
<1>9. OnlyValuesChange'
  <2>1. SUFFICES ASSUME NEW c \in Changed'
                 PROVE  c \in ValueCells(given.reg) \/ c \in ArgsCells(given)
    BY <1>1, <1>2, ArgsCellsAre DEF OnlyValuesChange
  <2>2. c \in D /\ dtb'[c] # given.mem[c]
    BY <1>1, <1>7 DEF Changed
  <2>3. CASE c \in b .. (b + Len(e) - 1)
    BY <1>4, <1>6, <2>3 DEF ValueCells
  <2>4. CASE c \notin b .. (b + Len(e) - 1)
    <3>1. dtb[c] # given.mem[c]
      BY <1>7, <2>2, <2>4
    <3>. QED
      BY <1>2, <2>2, <3>1 DEF Kept, D
  <2>. QED
    BY <2>3, <2>4
<1>10. MemoryHolds'
  <2>1. \A i \in 1 .. (2 * W) : ByteAt(dtb', b + i - 1) = e[i]
    <3>1. TAKE i \in 1 .. (2 * W)
    <3>2. b + i - 1 \in D /\ i \in 1 .. Len(e)
      BY <1>5, <1>6
    <3>. QED
      BY <1>7, <3>2 DEF ByteAt
  <2>2. \A i \in 1 .. W : ByteAt(dtb', b + i - 1) = 0
    <3>1. TAKE i \in 1 .. W
    <3>2. i \in 1 .. (2 * W)
      BY <1>5
    <3>. QED
      BY <1>6, <2>1, <3>2
  <2>3. \A i \in 1 .. W : ByteAt(dtb', (b + W) + i - 1) = ByteOf(MemorySize, i - 1)
    <3>1. TAKE i \in 1 .. W
    <3>2. W + i \in 1 .. (2 * W) /\ b + (W + i) - 1 = (b + W) + i - 1
      BY <1>5
    <3>. QED
      BY <1>6, <2>1, <3>2
  <2>4. WordAt(dtb', b) = 0
    <3>. DEFINE f == [i \in 1 .. W |-> ByteAt(dtb', b + i - 1)]
    <3>1. \A i \in 1 .. W : f[i] = 0
      BY <2>2
    <3>. HIDE DEF f
    <3>2. Number(f) = 0
      BY <3>1, NumberZero
    <3>. QED
      BY <3>2 DEF WordAt, f
  <2>5. WordAt(dtb', b + W) = MemorySize
    <3>. DEFINE f == [i \in 1 .. W |-> ByteAt(dtb', (b + W) + i - 1)]
    <3>1. \A i \in 1 .. W : f[i] = ByteOf(MemorySize, i - 1)
      BY <2>3
    <3>. HIDE DEF f
    <3>2. MemorySize \in 0 .. (Space - 1)
      BY FdtAssumption
    <3>3. Number(f) = MemorySize
      BY <3>1, <3>2, NumberOf
    <3>. QED
      BY <3>3 DEF WordAt, f
  <2>. QED
    BY <1>1, <1>4, <2>4, <2>5 DEF MemoryHolds, Word
<1>11. ArgsReached' => ArgsHold'
  <2>. DEFINE v == given.args
              n == Min({Len(cmdline), v.len - 1})
              s == SubSeq(cmdline, 1, n)
  <2>1. SUFFICES ASSUME ArgsReached, v.len > 0 PROVE Reads(dtb', v.pos, s)
    BY <1>1 DEF ArgsReached, ArgsHold, IsString
  <2>2. PICK a \in Props(given, BootargsName) :
           v = ValueOf(given, a) /\ v.pos = Pos(given, a) + 3 * W /\ v.len = ValueLen(given, a)
    BY <1>2, <2>1, ArgsPlace DEF ArgsReached
  <2>3. Pos(given, a) \in Nat /\ v.pos \in Nat /\ v.len \in Nat /\ v # NoValue
    <3>1. Pos(given, a) \in Nat /\ ValueLen(given, a) \in Nat
      BY <1>2, <2>2, PropsAre, KindIs
    <3>2. v.pos # 0
      BY <1>5, <2>2, <3>1
    <3>. QED
      BY <1>5, <2>2, <3>1, <3>2 DEF NoValue
  <2>4. Reads(dtb, v.pos, s)
    BY <1>1, <2>1, <2>3 DEF TreeInv, ArgsHold, IsString
  <2>5. s \in Seq(1 .. (Byte - 1)) /\ Len(s) + 1 <= v.len /\ Len(s) \in Nat
    <3>1. cmdline \in Seq(1 .. (Byte - 1)) /\ cmdline # <<>>
      BY <1>2, FdtAssumption
    <3>. DEFINE l == v.len
    <3>2. l \in Nat /\ l > 0
      BY <2>1, <2>3
    <3>. HIDE DEF l
    <3>3. /\ Min({Len(cmdline), l - 1}) \in Nat /\ Min({Len(cmdline), l - 1}) + 1 <= l
          /\ SubSeq(cmdline, 1, Min({Len(cmdline), l - 1})) \in Seq(1 .. (Byte - 1))
          /\ Len(SubSeq(cmdline, 1, Min({Len(cmdline), l - 1}))) = Min({Len(cmdline), l - 1})
      BY <3>1, <3>2, TerminatedIs
    <3>. QED
      BY <3>3 DEF l
  <2>6. \/ v.pos + v.len <= Pos(given, k) \/ Pos(given, k) + 5 * W <= Pos(given, a)
    BY <1>2, <1>3, <2>2, ValuesApart
  <2>. HIDE DEF v, s
  <2>7. \A c \in v.pos .. (v.pos + Len(s)) : ByteAt(dtb', c) = ByteAt(dtb, c)
    <3>1. TAKE c \in v.pos .. (v.pos + Len(s))
    <3>2. c \in Nat /\ v.pos <= c /\ c < v.pos + v.len
      BY <2>3, <2>5
    <3>3. b = Pos(given, k) + 3 * W /\ Pos(given, k) \in Nat
      BY <1>2, <1>4 DEF b
    <3>4. c \notin b .. (b + Len(e) - 1)
      <4>. DEFINE l == Len(e)
                  q == Pos(given, k)
                  u == Pos(given, a)
      <4>1. /\ l = 2 * W /\ q \in Nat /\ u \in Nat /\ v.pos = u + 3 * W
            /\ v.pos + v.len <= q \/ q + 5 * W <= u
            /\ v.pos <= c /\ c < v.pos + v.len /\ v.len \in Nat /\ c \in Nat
            /\ b = q + 3 * W /\ W \in Nat /\ W >= 1
        BY <1>5, <1>6, <2>2, <2>3, <2>6, <3>2, <3>3
      <4>. HIDE DEF l, q, u
      <4>2. ~ (b <= c /\ c <= b + l - 1)
        BY <4>1
      <4>. QED
        BY <1>5, <3>2, <4>1, <4>2 DEF l
    <3>. QED
      BY <1>2, <1>7, <3>4 DEF ByteAt, D
  <2>8. v.pos \in Int
    BY <2>3
  <2>. QED
    BY <2>4, <2>5, <2>7, <2>8, ReadsSame
<1>. QED
  BY <1>1, <1>2, <1>8, <1>9, <1>10, <1>11 DEF TreeInv

-----------------------------------------------------------------------------
(* The walks keep to the tree they are given: the invariant that the three *)
(* properties of the updates rest on (fdt.c:44-145, 182-259).              *)
LEMMA TreeInvariant == FdtSpec => []TreeInv
<1>1. FdtInit => TreeInv
  <2>1. SUFFICES ASSUME FdtInit PROVE TreeInv
    OBVIOUS
  <2>2. given \in Trees /\ LaidOut(given) /\ cmdline \in Cmdlines /\ dtb = given.mem
    BY <2>1, FdtAssumption DEF FdtInit
  <2>3. dtb \in [DOMAIN given.mem -> 0 .. (Byte - 1)]
    BY <2>2, TreeIs DEF IsMem
  <2>4. FdtTypeOK
    BY <2>1, <2>3, Widths DEF FdtInit, FdtTypeOK
  <2>. QED
    BY <2>1, <2>2, <2>4 DEF FdtInit, TreeInv
<1>2. TreeInv /\ [FdtNext]_fdt_vars => TreeInv'
  <2>1. SUFFICES ASSUME TreeInv, [FdtNext]_fdt_vars PROVE TreeInv'
    OBVIOUS
  <2>2. CASE CallBootargs
    BY <2>1, <2>2, CallBootargsInv
  <2>3. CASE ArgsBegin \/ ArgsPass \/ ArgsOther
    BY <2>1, <2>3, ArgsWalkInv
  <2>4. CASE ArgsSet
    BY <2>1, <2>4, ArgsSetInv
  <2>5. CASE ArgsStop
    BY <2>1, <2>5, ArgsStopInv
  <2>6. CASE CallMemory
    BY <2>1, <2>6, CallMemoryInv
  <2>7. CASE MemoryBegin
    BY <2>1, <2>7, MemoryBeginInv
  <2>8. CASE MemoryEnd
    BY <2>1, <2>8, MemoryEndInv
  <2>9. CASE MemorySet
    BY <2>1, <2>9, MemorySetInv
  <2>10. CASE MemoryOther
    BY <2>1, <2>10, MemoryOtherInv
  <2>11. CASE MemoryNop
    BY <2>1, <2>11, MemoryNopInv
  <2>12. CASE MemoryStop
    BY <2>1, <2>12, MemoryStopInv
  <2>13. CASE UNCHANGED fdt_vars
    BY <2>1, <2>13
       DEF fdt_vars, TreeInv, FdtTypeOK, ArgsWalk, NameOffsets, IsString, off_strings, Word,
           Kept, MemoryWalk, InTree, ArgsReached, ArgsHold, OnlyValuesChange, Changed, MemoryHolds
  <2>. QED
    BY <2>1, <2>2, <2>3, <2>4, <2>5, <2>6, <2>7, <2>8, <2>9, <2>10, <2>11, <2>12, <2>13
       DEF FdtNext, Bootargs, Memory
<1>. QED
  BY <1>1, <1>2, PTL DEF FdtSpec

(* The header is not among the values.                                     *)
LEMMA HeaderWhenDone ==
    ASSUME TreeInv, phase = "done", given.whole
    PROVE  off_struct = Struct(given) /\ size_dt_strings = WordAt(given.mem, 8 * W)
<1>1. LaidOut(given) /\ DOMAIN dtb = DOMAIN given.mem /\ OnlyValuesChange
  BY AsKept DEF TreeInv
<1>2. W \in Nat /\ W >= 1
  BY Widths
<1>3. /\ given.reg = FirstValue(given, Regs(given))
      /\ given.args = FirstValue(given, Props(given, BootargsName))
  BY <1>1, Zenon DEF LaidOut
<1>4. given.reg = NoValue \/ (given.reg.pos \in Nat /\ 10 * W < given.reg.pos)
  <2>1. CASE Regs(given) = {}
    <3>1. given.reg = NoValue
      BY <1>3, <2>1 DEF FirstValue
    <3>. QED
      BY <3>1
  <2>2. CASE Regs(given) # {}
    <3>1. PICK r \in 1 .. (Last(given) - 1) : given.reg.pos = Pos(given, r) + 3 * W
      BY <1>1, <2>2, RegPlace
    <3>2. Pos(given, r) \in Nat /\ 10 * W <= Pos(given, r)
      BY <1>1, KindIs, Between
    <3>. QED
      BY <1>2, <3>1, <3>2
  <2>. QED
    BY <2>1, <2>2
<1>5. given.args = NoValue \/ (given.args.pos \in Nat /\ 10 * W < given.args.pos)
  <2>1. CASE Props(given, BootargsName) = {}
    <3>1. given.args = NoValue
      BY <1>3, <2>1 DEF FirstValue
    <3>. QED
      BY <3>1
  <2>2. CASE Props(given, BootargsName) # {}
    <3>1. PICK a \in 1 .. (Last(given) - 1) : given.args.pos = Pos(given, a) + 3 * W
      BY <1>1, <2>2, ArgsPlace
    <3>2. Pos(given, a) \in Nat /\ 10 * W <= Pos(given, a)
      BY <1>1, KindIs, Between
    <3>. QED
      BY <1>2, <3>1, <3>2
  <2>. QED
    BY <2>1, <2>2
<1>6. ValueCells(NoValue) = {}
  BY DEF ValueCells, NoValue
<1>7. \A c \in 0 .. (10 * W - 1) : c \notin Changed
  <2>1. TAKE c \in 0 .. (10 * W - 1)
  <2>2. c \in Nat /\ c < 10 * W
    BY <1>2
  <2>3. c \notin ValueCells(given.reg)
    <3>1. CASE given.reg = NoValue
      BY <1>6, <3>1
    <3>2. CASE given.reg.pos \in Nat /\ 10 * W < given.reg.pos
      BY <1>2, <2>2, <3>2 DEF ValueCells
    <3>. QED
      BY <1>4, <3>1, <3>2
  <2>4. c \notin ValueCells(given.args)
    <3>1. CASE given.args = NoValue
      BY <1>6, <3>1
    <3>2. CASE given.args.pos \in Nat /\ 10 * W < given.args.pos
      BY <1>2, <2>2, <3>2 DEF ValueCells
    <3>. QED
      BY <1>5, <3>1, <3>2
  <2>5. given.args # NoValue => c # given.args.pos - 1
    BY <1>2, <1>5, <2>2
  <2>. QED
    BY <1>1, <2>3, <2>4, <2>5 DEF OnlyValuesChange
<1>8. \A c \in 0 .. (10 * W - 1) : ByteAt(dtb, c) = ByteAt(given.mem, c)
  BY <1>1, <1>7 DEF Changed, ByteAt
<1>9. \A a \in 0 .. (9 * W) : WordAt(dtb, a) = WordAt(given.mem, a)
  <2>1. TAKE a \in 0 .. (9 * W)
  <2>2. a \in Int /\ \A c \in a .. (a + W - 1) : c \in 0 .. (10 * W - 1)
    BY <1>2
  <2>. QED
    BY <1>8, <2>2, WordSame
<1>10. 2 * W \in 0 .. (9 * W) /\ 8 * W \in 0 .. (9 * W)
  BY <1>2
<1>. QED
  BY <1>9, <1>10 DEF off_struct, size_dt_strings, Word, Struct

(* An update of the device tree changes the bytes of the two values and no *)
(* other, whatever tree is there, whole or cut off, and whatever the       *)
(* command line is (fdt.c:121-130, 234-239).                               *)
THEOREM OnlyTheValuesChange == FdtSpec => []OnlyValuesChange
<1>1. TreeInv => OnlyValuesChange
  <2>1. SUFFICES ASSUME TreeInv PROVE OnlyValuesChange
    OBVIOUS
  <2>2. CASE phase = "done"
    BY <2>1, <2>2 DEF TreeInv
  <2>3. CASE phase \in {"call_args", "args"}
    <3>1. dtb = given.mem
      BY <2>1, <2>3 DEF TreeInv
    <3>. QED
      BY <3>1 DEF OnlyValuesChange, Changed
  <2>4. CASE phase \in {"call_memory", "memory"}
    BY <2>1, <2>4, AsKept, KeptIsEnough
  <2>. QED
    BY <2>1, <2>2, <2>3, <2>4 DEF TreeInv, FdtTypeOK
<1>. QED
  BY <1>1, TreeInvariant, PTL

(* Of a whole tree, the first reg of memory@0 itself holds address 0 and   *)
(* the size of the RAM when the updates are done (fdt.c:44-145).           *)
THEOREM TheMemoryIsSet == FdtSpec => []MemoryIsSet
<1>1. TreeInv => MemoryIsSet
  BY DEF TreeInv, MemoryHolds, MemoryIsSet
<1>. QED
  BY <1>1, TreeInvariant, PTL

(* Of a whole tree whose bootargs begins within the walk's bound, its      *)
(* value reads as the beginning of the command line when the updates are   *)
(* done (fdt.c:182-259).                                                   *)
THEOREM TheArgsAreSet == FdtSpec => []ArgsAreSet
<1>1. TreeInv => ArgsAreSet
  <2>1. SUFFICES ASSUME TreeInv, phase = "done", given.whole, given.args # NoValue,
                        given.args.pos <= off_struct + size_dt_strings
                 PROVE  ArgsHold
    BY DEF ArgsAreSet, ArgsHold
  <2>2. given.args = FirstValue(given, Props(given, BootargsName))
    BY <2>1, AsKept, Zenon DEF LaidOut
  <2>3. Props(given, BootargsName) # {}
    BY <2>1, <2>2 DEF FirstValue
  <2>4. off_struct = Struct(given) /\ size_dt_strings = WordAt(given.mem, 8 * W)
    BY <2>1, HeaderWhenDone
  <2>5. ArgsReached
    BY <2>1, <2>3, <2>4 DEF ArgsReached
  <2>. QED
    BY <2>1, <2>5 DEF TreeInv
<1>. QED
  BY <1>1, TreeInvariant, PTL
=============================================================================
