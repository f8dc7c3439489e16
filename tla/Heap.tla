-------------------------------- MODULE Heap --------------------------------
(***************************************************************************)
(* The allocator of core/mm.c: one pointer that grows from __end towards   *)
(* the peripherals and is only ever set back as a whole (reset_mem).  What *)
(* it hands out is cleared, whatever lay there.                            *)
(***************************************************************************)
EXTENDS Integers

CONSTANTS
    WordSpace,         \* number of values of a word: 2^32
    Align,             \* 16
    End,               \* __end
    MMIO_BASE

VARIABLES
    nextptr,
    mem                \* what each cell holds

Addr == 0 .. (WordSpace - 1)

(* (n + 15) & ~15 *)
Aligned(n) == LET m == (n + Align - 1) % WordSpace IN m - (m % Align)

Block(ptr, n) == (ptr .. (ptr + n - 1)) \cap Addr
Filled(cells, v) == [a \in Addr |-> IF a \in cells THEN v ELSE mem[a]]

(* The block alloc(size) would hand out, and whether it does. *)
NewPtr == Aligned(nextptr)

(* Mutant: only the pointer is held against the peripherals. *)
FitsByPtr(size) == NewPtr <= MMIO_BASE

AllocFits(size) == (NewPtr + Aligned(size)) % WordSpace <= MMIO_BASE

(* alloc succeeds; its caller then writes v to the first cells of the      *)
(* block, or past its end.                                                 *)
AllocAndFill(size, used, v) ==
    /\ AllocFits(size)
    /\ nextptr' = (NewPtr + Aligned(size)) % WordSpace
    /\ mem' = [a \in Addr |->
                 IF a \in Block(NewPtr, used) THEN v
                 ELSE IF a \in Block(NewPtr, Aligned(size)) THEN "zero"
                 ELSE mem[a]]

AllocFails(size) == ~ AllocFits(size) /\ UNCHANGED <<nextptr, mem>>

ResetMem ==
    /\ mem' = Filled(Block(End, nextptr - End), "zero")
    /\ nextptr' = End
=============================================================================
