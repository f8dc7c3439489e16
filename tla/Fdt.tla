--------------------------------- MODULE Fdt ---------------------------------
(***************************************************************************)
(* The two updates of the device tree before the kernel starts (lib/fdt.c):*)
(* fdt_update_bootargs puts the command line into the property bootargs,   *)
(* then fdt_update_memory the size of the RAM into memory@0/reg.  Both     *)
(* walk the flattened tree token by token, in place; file_boot.c:119-120   *)
(* and serial_boot.c:223-224 call them in this order.                      *)
(*                                                                         *)
(* The tree is a function from addresses to bytes, as in memory.  A word   *)
(* has W bytes for 4, names are short sequences of bytes.                  *)
(***************************************************************************)
EXTENDS FdtTree

CONSTANTS
    MemorySize,                          \* 0x3c000000
    Cmdlines,                            \* the command lines of the callers
    Trees

VARIABLES
    phase,                               \* "call_args", "args", "call_memory", "memory", "done"
    dtb,                                 \* the bytes at dtb_base
    cmdline,
    p, end, strings,                     \* the walkers' pointers
    bootargs_nameoff,
    depth, in_memory_node,
    given                                \* history: the tree as loaded

fdt_vars == <<phase, dtb, cmdline, p, end, strings, bootargs_nameoff, depth,
              in_memory_node, given>>

(* No caller has an empty command line (file_boot.c:113-117).              *)
ASSUME FdtAssumption ==
    /\ MemorySize \in 0 .. (Space - 1)
    /\ \A t \in Trees : LaidOut(t)
    /\ \A c \in Cmdlines : c \in Seq(1 .. (Byte - 1)) \ {<<>>}

----------------------------------------------------------------------------
At(a) == ByteAt(dtb, a)
Word(a) == WordAt(dtb, a)
IsString(a, s) == Reads(dtb, a, s)

off_struct == Word(2 * W)
off_strings == Word(3 * W)
size_dt_strings == Word(8 * W)
size_dt_struct == Word(9 * W)

HasMagic == Starts(dtb)

strlen(a) == Min({n \in 0 .. Len(MemoryName) + Max(DOMAIN dtb) : At(a + n) = 0})

(* Byte i of a word, from the left. *)
ByteOf(n, i) == (n \div Pow(W - 1 - i)) % Byte

(* The bytes put into a value of len bytes: the text and its end, or as    *)
(* much of the text as leaves room for the end.                            *)
Terminated(s, len) ==
    IF Len(s) + 1 <= len THEN Append(s, 0)
    ELSE Append(SubSeq(s, 1, len - 1), 0)

(* p[12 + len - 1] is before the value when len is 0. *)
Start(a, len) == IF len = 0 THEN a - 1 ELSE a

Store(a, s) ==
    dtb' = [c \in DOMAIN dtb |-> IF c - a \in 0 .. (Len(s) - 1) THEN s[c - a + 1] ELSE dtb[c]]

----------------------------------------------------------------------------
FdtTypeOK ==
    /\ phase \in {"call_args", "args", "call_memory", "memory", "done"}
    /\ dtb \in [DOMAIN given.mem -> 0 .. (Byte - 1)]
    /\ {p, end, strings, depth, in_memory_node} \subseteq Nat
    /\ bootargs_nameoff < SearchLimit

FdtInit ==
    /\ given \in Trees /\ cmdline \in Cmdlines
    /\ dtb = given.mem
    /\ phase = "call_args"
    /\ p = 0 /\ end = 0 /\ strings = 0 /\ bootargs_nameoff = 0
    /\ depth = 0 /\ in_memory_node = 0

----------------------------------------------------------------------------
(* fdt_update_bootargs.                                                    *)

NameOffsets == {i \in 0 .. (SearchLimit - 1) : IsString(off_strings + i, BootargsName)}

(* The name is looked for first, also as the end of a longer one; the      *)
(* walk's bound is taken from the size of the strings.                     *)
CallBootargs ==
    /\ phase = "call_args"
    /\ IF cmdline = <<>> \/ ~ HasMagic \/ NameOffsets = {}
       THEN phase' = "call_memory" /\ UNCHANGED <<p, end, bootargs_nameoff>>
       ELSE /\ bootargs_nameoff' = Min(NameOffsets)
            /\ p' = off_struct
            /\ end' = off_struct + size_dt_strings
            /\ phase' = "args"
    /\ UNCHANGED <<dtb, cmdline, strings, depth, in_memory_node, given>>

ArgsAt(tag) == phase = "args" /\ p + 3 * W <= end /\ Word(p) = tag

ArgsBegin ==
    /\ ArgsAt(1)
    /\ LET name_end == Min({a \in (p + W) .. end : a = end \/ At(a) = 0})
       IN  p' = Rounded(name_end + 1)
    /\ UNCHANGED <<phase, dtb, cmdline, end, strings, bootargs_nameoff, depth, in_memory_node, given>>

(* FDT_END_NODE and FDT_NOP. *)
ArgsPass ==
    /\ ArgsAt(2) \/ ArgsAt(4)
    /\ p' = p + W
    /\ UNCHANGED <<phase, dtb, cmdline, end, strings, bootargs_nameoff, depth, in_memory_node, given>>

(* Mutant: the rest of the value's last word is not passed over. *)
ArgsOtherUnrounded ==
    /\ ArgsAt(3) /\ Word(p + 2 * W) # bootargs_nameoff
    /\ p' = p + 3 * W + Word(p + W)
    /\ UNCHANGED <<phase, dtb, cmdline, end, strings, bootargs_nameoff, depth, in_memory_node, given>>

ArgsOther ==
    /\ ArgsAt(3) /\ Word(p + 2 * W) # bootargs_nameoff
    /\ p' = p + 3 * W + Rounded(Word(p + W))
    /\ UNCHANGED <<phase, dtb, cmdline, end, strings, bootargs_nameoff, depth, in_memory_node, given>>

ArgsSet ==
    /\ ArgsAt(3) /\ Word(p + 2 * W) = bootargs_nameoff
    /\ LET len == Word(p + W)
       IN  Store(Start(p + 3 * W, len), Terminated(cmdline, len))
    /\ phase' = "call_memory"
    /\ UNCHANGED <<cmdline, p, end, strings, bootargs_nameoff, depth, in_memory_node, given>>

(* The end of the bound, FDT_END or an unknown tag. *)
ArgsStop ==
    /\ phase = "args"
    /\ p + 3 * W > end \/ Word(p) \notin 1 .. 4
    /\ phase' = "call_memory"
    /\ UNCHANGED <<dtb, cmdline, p, end, strings, bootargs_nameoff, depth, in_memory_node, given>>

----------------------------------------------------------------------------
(* fdt_update_memory.                                                      *)

CallMemory ==
    /\ phase = "call_memory"
    /\ phase' = IF HasMagic THEN "memory" ELSE "done"
    /\ p' = off_struct
    /\ end' = off_struct + size_dt_struct
    /\ strings' = off_strings
    /\ depth' = 0 /\ in_memory_node' = 0
    /\ UNCHANGED <<dtb, cmdline, bootargs_nameoff, given>>

MemoryAt(tag) == phase = "memory" /\ p + W <= end /\ Word(p) = tag

MemoryBegin ==
    /\ MemoryAt(1)
    /\ depth' = depth + 1
    /\ in_memory_node' = IF IsString(p + W, MemoryName) THEN depth + 1 ELSE in_memory_node
    /\ p' = p + W + Rounded(strlen(p + W) + 1)
    /\ UNCHANGED <<phase, dtb, cmdline, end, strings, bootargs_nameoff, given>>

MemoryEnd ==
    /\ MemoryAt(2)
    /\ in_memory_node' = IF in_memory_node = depth THEN 0 ELSE in_memory_node
    /\ depth' = IF depth > 0 THEN depth - 1 ELSE 0
    /\ p' = p + W
    /\ UNCHANGED <<phase, dtb, cmdline, end, strings, bootargs_nameoff, given>>

(* Mutant: a reg of any node inside the memory node is taken for its own. *)
IsMemoryRegInside ==
    LET nameoff == Word(p + 2 * W)
    IN  /\ in_memory_node > 0
        /\ nameoff < SearchLimit /\ IsString(strings + nameoff, RegName)
        /\ Word(p + W) = 2 * W

(* The property at p is memory@0/reg with one word of address and one of size. *)
IsMemoryReg ==
    LET nameoff == Word(p + 2 * W)
    IN  /\ in_memory_node = depth
        /\ nameoff < SearchLimit /\ IsString(strings + nameoff, RegName)
        /\ Word(p + W) = 2 * W

Fits(n) == p + W + n <= end
(* Mutant: the rest of the last word is not passed over. *)
PropTotalUnrounded == (2 * W + Word(p + W)) % Space

PropTotal == Rounded((2 * W + Word(p + W)) % Space)

MemorySet ==
    /\ MemoryAt(3) /\ Fits(2 * W) /\ IsMemoryReg
    /\ Store(p + 3 * W,
             [i \in 1 .. (2 * W) |-> IF i <= W THEN 0 ELSE ByteOf(MemorySize, i - W - 1)])
    /\ phase' = "done"
    /\ UNCHANGED <<cmdline, p, end, strings, bootargs_nameoff, depth, in_memory_node, given>>

MemoryOther ==
    /\ MemoryAt(3) /\ Fits(2 * W) /\ ~ IsMemoryReg /\ Fits(PropTotal)
    /\ p' = p + W + PropTotal
    /\ UNCHANGED <<phase, dtb, cmdline, end, strings, bootargs_nameoff, depth, in_memory_node, given>>

MemoryNop ==
    /\ MemoryAt(4)
    /\ p' = p + W
    /\ UNCHANGED <<phase, dtb, cmdline, end, strings, bootargs_nameoff, depth, in_memory_node, given>>

(* The end of the block, a property that reaches past it, FDT_END or an    *)
(* unknown tag.                                                            *)
MemoryStop ==
    /\ phase = "memory"
    /\ \/ p + W > end
       \/ MemoryAt(3) /\ ~ (Fits(2 * W) /\ (IsMemoryReg \/ Fits(PropTotal)))
       \/ p + W <= end /\ Word(p) \notin 1 .. 4
    /\ phase' = "done"
    /\ UNCHANGED <<dtb, cmdline, p, end, strings, bootargs_nameoff, depth, in_memory_node, given>>

Bootargs == CallBootargs \/ ArgsBegin \/ ArgsPass \/ ArgsOther \/ ArgsSet \/ ArgsStop
Memory ==
    \/ CallMemory \/ MemoryBegin \/ MemoryEnd \/ MemorySet \/ MemoryOther
    \/ MemoryNop \/ MemoryStop
FdtNext == Bootargs \/ Memory

FdtSpec == FdtInit /\ [][FdtNext]_fdt_vars

----------------------------------------------------------------------------
ValueCells(v) == v.pos .. (v.pos + v.len - 1)
Changed == {a \in DOMAIN dtb : dtb[a] # given.mem[a]}

(* An update changes the bytes of the two values and no other: no token,   *)
(* name or length, also in a tree that was cut off while loading           *)
(* (fdt.c:121-130, 234-239).  The one exception is in the code: for an     *)
(* empty bootargs the end goes to the byte before the value.               *)
OnlyValuesChange ==
    Changed \subseteq
        ValueCells(given.reg) \union ValueCells(given.args)
        \union (IF given.args # NoValue /\ given.args.len = 0 THEN {given.args.pos - 1} ELSE {})

(* The walkers agree with the tree about where nodes begin and end: when   *)
(* the updates are done, the first reg of memory@0 itself, not one of a    *)
(* node inside it or beside it, holds address 0 and the size of the RAM    *)
(* (fdt.c:44-145).                                                         *)
MemoryIsSet ==
    phase = "done" /\ given.whole /\ given.reg # NoValue =>
        Word(given.reg.pos) = 0 /\ Word(given.reg.pos + W) = MemorySize

(* The value of bootargs reads as the beginning of the command line, as    *)
(* much of it as the value has room for.                                   *)
ArgsHold ==
    LET v == given.args
        n == Min({Len(cmdline), v.len - 1})
    IN  v # NoValue /\ v.len > 0 => IsString(v.pos, SubSeq(cmdline, 1, n))

(* The command line is in the tree when the updates are done, if bootargs  *)
(* begins within as many bytes as the strings take (fdt.c:182-259).        *)
ArgsAreSet ==
    phase = "done" /\ given.whole /\ given.args.pos <= off_struct + size_dt_strings => ArgsHold
=============================================================================
