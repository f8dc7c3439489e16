------------------------------ MODULE FdtTree ------------------------------
(***************************************************************************)
(* The bytes of a flattened device tree: how fdt.c reads them, and what    *)
(* they are in a tree as dtc writes it, whole or cut off.                  *)
(*                                                                         *)
(* A tree is a record: mem, the bytes from the tree's address on; tokens,  *)
(* where each token of the struct block is (pos) and the nodes it lies in, *)
(* by the tokens they begin with, from the root on (path); reg and args,   *)
(* where these values are ([pos, len], NoValue for none); whole, not cut   *)
(* off.  The last of the tokens is FDT_END, or the first that was lost.    *)
(***************************************************************************)
EXTENDS Naturals, Sequences, FiniteSetsExt

CONSTANTS
    W,                                   \* the bytes of a word
    MemoryName, RegName, BootargsName,   \* "memory@0", "reg", "bootargs"
    Magic,                               \* the bytes d0 0d fe ed
    SearchLimit                          \* the 4096 of both walkers

Byte == 256

(* The values of count bytes. *)
Pow(count) ==
    LET v[k \in 0 .. count] == IF k = 0 THEN 1 ELSE v[k - 1] * Byte
    IN  v[count]

Space == Pow(W)                          \* unsigned int wraps here
NoValue == [pos |-> 0, len |-> 0]

ASSUME NamesAssumption ==
    /\ W \in Nat \ {0} /\ SearchLimit \in Nat \ {0}
    /\ Magic \in [1 .. W -> 0 .. (Byte - 1)]
    /\ {MemoryName, RegName, BootargsName} \subseteq Seq(1 .. (Byte - 1)) \ {<<>>}
    /\ RegName # BootargsName

----------------------------------------------------------------------------
(* Behind the bytes of the tree the memory is clear. *)
ByteAt(m, a) == IF a \in DOMAIN m THEN m[a] ELSE 0

(* A word, most significant byte first. *)
Number(b) ==
    LET w[i \in 0 .. W] == IF i = 0 THEN 0 ELSE w[i - 1] * Byte + b[i]
    IN  w[W]
WordAt(m, a) == Number([i \in 1 .. W |-> ByteAt(m, a + i - 1)])

(* strcmp finds s at a. *)
Reads(m, a, s) ==
    /\ \A i \in DOMAIN s : ByteAt(m, a + i - 1) = s[i]
    /\ ByteAt(m, a + Len(s)) = 0

Starts(m) == \A i \in 1 .. W : ByteAt(m, i - 1) = Magic[i]

(* (n + 3) & ~3. *)
Rounded(n) == LET m == (n + W - 1) % Space IN m - (m % W)

----------------------------------------------------------------------------
Size(t) == 1 + Max(DOMAIN t.mem)
Struct(t) == WordAt(t.mem, 2 * W)
Strings(t) == WordAt(t.mem, 3 * W)

Last(t) == Len(t.tokens)
Pos(t, k) == t.tokens[k].pos
Path(t, k) == t.tokens[k].path
Tag(t, k) == WordAt(t.mem, Pos(t, k))

ValueLen(t, k) == WordAt(t.mem, Pos(t, k) + W)
ValueOf(t, k) == [pos |-> Pos(t, k) + 3 * W, len |-> ValueLen(t, k)]
NameOff(t, k) == WordAt(t.mem, Pos(t, k) + 2 * W)

IsMemory(t, node) == Reads(t.mem, Pos(t, node) + W, MemoryName)
PropNamed(t, k, s) == Tag(t, k) = 3 /\ Reads(t.mem, Strings(t) + NameOff(t, k), s)

Props(t, s) == {k \in 1 .. (Last(t) - 1) : PropNamed(t, k, s)}
Regs(t) ==
    {k \in Props(t, RegName) :
        ValueLen(t, k) = 2 * W /\ IsMemory(t, Path(t, k)[Len(Path(t, k))])}

FirstValue(t, S) == IF S = {} THEN NoValue ELSE ValueOf(t, Min(S))

(* The token behind token k, and where it lies in the tree.  A name and a  *)
(* value are filled up to whole words.                                     *)
BeginsNode(t, k) ==
    /\ Tag(t, k) = 1 /\ Path(t, k + 1) = Append(Path(t, k), k)
    /\ \E z \in (Pos(t, k) + W) .. (Pos(t, k + 1) - 1) :
          /\ ByteAt(t.mem, z) = 0
          /\ \A c \in (Pos(t, k) + W) .. (z - 1) : ByteAt(t.mem, c) # 0
          /\ Pos(t, k + 1) <= z + W

EndsNode(t, k) ==
    /\ Tag(t, k) = 2 /\ Pos(t, k + 1) = Pos(t, k) + W
    /\ \E node \in 1 .. (k - 1) : Path(t, k) = Append(Path(t, k + 1), node)

IsProp(t, k) ==
    /\ Tag(t, k) = 3 /\ Path(t, k) # <<>> /\ Path(t, k + 1) = Path(t, k)
    /\ LET after == Pos(t, k) + 3 * W + ValueLen(t, k)
       IN  Pos(t, k + 1) \in after .. (after + W - 1)

IsNop(t, k) ==
    /\ Tag(t, k) = 4 /\ Path(t, k + 1) = Path(t, k)
    /\ Pos(t, k + 1) = Pos(t, k) + W

(* No property that a walker looks for can be read behind the tokens.      *)
Silent(t) ==
    \A a \in Pos(t, Last(t)) .. (Size(t) - 1) :
        LET nameoff == WordAt(t.mem, a + 2 * W)
        IN  WordAt(t.mem, a) = 3 /\ nameoff < SearchLimit =>
              \A s \in {RegName, BootargsName} : ~ Reads(t.mem, Strings(t) + nameoff, s)

(* A tree as it is in memory: the struct block lies behind the header and  *)
(* before the strings, a name is entered in the strings where it reads     *)
(* first, the two that are looked for within SearchLimit, and no memory@0  *)
(* lies in another.                                                        *)
LaidOut(t) ==
    /\ t.mem \in [0 .. (Size(t) - 1) -> 0 .. (Byte - 1)]
    /\ Size(t) \in Nat \ {0} /\ Size(t) + 2 * W <= Space
    /\ t.tokens \in Seq([pos : Nat, path : Seq(Nat)]) /\ Last(t) >= 1
    /\ Pos(t, 1) = Struct(t) /\ Path(t, 1) = <<>>
    /\ \A k \in 1 .. (Last(t) - 1) :
          /\ BeginsNode(t, k) \/ EndsNode(t, k) \/ IsProp(t, k) \/ IsNop(t, k)
          /\ Pos(t, k) % W = 0 /\ Pos(t, k + 1) % W = 0
    /\ Last(t) > 1 =>
          /\ 10 * W <= Struct(t)
          /\ Pos(t, Last(t)) <= Size(t) /\ Pos(t, Last(t)) <= Strings(t)
    /\ \A k \in 1 .. Last(t) : \A i, j \in DOMAIN Path(t, k) :
          IsMemory(t, Path(t, k)[i]) /\ IsMemory(t, Path(t, k)[j]) => i = j
    /\ \A s \in {RegName, BootargsName} : \A k \in Props(t, s) : NameOff(t, k) < SearchLimit
    /\ \A k \in Props(t, BootargsName) : \A i \in 0 .. (NameOff(t, k) - 1) :
          ~ Reads(t.mem, Strings(t) + i, BootargsName)
    /\ Props(t, BootargsName) # {} \/ t.whole => t.args = FirstValue(t, Props(t, BootargsName))
    /\ Regs(t) # {} \/ t.whole => t.reg = FirstValue(t, Regs(t))
    /\ Tag(t, Last(t)) = 9 \/ (Silent(t) /\ ~ t.whole)
    /\ t.whole => Starts(t.mem) /\ Pos(t, Last(t)) + W = Struct(t) + WordAt(t.mem, 9 * W)
=============================================================================
