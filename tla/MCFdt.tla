-------------------------------- MODULE MCFdt --------------------------------
(* Fdt with words of two bytes on trees built here from their nodes and    *)
(* properties, as dtc lays them out, whole and cut off.                    *)
EXTENDS Fdt, FiniteSets

Sequence == INSTANCE SequencesExt

Chosen == <<99>>
MCMemoryName == <<109, 64>>
MCRegName == <<114>>
MCBootargsName == <<98, 97>>
Longer == <<120, 98, 97>>               \* ends like bootargs
Other == <<118>>
MCMagic == <<208, 13>>
MCCmdlines == {<<65>>, <<65, 66, 67>>, <<65, 66, 67, 68, 69>>}

B(name) == [tag |-> 1, name |-> name]
E == [tag |-> 2]
P(name, value) == [tag |-> 3, name |-> name, value |-> value]
N == [tag |-> 4]
X == [tag |-> 9]
Zeros(n) == [i \in 1 .. n |-> 0]
Reg == P(MCRegName, <<1, 2, 3, 4>>)

(* The offset of s in the table, where it also may be the end of a longer  *)
(* string; the table's length if s is not in it.                           *)
OffsetIn(table, s) ==
    LET here == {i \in 0 .. (Len(table) - Len(s) - 1) :
                    SubSeq(table, i + 1, i + Len(s) + 1) = Append(s, 0)}
    IN  IF here = {} THEN Len(table) ELSE Min(here)

Table(items) ==
    LET t[k \in 0 .. Len(items)] ==
            IF k = 0 THEN <<>>
            ELSE LET prev == t[k - 1]
                 IN  IF items[k].tag = 3 /\ OffsetIn(prev, items[k].name) = Len(prev)
                     THEN prev \o Append(items[k].name, 0) ELSE prev
    IN  t[Len(items)]

Two(n) == <<n \div 256, n % 256>>
Padded(s) == IF Len(s) % 2 = 0 THEN s ELSE Append(s, 0)

Token(table, item) ==
    Two(item.tag) \o
    CASE item.tag = 1 -> Padded(Append(item.name, 0))
      [] item.tag = 3 -> Two(Len(item.value)) \o Two(OffsetIn(table, item.name)) \o Padded(item.value)
      [] OTHER -> <<>>

Block(table, items) ==
    LET b[k \in 0 .. Len(items)] ==
            IF k = 0 THEN <<>> ELSE b[k - 1] \o Token(table, items[k])
    IN  b[Len(items)]

HeaderLen == 20
PosOf(items, k) == HeaderLen + Len(Block(Table(items), SubSeq(items, 1, k - 1)))
ValueAt(items, k) ==
    [pos |-> PosOf(items, k) + 6, len |-> Len(items[k].value)]

(* Where each item is in the block, and in which nodes. *)
Tokens(items) ==
    LET path[k \in DOMAIN items] ==
            IF k = 1 THEN <<>>
            ELSE CASE items[k - 1].tag = 1 -> Append(path[k - 1], k - 1)
                   [] items[k - 1].tag = 2 -> Sequence!Front(path[k - 1])
                   [] OTHER -> path[k - 1]
    IN  [k \in DOMAIN items |-> [pos |-> PosOf(items, k), path |-> path[k]]]

(* The node that property k belongs to: the last one open there. *)
NodeOf(items, k) ==
    LET tags(t, i) == Cardinality({j \in (i + 1) .. (k - 1) : items[j].tag = t})
    IN  items[Max({i \in 1 .. k : items[i].tag = 1 /\ tags(1, i) = tags(2, i)})].name

FirstAt(items, S) == IF S = {} THEN NoValue ELSE ValueAt(items, Min(S))
Named(items, name) == {k \in DOMAIN items : items[k].tag = 3 /\ items[k].name = name}

Tree(items) ==
    LET table == Table(items)
        block == Block(table, items)
        bytes == MCMagic \o Two(0) \o Two(HeaderLen) \o Two(HeaderLen + Len(block))
                 \o Zeros(8) \o Two(Len(table)) \o Two(Len(block)) \o block \o table
    IN  [mem |-> [a \in 0 .. (Len(bytes) - 1) |-> bytes[a + 1]],
         tokens |-> Tokens(items),
         reg |-> FirstAt(items, {k \in Named(items, MCRegName) :
                     NodeOf(items, k) = MCMemoryName /\ Len(items[k].value) = 4}),
         args |-> FirstAt(items, Named(items, MCBootargsName)),
         whole |-> TRUE]

(* The file ended after n bytes; what was in the memory before shows. *)
CutOff(t, n, junk) ==
    LET mem == [a \in DOMAIN t.mem |-> IF a < n THEN t.mem[a] ELSE junk]
        left == Cardinality({k \in 2 .. Len(t.tokens) : t.tokens[k].pos <= n})
        tokens == [SubSeq(t.tokens, 1, 1 + left) EXCEPT ![1].pos = WordAt(mem, 2 * W)]
    IN  [t EXCEPT !.mem = mem, !.tokens = tokens, !.whole = FALSE]

ChosenNode(n) == <<B(Chosen), P(Longer, <<7>>), P(MCBootargsName, Zeros(n)), E>>
MemoryNode == <<B(MCMemoryName), P(Other, <<1, 2, 3>>), Reg, E>>
Root(nodes) == <<N, B(<<>>)>> \o nodes \o <<E, X>>
(* Names long enough for the strings to outgrow what is before bootargs. *)
Wide == <<B(Chosen), P([i \in 1 .. 30 |-> 70 + i], <<>>), P([i \in 1 .. 40 |-> 40 + i], <<9>>), E>>

Whole ==
    {Tree(Root(ChosenNode(n) \o MemoryNode)) : n \in {0, 1, 2, 4, 8}}
    \union {Tree(Root(Wide \o ChosenNode(n) \o MemoryNode)) : n \in {0, 1, 3, 6}}
    \union
    {Tree(Root(MemoryNode \o <<N>> \o ChosenNode(4))),
     Tree(Root(Wide \o MemoryNode \o ChosenNode(4))),
     Tree(Root(MemoryNode)),
     \* memory@0 without such a reg: one of a node in it, one beside it
     Tree(Root(Wide \o <<B(MCMemoryName), P(MCRegName, <<1, 2>>), B(Other), Reg, E, E>>
               \o <<B(Other), Reg, E>> \o ChosenNode(3))),
     \* a node in memory@0 after its reg
     Tree(Root(<<B(Other), Reg, E, B(MCMemoryName), Reg, B(Other), Reg, E, E>> \o ChosenNode(3)))}

Loaded == Tree(Root(Wide \o ChosenNode(4) \o MemoryNode))
MCTrees ==
    Whole \union {CutOff(Loaded, n, junk) : n \in 2 .. Max(DOMAIN Loaded.mem), junk \in {0, 255}}
=============================================================================
