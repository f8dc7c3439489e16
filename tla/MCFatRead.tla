----------------------------- MODULE MCFatRead -----------------------------
(* FatRead on cards of two-byte sectors: a partition at 1, its table at 6  *)
(* (two sectors of four entries: clusters 2 to 7), its data from 8 on.     *)
(* Words are below 32, so that BadCluster, which is past every cluster of  *)
(* the card, is taken for a sector that wraps around to the card's start,  *)
(* as 0x0FFFFFF7 is with 16 sectors and more in a cluster.                 *)
EXTENDS FatRead, TLC

Record(spc) ==
    [bps |-> 2, spc |-> spc, rsc |-> 5, nf |-> 1, spf32 |-> 2, rc |-> 2]

Fats == {<<15, 15, 3, 4, 5, 15, 15, 15>>,      \* 2 3 4 5
         <<15, 15, 4, 5, 3, 15, 15, 15>>,      \* 2 4 3 5
         <<15, 15, 6, 15, 15, 4, 7, 5>>,       \* 2 6 7 5 4
         <<15, 15, 3, 2, 15, 15, 15, 15>>}     \* 2 3 2 3 ...

GoodPart == [fat |-> TRUE, lba |-> 1]
OtherPart == [fat |-> FALSE, lba |-> 1]

CardOf(spc, table) ==
    [sectors |-> 8 + 6 * spc, signed |-> TRUE, parts |-> <<OtherPart, GoodPart>>,
     boot |-> (1 :> Record(spc)), fat |-> table]

(* Cards fat_getpartition refuses. *)
BadCards ==
    {[CardOf(2, <<>>) EXCEPT !.signed = FALSE],
     [CardOf(2, <<>>) EXCEPT !.parts = <<OtherPart>>],
     [CardOf(2, <<>>) EXCEPT !.boot = (1 :> Record(0))]}

MCCards == BadCards \union {CardOf(spc, table) : spc \in {1, 2}, table \in Fats}
MCForeign == {0, 3, 15}
MCFirsts == {0, 2}
MCSizes == 0 .. 11
=============================================================================
