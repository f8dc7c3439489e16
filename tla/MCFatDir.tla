------------------------------ MODULE MCFatDir ------------------------------
(* FatDir with short names of two and one characters and pieces of two, on *)
(* directories of up to three clusters of three entries.  The cluster that *)
(* stands for a failed read of the table wraps round onto the card, as it  *)
(* does with 16 sectors or more to a cluster.                              *)
EXTENDS FatDir, TLC

Record == [bps |-> 2, spc |-> 1, rsc |-> 2, nf |-> 1, spf32 |-> 2, rc |-> 2]

f(base, ext, cl, size) == [kind |-> "file", base |-> base, ext |-> ext, cl |-> cl, size |-> size]
l(order, piece) == [kind |-> "lfn", order |-> order, piece |-> piece]
Deleted == [kind |-> "deleted"]
Label == [kind |-> "label"]

CardOf(table, dir) ==
    [sectors |-> 14, signed |-> TRUE, parts |-> <<[fat |-> TRUE, lba |-> 1]>>,
     boot |-> (1 :> Record), fat |-> table, dir |-> dir]

OneCluster == <<15, 15, 15, 15, 15, 15, 15, 15>>
TwoClusters == <<15, 15, 4, 15, 15, 15, 15, 15>>
ThreeClusters == <<15, 15, 5, 15, 15, 4, 15, 15>>
Cycle == <<15, 15, 3, 2, 15, 15, 15, 15>>

AB == f(<<"A", "B">>, <<"C">>, 5, 3)           \* AB.C
Ab == f(<<"A", "B">>, <<" ">>, 4, 2)           \* AB
A1 == f(<<"A", " ">>, <<" ">>, 6, 1)           \* A
LongAB == f(<<"A", "~">>, <<"C">>, 7, 2)       \* A~.C with the long name abab

MCCards ==
    {CardOf(OneCluster, (2 :> <<Ab, AB, EndEntry>>)),
     CardOf(OneCluster, (2 :> <<l(2, <<"a", "b">>), l(1, <<"a", "b">>), LongAB>>)),
     \* a long name across two clusters, the second full and without an end mark
     CardOf(TwoClusters, (2 :> <<A1, l(3, <<"c", "">>), l(2, <<"a", "b">>)>> @@
                          4 :> <<l(1, <<"a", "b">>), LongAB, AB>>)),
     \* pieces of a deleted file, then of a file that is there
     CardOf(ThreeClusters, (2 :> <<l(2, <<"b", "c">>), Deleted, l(1, <<"a", "b">>)>> @@
                            5 :> <<LongAB, l(1, <<"b", "">>), Label>> @@
                            4 :> <<A1, EndEntry, AB>>)),
     \* pieces that lost their file, and one whose number is out of range
     CardOf(TwoClusters, (2 :> <<l(3, <<"b", "b">>), l(1, <<"c", "">>), l(1, <<"a", "b">>)>> @@
                          4 :> <<LongAB, l(4, <<"a", "a">>), A1>>)),
     CardOf(Cycle, (2 :> <<A1, Deleted, Label>> @@ 3 :> <<AB, A1, Deleted>>)),
     [CardOf(OneCluster, <<>>) EXCEPT !.signed = FALSE]}

MCForeignEntries == {0, 15}
MCForeignDirs == {<<EndEntry, EndEntry, EndEntry>>, <<AB, l(1, <<"a", "">>), AB>>}
MCUpperOf == "a" :> "A" @@ "b" :> "B" @@ "c" :> "C"
MCFileNames ==
    {<<>>, <<"a", "b", ".", "c">>, <<"a", "b", "a", ".", "c", "c">>, <<"a", "b", "a", "b">>,
     <<"a", "b", "a", "b", "c">>, <<"a", "b">>, <<"a">>, <<"b">>, <<"A", "~", "C">>,
     <<"a", ".">>, <<"b", "b">>, <<"a", "b", "b">>}
=============================================================================
