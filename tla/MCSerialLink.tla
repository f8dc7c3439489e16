---------------------------- MODULE MCSerialLink ----------------------------
(* SerialLink on a sixteen-cell address space: device tree at 1, kernel at *)
(* 5, RAM up to 10.  The files carry SYN (3) and the exit byte (1) as      *)
(* data; a chunk is longer than a size, as 256 is longer than 4.           *)
EXTENDS SerialLink

MCMagic == [j \in 0 .. 1 |-> 2 - j]
MCExitBytes == {1}
MCPowerOn == {0}
AnyStackByte == 0 .. 3
MCKeys == {0, 1}
CleanStack == {0}

Kernel == <<3, 1, 2, 0>>
LongKernel == <<3, 3, 3, 3, 3, 3>>
Dtb == <<2, 1, 0>>
MagicOnly == <<2, 1>>
MCTrees == {Dtb}
OtherBlob == <<3, 2>>
LongDtb == <<2, 1, 0, 3>>

AnyKernels == {Kernel, LongKernel, <<>>}
AnyDtbs == {Dtb, MagicOnly, OtherBlob, LongDtb, <<>>}
=============================================================================
