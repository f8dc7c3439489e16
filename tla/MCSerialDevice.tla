--------------------------- MODULE MCSerialDevice ---------------------------
(* SerialDevice with every line: each byte value at each moment.  Base 3   *)
(* gives a nine-cell address space in which a size can be zero, fit, pass  *)
(* MEMORY_END, or wrap.                                                    *)
EXTENDS SerialDevice

MCMagic == [j \in {0} |-> 2]
MCTrees == {<<2, 0>>, <<2, 0, 1>>, <<2, 2, 2>>}
MCExitBytes == {1}
MCPowerOn == {0}
AnyStackByte == 0 .. 2
=============================================================================
