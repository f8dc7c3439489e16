----------------------------- MODULE MCFileBoot -----------------------------
(* FileBoot in 20 cells of memory: the heap grows from 0 through the       *)
(* device tree at 6, which it reaches with the search after the tree was   *)
(* loaded, and the kernel at 9 to the peripherals at 13.  As on the board  *)
(* a sector (3) is longer than what alloc rounds up to (2), so that the    *)
(* padding of a text in the last block ends in the peripherals.            *)
EXTENDS FileBoot

MCKernelSizes == {0, 2}
MCDtbSizes == {0, 1}
MCTextSizes == {2}
=============================================================================
