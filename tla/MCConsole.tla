------------------------------ MODULE MCConsole ------------------------------
(* Console with glyphs of 2 by 2 pixels on screens of 2 by 2 and 3 by 1    *)
(* characters, with pixels left over at the right and the bottom.          *)
EXTENDS Console

MCModes == {[width |-> 5, height |-> 5, pitch |-> 6], [width |-> 7, height |-> 3, pitch |-> 7]}
MCPictures == {[w |-> 1, h |-> 1], [w |-> 5, h |-> 3]}
=============================================================================
