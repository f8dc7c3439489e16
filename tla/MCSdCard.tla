----------------------------- MODULE MCSdCard -----------------------------
(* SdCard with cards addressed by bytes and by blocks, with and without    *)
(* SET_BLOCK_COUNT, a wide bus, bit 0 of the SCR set, and CCS in the       *)
(* answers that say busy.                                                  *)
EXTENDS SdCard

CardOf(hc, early, blkcnt, wide, bit) ==
    [hc |-> hc, early |-> early, blkcnt |-> blkcnt, wide |-> wide, bit |-> bit]

MCCards ==
    {CardOf(FALSE, FALSE, FALSE, FALSE, TRUE), CardOf(TRUE, TRUE, FALSE, TRUE, FALSE),
     CardOf(TRUE, FALSE, TRUE, FALSE, FALSE)}
=============================================================================
