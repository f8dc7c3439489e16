---------------------------- MODULE MCSignature ----------------------------
(* Signature with bytes of 2 bits, words of 2 bytes and numbers of 3 words *)
(* (12 bits): 00 01 FF 00, a prefix of one byte and a digest of one byte.  *)
(* The moduli: one at the top of the range, where every power has a root,  *)
(* composite ones, one below the encoded numbers, an even one, 1 and 0.    *)
EXTENDS Signature

MCPrefix == <<2>>
MCDigests == {<<0>>, <<3>>}
MCKeys == {[n |-> 4093, e |-> 5], [n |-> 4087, e |-> 3], [n |-> 2049, e |-> 2], [n |-> 1755, e |-> 7],
           [n |-> 15, e |-> 3], [n |-> 1, e |-> 1], [n |-> 4095, e |-> 0],
           [n |-> 4092, e |-> 3], [n |-> 0, e |-> 3]}
MCSignatures == 0 .. 4095
=============================================================================
