---------------------------- MODULE MCGrantRing -----------------------------
(* GrantRing on a ring of three slots. *)
EXTENDS GrantRing

MCSeqnums == 1 .. 3
MCSizes   == 1 .. 2
=============================================================================
