----------------------------- MODULE MCEtherRx ------------------------------
(* EtherRx with two lengths of frames and transfers. *)
EXTENDS EtherRx

MCSizes == 1 .. 2
=============================================================================
