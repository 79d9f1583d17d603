----------------------------- MODULE MCBtControl ----------------------------
(* BtControl with a command whose event fits one transfer, one whose event   *)
(* does not, one that starts a scan, and one that is not known.              *)
EXTENDS BtControl

CONSTANTS short, long, scan, unknown

MCCommands     == {short, long, scan}
MCUnknown      == {unknown}
MCScanCommands == {scan}
MCEventSize    == [c \in MCCommands |-> IF c = long THEN 5 ELSE 2]
MCDeviceSize   == <<4, 3, 1, 5>>
MCSeqs         == 1 .. 3
=============================================================================
