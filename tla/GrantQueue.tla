----------------------------- MODULE GrantQueue -----------------------------
(***************************************************************************)
(* What the receive path of the CDC Ethernet gadget promises its client.   *)
(* Every IN transfer the client submits on endpoint 1 is a grant: leave    *)
(* to send it one Ethernet frame, of at most the transfer's size, in a     *)
(* USBIP_RET_SUBMIT that bears the transfer's seqnum.  Grants are used up  *)
(* oldest first, each at most once, and a closed connection takes all of   *)
(* its grants with it.                                                     *)
(*                                                                         *)
(* GrantRing (the arrays of c/cdc-ether.c) and EtherRx (the two threads    *)
(* around them) are shown to implement this specification.                 *)
(***************************************************************************)
EXTENDS Naturals, Sequences

CONSTANTS
    Seqnums,    \* sequence numbers a client gives its transfers
    Sizes,      \* lengths of transfers and of frames
    Window      \* transfers a client keeps submitted at any one time

VARIABLES
    queue,      \* the grants not used yet, oldest first
    taken       \* the last grant used: whose it was and what it was used for

gqVars == <<queue, taken>>

Grant == [seq: Seqnums, size: Sizes]
Use   == [seq: Seqnums, len: Sizes]

\* Before the first grant is used.
NoUse == [seq |-> 0, len |-> 0]

Init ==
    /\ queue = << >>
    /\ taken = NoUse

\* The client submits an IN transfer.
Offer(g) ==
    /\ Len(queue) < Window
    /\ queue' = Append(queue, g)
    /\ UNCHANGED taken

\* A frame of length len is sent in answer to the oldest grant, if it fits.
TakeOldest(len) ==
    /\ queue # << >>
    /\ len <= Head(queue).size
    /\ taken' = [seq |-> Head(queue).seq, len |-> len]
    /\ queue' = Tail(queue)

\* The connection is gone, and its grants with it.
Forget ==
    /\ queue' = << >>
    /\ UNCHANGED taken

Next ==
    \/ \E g \in Grant : Offer(g)
    \/ \E len \in Sizes : TakeOldest(len)
    \/ Forget

Spec == Init /\ [][Next]_gqVars
=============================================================================
