------------------------------- MODULE Checksum ------------------------------
(***************************************************************************)
(* The first half of send_usb_req_data in c/cdc-ether.c: before a frame    *)
(* goes to the client, the checksum of a UDP or TCP segment is computed    *)
(* anew, since the host's network stack leaves that to its device.         *)
(*                                                                         *)
(* One byte is added per step, as net_checksum_add does, to a word of 32   *)
(* bits, which is then folded to 16.  (The code adds up payload and        *)
(* addresses apart and then the sums: without a carry out of 32 bits, see  *)
(* NoOverflow, that is the same.)  What is added is the segment with       *)
(* its checksum at 0; which bytes those are makes no difference here.      *)
(* (Neither does the code look at the fragment's offset: any fragment is   *)
(* taken for a segment.)                                                   *)
(***************************************************************************)
EXTENDS Integers

CONSTANTS
    Byte,           \* 2^8
    UDP, TCP,       \* IPPROTO_UDP, IPPROTO_TCP
    Protocols,      \* of the frames
    TotalLengths,   \* tot_len of the frames
    HeaderLengths   \* ihl * 4 of the frames

Word  == Byte * Byte    \* 2^16
Width == Word * Word    \* 2^32

ASSUME ChecksumAssumption ==
    /\ Byte \in Nat /\ Byte >= 5
    /\ Protocols \subseteq 0 .. Byte - 1
    /\ TotalLengths \subseteq 0 .. Word - 1
    /\ HeaderLengths \subseteq Nat

VARIABLES
    frame,      \* the frame's headers
    pc,         \* where send_usb_req_data is, see PC
    i,          \* of net_checksum_add
    sum,        \* uint32_t
    total,      \* history: what has been added, as a number without a width
    check       \* the checksum of the segment

vars == <<frame, pc, i, sum, total, check>>

PC == {"frame", "payload", "addrs", "fold", "checked", "kept", "dropped"}

Frames == [kind: {"other", "notIpv4", "ipv4"}, protocol: Protocols,
           tot_len: TotalLengths, iph_len: HeaderLengths]

Init ==
    /\ frame \in Frames
    /\ pc = "frame"
    /\ i = 0
    /\ sum = 0
    /\ total = 0
    /\ check = 0

\* length of net_checksum_tcpudp, a uint16_t.
Length == (frame.tot_len - frame.iph_len) % Word

\* An IP frame that is not version 4 is dropped; one that is no segment stays as
\* it is.
Dispatch ==
    /\ pc = "frame"
    /\ pc' = CASE frame.kind = "notIpv4" -> "dropped"
               [] frame.kind = "ipv4" /\ frame.protocol \in {UDP, TCP} -> "payload"
               [] OTHER -> "kept"
    /\ UNCHANGED <<frame, i, sum, total, check>>

\* Variant: a sum of 16 bits.
AddsShort(n) == sum' = (sum + n) % Word /\ total' = total + n

Adds(n) == sum' = (sum + n) % Width /\ total' = total + n

\* Byte b at index i: the first of two is the high one.
Shifted(b) == IF i % 2 = 1 THEN b ELSE b * Byte

AddByte(place, n) ==
    /\ pc = place
    /\ i < n
    /\ \E b \in 0 .. Byte - 1 : Adds(Shifted(b))
    /\ i' = i + 1
    /\ UNCHANGED <<frame, pc, check>>

Payload   == AddByte("payload", Length)
Addresses == AddByte("addrs", 8)

PayloadEnds ==
    /\ pc = "payload"
    /\ i = Length
    /\ i' = 0
    /\ pc' = "addrs"
    /\ UNCHANGED <<frame, sum, total, check>>

\* Protocol and length.
PseudoHeader ==
    /\ pc = "addrs"
    /\ i = 8
    /\ Adds(frame.protocol + Length)
    /\ pc' = "fold"
    /\ UNCHANGED <<frame, i, check>>

(* net_checksum_finish.  Variants of Fold: the carries are dropped; they    *)
(* are not shifted down.                                                    *)
FoldDrops ==
    /\ pc = "fold"
    /\ sum >= Word
    /\ sum' = sum % Word
    /\ UNCHANGED <<frame, pc, i, total, check>>

FoldUnshifted ==
    /\ pc = "fold"
    /\ sum >= Word
    /\ sum' = (sum % Word) + (sum \div Word) * Word
    /\ UNCHANGED <<frame, pc, i, total, check>>

Fold ==
    /\ pc = "fold"
    /\ sum >= Word
    /\ sum' = (sum % Word) + (sum \div Word)
    /\ UNCHANGED <<frame, pc, i, total, check>>

\* Variant: the complement has 32 bits.
FinishWide ==
    /\ pc = "fold"
    /\ sum < Word
    /\ check' = Width - 1 - sum
    /\ pc' = "checked"
    /\ UNCHANGED <<frame, i, sum, total>>

\* ~sum, in 16 bits.
Finish ==
    /\ pc = "fold"
    /\ sum < Word
    /\ check' = Word - 1 - sum
    /\ pc' = "checked"
    /\ UNCHANGED <<frame, i, sum, total>>

Next == Dispatch \/ Payload \/ PayloadEnds \/ Addresses \/ PseudoHeader \/ Fold \/ Finish

Spec == Init /\ [][Next]_vars /\ WF_vars(Next)
-----------------------------------------------------------------------------
\* The types, the width of each included.
TypeOK ==
    /\ frame \in Frames
    /\ pc \in PC
    /\ i \in 0 .. Word
    /\ sum \in 0 .. Width - 1
    /\ total \in Nat
    /\ check \in 0 .. Word - 1

\* No carry is lost: 32 bits are enough for a segment of any length.
NoOverflow == pc \in {"payload", "addrs"} => sum = total

\* A receiver adds up the segment with the checksum in it and gets a multiple of
\* 2^16 - 1 other than 0, which folds to all ones: it takes the segment.
Accepted ==
    pc = "checked" => total + check > 0 /\ (total + check) % (Word - 1) = 0

\* The loops end, also for a length below 0 that the 16 bits make a large one.
Finishes == <>(pc \in {"checked", "kept", "dropped"})
=============================================================================
