-------------------------- MODULE BtControlProofs ---------------------------
(***************************************************************************)
(* What process_bt_control keeps true for every host: of any table of      *)
(* commands, of any table of devices that meets DevicesAssumption, and of  *)
(* any order of commands, transfers, unlinks and disconnections.           *)
(*                                                                         *)
(* The argument is an inductive invariant BtInv of one part for each group *)
(* of statics, and one for the messages on the way.  The parts for the     *)
(* statics say more than the properties do: how long the rest of an event  *)
(* can be (FragOK) and where a scan can be left (ScanOK: at a multiple of  *)
(* MaxControl that is inside the long device that is next, in this scan as *)
(* in one that starts again).  They also give that every transfer which    *)
(* finds an event or a scan under way takes it on.                         *)
(***************************************************************************)
EXTENDS BtControl, SequenceTheorems, TLAPS

\* A piece is inside the array it is sent from: the messages that may be on
\* the way.
Sound == {m \in Messages : m.kind = "piece" => Inside(m)}

StoreOK ==
    /\ last_bt_control \in Commands \cup Unknown \cup {None}
    /\ last_bt_control_seq \in Seqs \cup {NoSeq}
    /\ first_bt_control \in BOOLEAN
    /\ Rendezvous

FragOK ==
    /\ buffer \in {CommandEvent(c) : c \in Commands}
    /\ frag_message_length \in Nat
    /\ frag_message_pos \in Nat
    /\ frag_message_length # 0 =>
         /\ frag_message_pos < frag_message_length
         /\ \E c \in Commands : frag_message_length = EventSize[c]

ScanOK ==
    /\ scanning \in BOOLEAN
    /\ scanning_device_pos \in 1 .. Len(DeviceSize) + 1
    /\ scanning_frag_device_pos \in Nat
    /\ \E k \in Nat : scanning_frag_device_pos = k * MaxControl
    /\ \A i \in DOMAIN DeviceSize :
          FirstLong(1, i) \/ FirstLong(scanning_device_pos, i)
             => scanning_frag_device_pos <= DeviceSize[i]

WireOK ==
    /\ exited \in BOOLEAN
    /\ toHost \in Seq(Sound)

HostOK ==
    /\ link \in {"up", "gone", "down"}
    /\ toServer \in Seq(Requests)
    /\ device \in {"closed", "open", "closing"}
    /\ urb \in Seqs \cup {NoSeq}
    /\ command \in Commands \cup Unknown \cup {None}
    /\ partial \in [event: Events, got: Nat]
    /\ fault \in {"none", "torn", "unexpected"}

BtInv == StoreOK /\ FragOK /\ ScanOK /\ WireOK /\ HostOK

-----------------------------------------------------------------------------
(* Sizes and pieces.                                                       *)

\* The tables hold natural numbers, and the events are those of the tables.
LEMMA Tables ==
    /\ MaxControl \in Nat \ {0}
    /\ \A c \in Commands : /\ EventSize[c] \in Nat \ {0}
                           /\ CommandEvent(c) \in Events
                           /\ CommandEvent(c).dev = 0
                           /\ CommandEvent(c).cmd = c
                           /\ Size(CommandEvent(c)) = EventSize[c]
    /\ Len(DeviceSize) \in Nat
    /\ DOMAIN DeviceSize = 1 .. Len(DeviceSize)
    /\ \A i \in DOMAIN DeviceSize : /\ DeviceSize[i] \in Nat \ {0}
                                    /\ DeviceEvent(i) \in Events
                                    /\ DeviceEvent(i).dev = i
                                    /\ Size(DeviceEvent(i)) = DeviceSize[i]
<1>1. MaxControl \in Nat \ {0}  BY BtAssumption
<1>2. ASSUME NEW c \in Commands
      PROVE  /\ EventSize[c] \in Nat \ {0}
             /\ CommandEvent(c) \in Events
             /\ CommandEvent(c).dev = 0
             /\ CommandEvent(c).cmd = c
             /\ Size(CommandEvent(c)) = EventSize[c]
  BY BtAssumption DEF CommandEvent, Events, Size
<1>3. /\ Len(DeviceSize) \in Nat
      /\ DOMAIN DeviceSize = 1 .. Len(DeviceSize)
  BY BtAssumption
<1>4. ASSUME NEW i \in DOMAIN DeviceSize
      PROVE  /\ DeviceSize[i] \in Nat \ {0}
             /\ DeviceEvent(i) \in Events
             /\ DeviceEvent(i).dev = i
             /\ Size(DeviceEvent(i)) = DeviceSize[i]
  <2>1. DeviceSize[i] \in Nat \ {0}  BY BtAssumption
  <2>2. DeviceEvent(i) \in Events  BY DEF Events
  <2>3. DeviceEvent(i).dev = i /\ i # 0  BY <1>3 DEF DeviceEvent
  <2>4. QED  BY <2>1, <2>2, <2>3 DEF Size
<1>5. QED  BY <1>1, <1>2, <1>3, <1>4

\* send() of a sound piece leaves sound messages on the way.
LEMMA SendSound ==
    ASSUME NEW msg \in Sound, WireOK, Send(msg)
    PROVE  WireOK'
BY DEF Send, WireOK

\* A piece of a command's event, or of what buffer holds, is sound if it ends
\* before the longest event does.
LEMMA CommandPiece ==
    ASSUME NEW s \in Seqs, NEW c \in Commands, NEW d \in Commands,
           NEW p \in Nat, NEW n \in 0 .. MaxControl,
           p + n <= EventSize[d]
    PROVE  Piece(s, CommandEvent(c), p, n) \in Sound
<1> DEFINE m == Piece(s, CommandEvent(c), p, n)
<1>1. n \in Nat  BY Tables
<1>2. m \in Messages  BY <1>1, Tables DEF Piece, Messages
<1>3. m.event.dev = 0 /\ m.from = p /\ m.size = n  BY Tables DEF Piece
<1>4. Inside(m)  BY <1>3, Tables DEF Inside
<1>5. QED  BY <1>2, <1>4 DEF Sound

LEMMA DevicePiece ==
    ASSUME NEW s \in Seqs, NEW i \in DOMAIN DeviceSize,
           NEW p \in Nat, NEW n \in 0 .. MaxControl,
           p + n <= DeviceSize[i]
    PROVE  Piece(s, DeviceEvent(i), p, n) \in Sound
<1> DEFINE m == Piece(s, DeviceEvent(i), p, n)
<1>1. n \in Nat  BY Tables
<1>2. m \in Messages  BY <1>1, Tables DEF Piece, Messages
<1>3. m.event = DeviceEvent(i) /\ m.from = p /\ m.size = n  BY DEF Piece
<1>4. Inside(m)  BY <1>3, Tables DEF Inside
<1>5. QED  BY <1>2, <1>4 DEF Sound

\* What a message on the way from the host may be.
LEMMA Served ==
    ASSUME BtInv, NEW k, Serving(k)
    PROVE  /\ Head(toServer) \in Requests
           /\ Head(toServer).kind = k
           /\ HostOK'
<1>1. toServer \in Seq(Requests) /\ toServer # << >>  BY DEF BtInv, HostOK, Serving
<1>2. Head(toServer) \in Requests /\ Tail(toServer) \in Seq(Requests)  BY <1>1
<1>3. HostOK'  BY <1>2 DEF BtInv, HostOK, Serving, hostVars
<1>4. QED  BY <1>2, <1>3 DEF Serving

-----------------------------------------------------------------------------
(* The ways through process_bt_control.                                    *)

LEMMA AnswerKeeps ==
    ASSUME BtInv, NEW c \in Commands, NEW s \in Seqs, Answer(c, s)
    PROVE  FragOK' /\ ScanOK' /\ WireOK'
<1> DEFINE n == Least(EventSize[c], MaxControl)
<1>1. n \in 0 .. MaxControl /\ 0 + n <= EventSize[c]  BY Tables DEF Least
<1>2. Piece(s, CommandEvent(c), 0, n) \in Sound  BY <1>1, CommandPiece
<1>3. WireOK'  BY <1>2, SendSound DEF BtInv, Answer
<1>4. FragOK'
  <2>1. CASE UNCHANGED fragVars  BY <2>1 DEF BtInv, FragOK, fragVars
  <2>2. CASE ~UNCHANGED fragVars
    <3>1. buffer' = CommandEvent(c)  BY <2>2 DEF Answer
    <3>2. CASE EventSize[c] > MaxControl
      BY <2>2, <3>1, <3>2, Tables DEF Answer, FragOK, BtInv
    <3>3. CASE ~(EventSize[c] > MaxControl)
      BY <2>2, <3>1, <3>3, Tables DEF Answer, FragOK, BtInv
    <3>4. QED  BY <3>2, <3>3
  <2>3. QED  BY <2>1, <2>2
<1>5. ScanOK'
  <2>1. scanning_frag_device_pos' = scanning_frag_device_pos  BY DEF Answer, scanVars
  <2>2. \/ scanning' = TRUE /\ scanning_device_pos' = 1
        \/ scanning' = scanning /\ scanning_device_pos' = scanning_device_pos
    BY DEF Answer, scanVars
  <2>3. scanning' \in BOOLEAN  BY <2>2 DEF BtInv, ScanOK
  <2>4. 1 \in 1 .. Len(DeviceSize) + 1  BY Tables
  <2>5. scanning_device_pos' \in 1 .. Len(DeviceSize) + 1
    BY <2>2, <2>4 DEF BtInv, ScanOK
  <2>6. QED  BY <2>1, <2>2, <2>3, <2>5 DEF BtInv, ScanOK
<1>6. QED  BY <1>3, <1>4, <1>5

LEMMA NextFragmentKeeps ==
    ASSUME BtInv, NEW s \in Seqs, NextFragment(s)
    PROVE  StoreOK' /\ FragOK' /\ ScanOK' /\ WireOK'
<1> DEFINE n == Least(frag_message_length - frag_message_pos, MaxControl)
<1>1. PICK b \in Commands : buffer = CommandEvent(b)  BY DEF BtInv, FragOK
<1>2. PICK d \in Commands : frag_message_length = EventSize[d]
  BY DEF BtInv, FragOK, NextFragment
<1>3. /\ frag_message_length \in Nat
      /\ frag_message_pos \in Nat
      /\ frag_message_pos < frag_message_length
  BY DEF BtInv, FragOK, NextFragment
<1>4. n \in 0 .. MaxControl /\ frag_message_pos + n <= EventSize[d]
  BY <1>2, <1>3, Tables DEF Least
<1>5. Piece(s, buffer, frag_message_pos, n) \in Sound
  BY <1>1, <1>3, <1>4, CommandPiece
<1>6. WireOK'  BY <1>5, SendSound DEF BtInv, NextFragment
<1>7. FragOK'
  <2>1. CASE frag_message_pos + n = frag_message_length
    BY <2>1, <1>1 DEF NextFragment, FragOK
  <2>2. CASE frag_message_pos + n # frag_message_length
    <3>1. frag_message_pos + n \in Nat /\ frag_message_pos + n < frag_message_length
      BY <2>2, <1>2, <1>3, <1>4, Tables
    <3>2. /\ buffer' = buffer
          /\ frag_message_length' = frag_message_length
          /\ frag_message_pos' = frag_message_pos + n
      BY <2>2 DEF NextFragment
    <3>3. QED  BY <3>1, <3>2, <1>1, <1>2, <1>3 DEF FragOK
  <2>3. QED  BY <2>1, <2>2
<1>8. StoreOK' /\ ScanOK'
  BY DEF BtInv, StoreOK, ScanOK, NextFragment, storeVars, scanVars, Rendezvous
<1>9. QED  BY <1>6, <1>7, <1>8

\* Arithmetic of the positions.
LEMMA Multiples ==
    ASSUME NEW m \in Nat \ {0}, NEW k \in Nat
    PROVE  k * m + m = (k + 1) * m /\ k <= k * m /\ k * m \in Nat
OBVIOUS

LEMMA ScanFragmentKeeps ==
    ASSUME BtInv, NEW s \in Seqs, ScanFragment(s)
    PROVE  StoreOK' /\ FragOK' /\ ScanOK' /\ WireOK'
<1> DEFINE d == scanning_device_pos
           f == scanning_frag_device_pos
           n == Least(DeviceSize[d] - f, MaxControl)
<1>1. d \in DOMAIN DeviceSize /\ FirstLong(d, d)
  BY Tables DEF BtInv, ScanOK, ScanFragment, Long, FirstLong
<1>2. f \in Nat /\ f <= DeviceSize[d]  BY <1>1 DEF BtInv, ScanOK
<1>3. PICK k \in Nat : f = k * MaxControl  BY DEF BtInv, ScanOK
<1>4. n \in 0 .. MaxControl /\ f + n <= DeviceSize[d]
  BY <1>1, <1>2, Tables DEF Least
<1>5. Piece(s, DeviceEvent(d), f, n) \in Sound  BY <1>1, <1>2, <1>4, DevicePiece
<1>6. WireOK'  BY <1>5, SendSound DEF BtInv, ScanFragment
<1>7. ScanOK'
  <2>1. CASE f + n = DeviceSize[d]
    <3>1. scanning_frag_device_pos' = 0 /\ scanning_device_pos' = d + 1 /\ scanning' = scanning
      BY <2>1 DEF ScanFragment
    <3>2. d + 1 \in 1 .. Len(DeviceSize) + 1  BY <1>1, Tables
    <3>3. 0 = 0 * MaxControl  BY Tables
    <3>4. \A i \in DOMAIN DeviceSize : 0 <= DeviceSize[i]  BY Tables
    <3>5. QED  BY <3>1, <3>2, <3>3, <3>4 DEF BtInv, ScanOK
  <2>2. CASE f + n # DeviceSize[d]
    <3>1. n = MaxControl /\ f + n < DeviceSize[d]
      BY <2>2, <1>1, <1>2, Tables DEF Least
    <3>2. f + n = (k + 1) * MaxControl  BY <3>1, <1>3, Multiples, Tables
    <3>3. k + 1 \in 0 .. DeviceSize[d]
      <4>1. k + 1 <= (k + 1) * MaxControl  BY Multiples, Tables
      <4>2. QED  BY <4>1, <3>1, <3>2, <1>1, Tables
    <3>4. ASSUME NEW i \in DOMAIN DeviceSize, FirstLong(1, i) \/ FirstLong(d, i)
          PROVE  f + n <= DeviceSize[i]
      <4>1. CASE FirstLong(1, i)
        BY <4>1, <3>1, <3>2, <3>3, <1>1, DevicesAssumption DEF FirstLong
      <4>2. CASE FirstLong(d, i)
        <5>1. d <= i /\ d \in Int /\ i \in Int  BY <4>2, <1>1, Tables DEF FirstLong
        <5>2. d \notin d .. i - 1  BY <4>2, <1>1 DEF FirstLong
        <5>3. d = i  BY <5>1, <5>2
        <5>4. QED  BY <5>3, <3>1, <1>2, <1>4, <1>1, Tables
      <4>3. QED  BY <3>4, <4>1, <4>2
    <3>5. /\ scanning_frag_device_pos' = f + n
          /\ scanning_device_pos' = d
          /\ scanning' = scanning
      BY <2>2 DEF ScanFragment
    <3>6. f + n \in Nat /\ k + 1 \in Nat  BY <3>1, <1>2, Tables
    <3>7. QED  BY <3>2, <3>4, <3>5, <3>6 DEF BtInv, ScanOK, Long
  <2>3. QED  BY <2>1, <2>2
<1>8. StoreOK' /\ FragOK'
  BY DEF BtInv, StoreOK, FragOK, ScanFragment, storeVars, fragVars, Rendezvous
<1>9. QED  BY <1>6, <1>7, <1>8

LEMMA ScanReportKeeps ==
    ASSUME BtInv, NEW s \in Seqs, ScanReport(s)
    PROVE  StoreOK' /\ FragOK' /\ ScanOK' /\ WireOK'
<1> DEFINE d == scanning_device_pos
<1>1. d \in DOMAIN DeviceSize  BY Tables DEF BtInv, ScanOK, ScanReport
<1>2. DeviceSize[d] \in 0 .. MaxControl /\ 0 + DeviceSize[d] <= DeviceSize[d]
  BY <1>1, Tables DEF ScanReport
<1>3. Piece(s, DeviceEvent(d), 0, DeviceSize[d]) \in Sound  BY <1>1, <1>2, DevicePiece
<1>4. WireOK'  BY <1>3, SendSound DEF BtInv, ScanReport
<1>5. ScanOK'
  <2>1. d + 1 \in 1 .. Len(DeviceSize) + 1  BY <1>1, Tables
  <2>2. ASSUME NEW i \in DOMAIN DeviceSize, FirstLong(d + 1, i)
        PROVE  FirstLong(d, i)
    BY <2>2, <1>1, <1>2, Tables DEF FirstLong, Long
  <2>3. /\ scanning_device_pos' = d + 1
        /\ UNCHANGED <<scanning, scanning_frag_device_pos>>
    BY DEF ScanReport
  <2>4. QED  BY <2>1, <2>2, <2>3 DEF BtInv, ScanOK
<1>6. StoreOK' /\ FragOK'
  BY DEF BtInv, StoreOK, FragOK, ScanReport, storeVars, fragVars, Rendezvous
<1>7. QED  BY <1>4, <1>5, <1>6

-----------------------------------------------------------------------------
(* The steps of the server.                                                *)

LEMMA ServeTransferKeeps == BtInv /\ ServeTransfer => BtInv'
<1> SUFFICES ASSUME BtInv, ServeTransfer PROVE BtInv'
  OBVIOUS
<1> DEFINE s == Head(toServer).seq
<1>1. HostOK' /\ Head(toServer) \in Requests /\ Head(toServer).kind = "transfer"
  BY Served DEF ServeTransfer
<1>2. s \in Seqs  BY <1>1 DEF Requests
<1>3. StoreOK' /\ FragOK' /\ ScanOK' /\ WireOK'
  <2>1. CASE TransferMeetsCommand(s)
    <3>1. CASE last_bt_control \in Commands
      <4>1. FragOK' /\ ScanOK' /\ WireOK'
        BY <2>1, <3>1, <1>2, AnswerKeeps DEF TransferMeetsCommand
      <4>2. StoreOK'
        BY <2>1, <3>1 DEF TransferMeetsCommand, BtInv, StoreOK, Rendezvous
      <4>3. QED  BY <4>1, <4>2
    <3>2. CASE last_bt_control \notin Commands
      BY <2>1, <3>2 DEF TransferMeetsCommand, Drop, BtInv, StoreOK, FragOK, ScanOK,
         WireOK, Rendezvous, serverVars, storeVars, fragVars, scanVars
    <3>3. QED  BY <3>1, <3>2
  <2>2. CASE FirstEvent(s)
    <3>1. FragOK' /\ ScanOK' /\ WireOK'
      BY <2>2, <1>2, AnswerKeeps, BtAssumption DEF FirstEvent
    <3>2. StoreOK'  BY <2>2 DEF FirstEvent, BtInv, StoreOK, Rendezvous
    <3>3. QED  BY <3>1, <3>2
  <2>3. CASE NextFragment(s)  BY <2>3, <1>2, NextFragmentKeeps
  <2>4. CASE ScanEnd(s)
    BY <2>4, <1>2 DEF ScanEnd, InScan, Idle, BtInv, StoreOK, FragOK, ScanOK, WireOK,
       Rendezvous, fragVars
  <2>5. CASE ScanFragment(s)  BY <2>5, <1>2, ScanFragmentKeeps
  <2>6. CASE ScanReport(s)  BY <2>6, <1>2, ScanReportKeeps
  <2>7. CASE StoreTransfer(s)
    BY <2>7, <1>2 DEF StoreTransfer, Idle, BtInv, StoreOK, FragOK, ScanOK, WireOK,
       Rendezvous, fragVars, scanVars
  <2>8. CASE ReplaceTransfer(s)
    BY <2>8, <1>2 DEF ReplaceTransfer, BtInv, StoreOK, FragOK, ScanOK, WireOK,
       Rendezvous, fragVars, scanVars
  <2>9. QED
    BY <2>1, <2>2, <2>3, <2>4, <2>5, <2>6, <2>7, <2>8 DEF ServeTransfer
<1>4. QED  BY <1>1, <1>3 DEF BtInv

LEMMA ServeCommandKeeps == BtInv /\ ServeCommand => BtInv'
<1> SUFFICES ASSUME BtInv, ServeCommand PROVE BtInv'
  OBVIOUS
<1> DEFINE c == Head(toServer).cmd
<1>1. HostOK' /\ Head(toServer) \in Requests /\ Head(toServer).kind = "command"
  BY Served DEF ServeCommand
<1>2. c \in Commands \cup Unknown  BY <1>1 DEF Requests
<1>3. StoreOK' /\ FragOK' /\ ScanOK' /\ WireOK'
  <2>1. CASE CommandMeetsTransfer(c)
    <3>1. CASE c \in Commands
      <4>1. last_bt_control_seq \in Seqs
        BY <2>1 DEF CommandMeetsTransfer, BtInv, StoreOK
      <4>2. FragOK' /\ ScanOK' /\ WireOK'
        BY <2>1, <3>1, <4>1, AnswerKeeps DEF CommandMeetsTransfer
      <4>3. StoreOK'
        BY <2>1, <3>1 DEF CommandMeetsTransfer, BtInv, StoreOK, Rendezvous
      <4>4. QED  BY <4>2, <4>3
    <3>2. CASE c \notin Commands
      BY <2>1, <3>2 DEF CommandMeetsTransfer, Drop, BtInv, StoreOK, FragOK, ScanOK,
         WireOK, Rendezvous, serverVars, storeVars, fragVars, scanVars
    <3>3. QED  BY <3>1, <3>2
  <2>2. CASE StoreCommand(c)
    BY <2>2, <1>2 DEF StoreCommand, BtInv, StoreOK, FragOK, ScanOK, WireOK, Rendezvous,
       fragVars, scanVars
  <2>3. CASE CommandMeetsCommand
    BY <2>3 DEF CommandMeetsCommand, Drop, BtInv, StoreOK, FragOK, ScanOK, WireOK,
       Rendezvous, serverVars, storeVars, fragVars, scanVars
  <2>4. QED  BY <2>1, <2>2, <2>3 DEF ServeCommand
<1>4. QED  BY <1>1, <1>3 DEF BtInv

LEMMA ServeUnlinkKeeps == BtInv /\ ServeUnlink => BtInv'
<1> SUFFICES ASSUME BtInv, ServeUnlink PROVE BtInv'
  OBVIOUS
<1>1. HostOK'  BY Served DEF ServeUnlink
<1>2. [kind |-> "unlinked"] \in Sound  BY DEF Sound, Messages
<1>3. WireOK'  BY <1>2, SendSound DEF BtInv, ServeUnlink
<1>4. StoreOK' /\ FragOK' /\ ScanOK'
  BY DEF BtInv, StoreOK, FragOK, ScanOK, Rendezvous, ServeUnlink, storeVars, fragVars
<1>5. QED  BY <1>1, <1>3, <1>4 DEF BtInv

-----------------------------------------------------------------------------
(* The steps of the host and of the connection, which change no static.    *)

LEMMA StaticsKept ==
    ASSUME BtInv, UNCHANGED serverVars
    PROVE  StoreOK' /\ FragOK' /\ ScanOK' /\ exited' \in BOOLEAN
BY DEF BtInv, StoreOK, FragOK, ScanOK, WireOK, Rendezvous, serverVars, storeVars,
   fragVars, scanVars

\* What the host has read stays inside the event it is of.
LEMMA ReadsKeeps ==
    ASSUME HostOK, NEW e \in Events, NEW p \in Nat, NEW n \in 0 .. MaxControl,
           Reads(e, p, n)
    PROVE  /\ command' \in Commands \cup Unknown \cup {None}
           /\ partial' \in [event: Events, got: Nat]
           /\ fault' \in {"none", "torn", "unexpected"}
<1>1. p + n \in Nat  BY Tables
<1>2. Nothing \in [event: Events, got: Nat]  BY Tables, BtAssumption DEF Nothing
<1>3. [event |-> e, got |-> p + n] \in [event: Events, got: Nat]  BY <1>1
<1>4. command' \in {command, None}  BY DEF Reads
<1>5. partial' \in {partial, Nothing, [event |-> e, got |-> p + n]}  BY DEF Reads
<1>6. fault' \in {fault, "torn"}  BY DEF Reads
<1>7. QED  BY <1>2, <1>3, <1>4, <1>5, <1>6 DEF HostOK

LEMMA SubmitKeeps ==
    ASSUME toServer \in Seq(Requests), SubmitTransfer
    PROVE  urb' \in Seqs /\ toServer' \in Seq(Requests)
<1>1. PICK s \in Seqs : /\ urb' = s
                        /\ toServer' = Append(toServer, Request("transfer", s, None))
  BY DEF SubmitTransfer
<1>2. Request("transfer", s, None) \in Requests  BY DEF Request, Requests
<1>3. QED  BY <1>1, <1>2

LEMMA HostKeeps ==
    ASSUME BtInv,
           \/ Open \/ Resubmit \/ GiveUp \/ Close
           \/ \E c \in Commands \cup Unknown : SendCommand(c)
    PROVE  BtInv'
<1>1. UNCHANGED <<serverVars, link, toHost>>
  BY DEF Open, Resubmit, GiveUp, Close, SendCommand
<1>2. StoreOK' /\ FragOK' /\ ScanOK' /\ WireOK'
  BY <1>1, StaticsKept DEF BtInv, WireOK
<1>3. toServer \in Seq(Requests)  BY DEF BtInv, HostOK
<1>4. HostOK'
  <2>1. CASE Open
    BY <2>1, <1>1, <1>3, SubmitKeeps DEF Open, BtInv, HostOK
  <2>2. CASE Resubmit
    BY <2>2, <1>1, <1>3, SubmitKeeps DEF Resubmit, BtInv, HostOK
  <2>3. CASE GiveUp
    BY <2>3, <1>1 DEF GiveUp, BtInv, HostOK
  <2>4. CASE Close
    <3>1. Request("unlink", NoSeq, None) \in Requests  BY DEF Request, Requests
    <3>2. toServer' \in Seq(Requests)  BY <2>4, <3>1, <1>3 DEF Close
    <3>3. QED  BY <2>4, <3>2, <1>1 DEF Close, BtInv, HostOK
  <2>5. ASSUME NEW c \in Commands \cup Unknown, SendCommand(c)
        PROVE  HostOK'
    <3>1. Request("command", NoSeq, c) \in Requests  BY DEF Request, Requests
    <3>2. toServer' \in Seq(Requests)  BY <2>5, <3>1, <1>3 DEF SendCommand
    <3>3. QED  BY <2>5, <3>2, <1>1 DEF SendCommand, BtInv, HostOK
  <2>6. QED  BY <2>1, <2>2, <2>3, <2>4, <2>5
<1>5. QED  BY <1>2, <1>4 DEF BtInv

LEMMA LinkKeeps == ASSUME BtInv, Connect \/ CloseLink PROVE BtInv'
<1>1. UNCHANGED <<serverVars, toServer, toHost, hostVars>> /\ link' \in {"up", "down"}
  BY DEF Connect, CloseLink
<1>2. StoreOK' /\ FragOK' /\ ScanOK' /\ WireOK'
  BY <1>1, StaticsKept DEF BtInv, WireOK
<1>3. HostOK'  BY <1>1 DEF BtInv, HostOK, hostVars
<1>4. QED  BY <1>2, <1>3 DEF BtInv

LEMMA HostClosedKeeps ==
    ASSUME HostOK, HostClosed
    PROVE  /\ device' \in {"closed", "open", "closing"}
           /\ urb' \in Seqs \cup {NoSeq}
           /\ command' \in Commands \cup Unknown \cup {None}
           /\ partial' \in [event: Events, got: Nat]
           /\ fault' \in {"none", "torn", "unexpected"}
<1>1. Nothing \in [event: Events, got: Nat]  BY Tables, BtAssumption DEF Nothing
<1>2. QED  BY <1>1 DEF HostOK, HostClosed

LEMMA PeerGoneKeeps == ASSUME BtInv, PeerGone PROVE BtInv'
<1>1. UNCHANGED serverVars /\ link' = "gone" /\ toHost' = << >> /\ HostClosed
  BY DEF PeerGone
<1>2. StoreOK' /\ FragOK' /\ ScanOK' /\ WireOK'
  BY <1>1, StaticsKept DEF WireOK
<1>3. toServer \in Seq(Requests)  BY DEF BtInv, HostOK
<1>4. PICK n \in 0 .. Len(toServer) :
        LET rest == SubSeq(toServer, 1, n) IN
           \/ toServer' = rest
           \/ /\ n > 0
              /\ rest[n].kind = "command"
              /\ \E c \in Unknown : toServer' = [rest EXCEPT ![n].cmd = c]
  BY DEF PeerGone
<1> DEFINE rest == SubSeq(toServer, 1, n)
<1>5. rest \in Seq(Requests) /\ Len(rest) = n  BY <1>3, <1>4
<1>6. toServer' \in Seq(Requests)
  <2>1. CASE toServer' = rest  BY <2>1, <1>5
  <2>2. ASSUME NEW c \in Unknown, n > 0, rest[n].kind = "command",
               toServer' = [rest EXCEPT ![n].cmd = c]
        PROVE  toServer' \in Seq(Requests)
    <3>1. n \in 1 .. Len(rest) /\ rest[n] \in Requests  BY <2>2, <1>4, <1>5
    <3>2. [rest[n] EXCEPT !.cmd = c] \in Requests  BY <2>2, <3>1 DEF Requests
    <3> DEFINE cut == [rest[n] EXCEPT !.cmd = c]
    <3>3. [rest EXCEPT ![n] = cut] \in Seq(Requests)
      BY <3>1, <3>2, <1>5, ExceptSeq
    <3>4. toServer' = [rest EXCEPT ![n] = cut]  BY <2>2
    <3>5. QED  BY <3>3, <3>4
  <2>3. QED  BY <1>4, <2>1, <2>2
<1>7. HostOK'  BY <1>1, <1>6, HostClosedKeeps DEF BtInv, HostOK
<1>8. QED  BY <1>2, <1>7 DEF BtInv

LEMMA ReceiveKeeps == ASSUME BtInv, ReceivePiece \/ ReceiveUnlinked PROVE BtInv'
<1>1. /\ UNCHANGED <<serverVars, link, toServer>>
      /\ toHost # << >>
      /\ toHost' = Tail(toHost)
  BY DEF ReceivePiece, ReceiveUnlinked, Receives
<1>2. toHost \in Seq(Sound)  BY DEF BtInv, WireOK
<1>3. Head(toHost) \in Sound /\ Tail(toHost) \in Seq(Sound)  BY <1>1, <1>2
<1>4. StoreOK' /\ FragOK' /\ ScanOK' /\ WireOK'
  BY <1>1, <1>3, StaticsKept DEF WireOK
<1>5. HostOK'
  <2>1. CASE ReceiveUnlinked
    BY <2>1, <1>1, HostClosedKeeps DEF ReceiveUnlinked, BtInv, HostOK
  <2>2. CASE ReceivePiece
    <3> DEFINE m == Head(toHost)
    <3>1. m.kind = "piece"  BY <2>2 DEF ReceivePiece, Receives
    <3>2. m.event \in Events /\ m.from \in Nat /\ m.size \in 0 .. MaxControl
      <4>1. m \in Messages /\ Inside(m)  BY <3>1, <1>3 DEF Sound
      <4>2. QED  BY <3>1, <4>1 DEF Messages, Inside
    <3>3. CASE m.seq # urb
      BY <2>2, <3>3, <1>1 DEF ReceivePiece, BtInv, HostOK
    <3>4. CASE m.seq = urb /\ device = "open"
      <4>1. Reads(m.event, m.from, m.size) /\ urb' = NoSeq /\ UNCHANGED device
        BY <2>2, <3>4 DEF ReceivePiece
      <4>2. QED  BY <4>1, <3>2, <1>1, ReadsKeeps DEF BtInv, HostOK
    <3>5. CASE m.seq = urb /\ device # "open"
      BY <2>2, <3>5, <1>1 DEF ReceivePiece, BtInv, HostOK
    <3>6. QED  BY <3>3, <3>4, <3>5
  <2>3. QED  BY <2>1, <2>2
<1>6. QED  BY <1>4, <1>5 DEF BtInv

-----------------------------------------------------------------------------
(* The invariant and what follows from it.                                 *)

LEMMA BtInitially == Init => BtInv
<1> SUFFICES ASSUME Init PROVE BtInv
  OBVIOUS
<1>1. StoreOK  BY DEF Init, StoreOK, Rendezvous
<1>2. FragOK  BY BtAssumption DEF Init, FragOK
<1>3. ScanOK
  <2>1. 0 = 0 * MaxControl  BY Tables
  <2>2. 1 \in 1 .. Len(DeviceSize) + 1  BY Tables
  <2>3. \A i \in DOMAIN DeviceSize : 0 <= DeviceSize[i]  BY Tables
  <2>4. QED  BY <2>1, <2>2, <2>3 DEF Init, ScanOK
<1>4. WireOK
  <2>1. exited \in BOOLEAN  BY DEF Init
  <2>2. toHost = << >>  BY DEF Init
  <2>3. toHost \in Seq(Sound)  BY <2>2
  <2>4. QED  BY <2>1, <2>3 DEF WireOK
<1>5. Nothing \in [event: Events, got: Nat]  BY Tables, BtAssumption DEF Nothing
<1>6. HostOK  BY <1>5 DEF Init, HostOK
<1>7. QED  BY <1>1, <1>2, <1>3, <1>4, <1>6 DEF BtInv

LEMMA BtNext == BtInv /\ [Next]_vars => BtInv'
<1> SUFFICES ASSUME BtInv, [Next]_vars PROVE BtInv'
  OBVIOUS
<1>1. CASE Serve
  BY <1>1, ServeTransferKeeps, ServeCommandKeeps, ServeUnlinkKeeps DEF Serve
<1>2. CASE CloseLink \/ Connect  BY <1>2, LinkKeeps
<1>3. CASE \/ Open \/ Resubmit \/ GiveUp \/ Close
           \/ \E c \in Commands \cup Unknown : SendCommand(c)
  BY <1>3, HostKeeps
<1>4. CASE PeerGone  BY <1>4, PeerGoneKeeps
<1>5. CASE ReceivePiece \/ ReceiveUnlinked  BY <1>5, ReceiveKeeps
<1>6. CASE UNCHANGED vars
  <2>1. UNCHANGED <<serverVars, link, toServer, toHost, hostVars>>  BY <1>6 DEF vars
  <2>2. StoreOK' /\ FragOK' /\ ScanOK' /\ WireOK'
    BY <2>1, StaticsKept DEF BtInv, WireOK
  <2>3. HostOK'  BY <2>1 DEF BtInv, HostOK, hostVars
  <2>4. QED  BY <2>2, <2>3 DEF BtInv
<1>7. QED  BY <1>1, <1>2, <1>3, <1>4, <1>5, <1>6 DEF Next

\* The host stays as careful as it is.
Careful == careful \in BOOLEAN

LEMMA BtInvariant == Spec => [](BtInv /\ Careful)
<1>1. Init => BtInv /\ Careful  BY BtInitially DEF Init, Careful
<1>2. BtInv /\ Careful /\ [Next /\ UNCHANGED careful]_<<vars, careful>>
         => (BtInv /\ Careful)'
  BY BtNext DEF Careful
<1>3. QED  BY <1>1, <1>2, PTL DEF Spec

\* The statics of process_bt_control and the messages of both sides keep their
\* types for ever.
THEOREM BtTypeCorrect == Spec => []TypeOK
<1>1. ASSUME BtInv, Careful PROVE TypeOK
  <2>1. \A m \in Sound : m \in Messages  BY DEF Sound
  <2>2. toHost \in Seq(Messages)  BY <1>1, <2>1 DEF BtInv, WireOK
  <2>3. frag_message_length \in 0 .. MaxLength
    BY <1>1, BtAssumption DEF BtInv, FragOK, MaxLength
  <2>4. QED
    BY <1>1, <2>2, <2>3 DEF TypeOK, BtInv, StoreOK, FragOK, ScanOK, WireOK, HostOK, Careful
<1>2. QED  BY <1>1, BtInvariant, PTL

\* process_bt_control never stores a command and a transfer at once: neither
\* waits for the other while the other is there.
THEOREM BtRendezvous == Spec => []Rendezvous
<1>1. BtInv => Rendezvous  BY DEF BtInv, StoreOK
<1>2. QED  BY <1>1, BtInvariant, PTL

\* process_bt_control never computes a negative length, and sends no byte from
\* outside buffer's longest event or a device's entry, whatever a host that
\* comes and goes has left in the statics.
THEOREM BtPiecesInside == Spec => []PiecesInside
<1>1. ASSUME BtInv PROVE PiecesInside
  <2>1. FragmentLeft  BY <1>1 DEF FragmentLeft, BtInv, FragOK
  <2>2. ASSUME NEW i \in DOMAIN toHost, toHost[i].kind = "piece"
        PROVE  Inside(toHost[i])
    <3>1. toHost \in Seq(Sound)  BY <1>1 DEF BtInv, WireOK
    <3>2. toHost[i] \in Sound  BY <3>1
    <3>3. QED  BY <2>2, <3>2 DEF Sound
  <2>3. QED  BY <2>1, <2>2 DEF PiecesInside
<1>2. QED  BY <1>1, BtInvariant, PTL

-----------------------------------------------------------------------------
(* What a transfer takes on.                                               *)

\* The event in buffer, and the scan, are nearer to their end.
EventAhead ==
    \/ frag_message_length' = 0
    \/ /\ frag_message_length' = frag_message_length
       /\ frag_message_pos < frag_message_pos'
       /\ frag_message_pos' < frag_message_length

ScanAhead ==
    \/ scanning_device_pos <= Len(DeviceSize) /\ scanning_device_pos' = scanning_device_pos + 1
    \/ /\ scanning_device_pos' = scanning_device_pos
       /\ scanning_frag_device_pos < scanning_frag_device_pos'
       /\ scanning_frag_device_pos' < DeviceSize[scanning_device_pos]

ScanStarts == \E c \in ScanCommands, s \in Seqs : Answer(c, s) /\ scanning_device_pos' = 1

\* A transfer that meets no command is taken up by the rest of an event, then by the scan.
Sends == ServeTransfer /\ Idle /\ ~first_bt_control

Advances ==
    /\ Sends /\ frag_message_length # 0 => EventAhead /\ UNCHANGED scanVars
    /\ Sends /\ frag_message_length = 0 /\ scanning => ~scanning' \/ ScanAhead
    /\ scanning /\ scanning' => UNCHANGED scanVars \/ ScanAhead \/ ScanStarts

\* A piece is not empty, unless it ends its event.
LEMMA PieceSize ==
    ASSUME NEW size \in Nat, NEW p \in Nat, p <= size
    PROVE  LET n == Least(size - p, MaxControl) IN
              /\ p + n # size => p + n \in Nat /\ p < p + n /\ p + n < size
BY Tables DEF Least

\* The rest of an event.
LEMMA FragmentAdvances ==
    ASSUME BtInv, NEW s, NextFragment(s)
    PROVE  EventAhead /\ UNCHANGED scanVars
<1>1. /\ frag_message_length \in Nat /\ frag_message_pos \in Nat
      /\ frag_message_pos <= frag_message_length
  BY DEF BtInv, FragOK, NextFragment
<1> DEFINE n == Least(frag_message_length - frag_message_pos, MaxControl)
<1>2. UNCHANGED scanVars
  BY DEF NextFragment
<1>3. CASE frag_message_pos + n = frag_message_length
  BY <1>3 DEF NextFragment, EventAhead
<1>4. CASE frag_message_pos + n # frag_message_length
  <2>1. frag_message_pos' = frag_message_pos + n /\ frag_message_length' = frag_message_length
    BY <1>4 DEF NextFragment
  <2>2. frag_message_pos < frag_message_pos + n /\ frag_message_pos + n < frag_message_length
    BY <1>1, <1>4, PieceSize
  <2> QED BY <1>2, <2>1, <2>2 DEF EventAhead
<1> QED BY <1>2, <1>3, <1>4

\* The devices of a scan.
LEMMA ScanAdvances ==
    ASSUME BtInv, NEW s, ScanFragment(s) \/ ScanReport(s)
    PROVE  ScanAhead
<1>1. CASE ScanReport(s)
  BY <1>1 DEF ScanReport, ScanAhead
<1>2. CASE ScanFragment(s)
  <2> DEFINE i == scanning_device_pos
             n == Least(DeviceSize[i] - scanning_frag_device_pos, MaxControl)
  <2>1. i \in DOMAIN DeviceSize /\ DeviceSize[i] \in Nat
    BY <1>2, Tables DEF BtInv, ScanOK, ScanFragment
  <2>2. FirstLong(i, i)
    BY <1>2, <2>1 DEF FirstLong, Long, ScanFragment
  <2>3. scanning_frag_device_pos \in Nat /\ scanning_frag_device_pos <= DeviceSize[i]
    BY <2>1, <2>2 DEF BtInv, ScanOK
  <2>4. CASE scanning_frag_device_pos + n = DeviceSize[i]
    BY <1>2, <2>4 DEF ScanFragment, ScanAhead
  <2>5. CASE scanning_frag_device_pos + n # DeviceSize[i]
    <3>1. /\ scanning_frag_device_pos' = scanning_frag_device_pos + n
          /\ scanning_device_pos' = scanning_device_pos
      BY <1>2, <2>5 DEF ScanFragment
    <3>2. /\ scanning_frag_device_pos < scanning_frag_device_pos + n
          /\ scanning_frag_device_pos + n < DeviceSize[i]
      BY <2>1, <2>3, <2>5, PieceSize
    <3> QED BY <3>1, <3>2 DEF ScanAhead
  <2> QED BY <2>4, <2>5
<1> QED BY <1>1, <1>2

\* The event of a command starts a scan, if the command is one that does.
LEMMA AnswerStarts ==
    ASSUME NEW c \in Commands, NEW s \in Seqs, Answer(c, s)
    PROVE  UNCHANGED scanVars \/ ScanStarts
<1>1. CASE c \in ScanCommands
  BY <1>1 DEF Answer, ScanStarts
<1>2. CASE c \notin ScanCommands
  BY <1>2 DEF Answer
<1> QED BY <1>1, <1>2

LEMMA TransferAdvances ==
    ASSUME BtInv, ServeTransfer
    PROVE  Advances
<1> DEFINE s == Head(toServer).seq
<1>1. s \in Seqs
  <2>1. Serving("transfer")
    BY DEF ServeTransfer
  <2>2. Head(toServer) \in Requests /\ Head(toServer).kind = "transfer"
    BY <2>1, Served
  <2> QED BY <2>2 DEF Requests
<1>2. CASE TransferMeetsCommand(s)
  <2>1. ~Idle
    BY <1>2 DEF TransferMeetsCommand, Idle
  <2>2. UNCHANGED scanVars \/ ScanStarts
    BY <1>1, <1>2, AnswerStarts DEF TransferMeetsCommand, Drop, serverVars
  <2> QED BY <2>1, <2>2 DEF Advances, Sends
<1>3. CASE FirstEvent(s)
  <2>1. first_bt_control /\ UNCHANGED scanVars
    BY <1>3, BtAssumption DEF FirstEvent, Answer
  <2> QED BY <2>1 DEF Advances, Sends
<1>4. CASE NextFragment(s)
  <2>1. frag_message_length # 0
    BY <1>4 DEF NextFragment
  <2> QED BY <1>4, <2>1, FragmentAdvances DEF Advances
<1>5. CASE ScanEnd(s)
  BY <1>5 DEF ScanEnd, InScan, Advances
<1>6. CASE ScanFragment(s) \/ ScanReport(s)
  <2>1. frag_message_length = 0
    BY <1>6 DEF ScanFragment, ScanReport, InScan
  <2> QED BY <1>6, <2>1, ScanAdvances DEF Advances
<1>7. CASE StoreTransfer(s)
  BY <1>7 DEF StoreTransfer, Advances
<1>8. CASE ReplaceTransfer(s)
  BY <1>8 DEF ReplaceTransfer, Advances, Sends, Idle
<1> QED BY <1>2, <1>3, <1>4, <1>5, <1>6, <1>7, <1>8 DEF ServeTransfer

\* For every host: a transfer that meets no stored command takes the event in buffer on, or
\* the scan, or ends them. Nothing else moves a scan, and only a scan command takes it back.
\* So the loops over transfers of process_bt_control end if the host submits transfers.
THEOREM BtAdvances == Spec => [][Advances]_vars
<1>1. BtInv /\ [Next]_vars => [Advances]_vars
  <2> SUFFICES ASSUME BtInv, Next PROVE Advances
    OBVIOUS
  <2>1. CASE ServeTransfer
    BY <2>1, TransferAdvances
  <2>2. CASE ServeCommand
    <3>1. ~Sends
      BY <2>2 DEF ServeCommand, Sends, ServeTransfer, Serving
    <3>2. UNCHANGED scanVars \/ ScanStarts
      <4>1. ASSUME NEW c, CommandMeetsTransfer(c) PROVE UNCHANGED scanVars \/ ScanStarts
        <5>1. last_bt_control_seq \in Seqs
          BY <4>1 DEF CommandMeetsTransfer, BtInv, StoreOK
        <5> QED BY <4>1, <5>1, AnswerStarts DEF CommandMeetsTransfer, Drop, serverVars
      <4>2. ASSUME NEW c, StoreCommand(c) \/ CommandMeetsCommand PROVE UNCHANGED scanVars
        BY <4>2 DEF StoreCommand, CommandMeetsCommand, Drop, serverVars
      <4> QED BY <2>2, <4>1, <4>2 DEF ServeCommand
    <3> QED BY <3>1, <3>2 DEF Advances
  <2>3. CASE ServeUnlink
    <3>1. ~Sends /\ ~scanning'
      BY <2>3 DEF ServeUnlink, Sends, ServeTransfer, Serving
    <3> QED BY <3>1 DEF Advances
  <2>4. CASE \/ CloseLink \/ Connect \/ Open \/ Resubmit \/ GiveUp \/ Close \/ PeerGone
             \/ ReceivePiece \/ ReceiveUnlinked
             \/ \E c \in Commands \cup Unknown : SendCommand(c)
    <3>1. UNCHANGED serverVars
      BY <2>4 DEF CloseLink, Connect, Open, Resubmit, GiveUp, Close, PeerGone, ReceivePiece,
         ReceiveUnlinked, Receives, SendCommand
    <3>2. CASE ~Sends
      BY <3>1, <3>2 DEF Advances, serverVars
    <3>3. CASE Sends
      BY <3>3, TransferAdvances DEF Sends
    <3> QED BY <3>2, <3>3
  <2> QED BY <2>1, <2>2, <2>3, <2>4 DEF Next, Serve
<1>2. Spec => [][Next]_vars
  <2>1. [Next /\ UNCHANGED careful]_<<vars, careful>> => [Next]_vars
    OBVIOUS
  <2> QED BY <2>1, PTL DEF Spec
<1> QED BY BtInvariant, <1>1, <1>2, PTL
=============================================================================
