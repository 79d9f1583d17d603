----------------------------- MODULE BtControl ------------------------------
(***************************************************************************)
(* The Bluetooth controller of c/bt.c.  The host sends HCI commands by     *)
(* control transfers, which are answered at once, and keeps one interrupt  *)
(* IN transfer submitted by which the controller sends its events, a piece *)
(* of at most MAX_CONTROL_SIZE bytes at a time.  process_bt_control brings *)
(* commands and transfers together: it stores whichever comes first, and   *)
(* keeps the rest of an event that did not fit and the progress of a scan  *)
(* in static variables, which outlive the connection.                      *)
(*                                                                         *)
(* The host (btusb on vhci) is the environment, and may be careful or not. *)
(* Bytes are abstracted to the event they are of and their place in it;    *)
(* the answer to the control transfer, a header without data, is left out. *)
(***************************************************************************)
EXTENDS Integers, Sequences

CONSTANTS
    Commands,       \* the commands of bt_control_array
    Unknown,        \* commands that are not there, or cut off by a disconnection
    ScanCommands,   \* those with control_flag 3
    Default,        \* bt_control_array[DEFAULT_BT_CONTROL_INDEX]
    EventSize,      \* bytes of the event that answers a command
    DeviceSize,     \* bytes of the events of bt_device_array, one by one
    MaxControl,     \* MAX_CONTROL_SIZE
    Seqs,           \* sequence numbers; one is used again when nobody holds it
    None            \* no command

\* No transfer: -1 in the code.
NoSeq == -1

\* frag_message_length is an unsigned char (bt.c:513).  The longest event of
\* bt_control_array is the local name with 254 bytes (bt.c:385); one of 256 would
\* be stored as 0 and its rest never sent.
MaxLength == 255

ASSUME BtAssumption ==
    /\ ScanCommands \subseteq Commands
    /\ Default \in Commands \ ScanCommands
    /\ None \notin Commands \cup Unknown
    /\ Commands \cap Unknown = {}
    /\ MaxControl \in Nat \ {0}
    /\ EventSize \in [Commands -> Nat \ {0}]
    /\ \A c \in Commands : EventSize[c] <= MaxLength
    /\ \A c \in ScanCommands \cup {Default} : EventSize[c] <= MaxControl
    /\ DeviceSize \in Seq(Nat \ {0})
    /\ Seqs \subseteq Nat

\* The devices that are sent in pieces, and the first of them from p on.
Long(i) == i \in DOMAIN DeviceSize /\ DeviceSize[i] > MaxControl

FirstLong(p, i) == Long(i) /\ p <= i /\ \A j \in p .. i - 1 : ~Long(j)

\* A scan that starts again begins with the first device, but in the middle of
\* the first long one if the scan before was left in the middle of another.
\* bt_device_array is such that this middle is never behind the end.
ASSUME DevicesAssumption ==
    \A i, first \in DOMAIN DeviceSize :
        Long(i) /\ FirstLong(1, first) =>
            \A k \in 0 .. DeviceSize[i] :
                k * MaxControl < DeviceSize[i] => k * MaxControl <= DeviceSize[first]

VARIABLES
    last_bt_control,        \* the stored command, None if none
    last_bt_control_seq,    \* the stored transfer, NoSeq if none
    first_bt_control,
    buffer,                 \* the event that buffer was last filled with
    frag_message_length,
    frag_message_pos,
    scanning,
    scanning_device_pos,
    scanning_frag_device_pos,
    exited,                 \* the process has ended
    link,                   \* the connection: up, gone (by the host) or down
    toServer, toHost,       \* what is on the way
    device,                 \* the host's device: closed, open or closing
    urb,                    \* the interrupt transfer the host waits for
    command,                \* the command whose event the host waits for
    partial,                \* the event the host has read the first bytes of
    fault,                  \* what the host has met: none, torn or unexpected
    careful                 \* the host waits for a scan to end before it sends a
                            \* command, and closes with no event half read

storeVars  == <<last_bt_control, last_bt_control_seq, first_bt_control>>
fragVars   == <<buffer, frag_message_length, frag_message_pos>>
scanVars   == <<scanning, scanning_device_pos, scanning_frag_device_pos>>
serverVars == <<storeVars, fragVars, scanVars, exited>>
hostVars   == <<device, urb, command, partial, fault>>
vars       == <<serverVars, link, toServer, toHost, hostVars>>

\* The events: one for each command and one for each device.
CommandEvent(c) == [cmd |-> c, dev |-> 0]
DeviceEvent(i)  == [cmd |-> None, dev |-> i]
Events == {CommandEvent(c) : c \in Commands}
             \cup {DeviceEvent(i) : i \in DOMAIN DeviceSize}
Size(e) == IF e.dev = 0 THEN EventSize[e.cmd] ELSE DeviceSize[e.dev]

Nothing == [event |-> CommandEvent(Default), got |-> 0]

Init ==
    /\ last_bt_control = None
    /\ last_bt_control_seq = NoSeq
    /\ first_bt_control = TRUE
    /\ buffer = CommandEvent(Default)
    /\ frag_message_length = 0
    /\ frag_message_pos = 0
    /\ scanning = FALSE
    /\ scanning_device_pos = 1
    /\ scanning_frag_device_pos = 0
    /\ exited = FALSE
    /\ link = "down"
    /\ toServer = << >>
    /\ toHost = << >>
    /\ device = "closed"
    /\ urb = NoSeq
    /\ command = None
    /\ partial = Nothing
    /\ fault = "none"
    /\ careful \in BOOLEAN

-----------------------------------------------------------------------------
(* process_bt_control.  Each of the following is one way through it, for a *)
(* command c or for a transfer s.                                          *)

Least(m, n) == IF m < n THEN m ELSE n

\* An answer to transfer s: n bytes of event e from position p on.
Piece(s, e, p, n) == [kind |-> "piece", seq |-> s, event |-> e, from |-> p, size |-> n]

\* What send() makes of a message.  When the peer is gone the message is lost,
\* and the process may end, of SIGPIPE or exit(-1).
Send(msg) ==
    \/ link = "up" /\ toHost' = Append(toHost, msg) /\ UNCHANGED exited
    \/ link = "gone" /\ exited' \in BOOLEAN /\ UNCHANGED toHost

\* Variant: the position in the event is not set.
AnswerKeepsPos(c, s) ==
    /\ Send(Piece(s, CommandEvent(c), 0, Least(EventSize[c], MaxControl)))
    /\ IF c \in ScanCommands
         THEN /\ scanning' = TRUE
              /\ scanning_device_pos' = 1
              /\ UNCHANGED <<fragVars, scanning_frag_device_pos>>
         ELSE /\ buffer' = CommandEvent(c)
              /\ frag_message_length' =
                    IF EventSize[c] > MaxControl THEN EventSize[c] ELSE frag_message_length
              /\ UNCHANGED <<scanVars, frag_message_pos>>

\* Variant: a scan goes on where the one before was.
AnswerKeepsDevice(c, s) ==
    /\ Send(Piece(s, CommandEvent(c), 0, Least(EventSize[c], MaxControl)))
    /\ IF c \in ScanCommands
         THEN /\ scanning' = TRUE
              /\ UNCHANGED <<fragVars, scanning_device_pos, scanning_frag_device_pos>>
         ELSE /\ buffer' = CommandEvent(c)
              /\ IF EventSize[c] > MaxControl
                   THEN /\ frag_message_length' = EventSize[c]
                        /\ frag_message_pos' = MaxControl
                   ELSE UNCHANGED <<frag_message_length, frag_message_pos>>
              /\ UNCHANGED scanVars

\* The event of command c, or its first piece, goes out by transfer s.
Answer(c, s) ==
    /\ Send(Piece(s, CommandEvent(c), 0, Least(EventSize[c], MaxControl)))
    /\ IF c \in ScanCommands
         THEN /\ scanning' = TRUE
              /\ scanning_device_pos' = 1
              /\ UNCHANGED <<fragVars, scanning_frag_device_pos>>
         ELSE /\ buffer' = CommandEvent(c)
              /\ IF EventSize[c] > MaxControl
                   THEN /\ frag_message_length' = EventSize[c]
                        /\ frag_message_pos' = MaxControl
                   ELSE UNCHANGED <<frag_message_length, frag_message_pos>>
              /\ UNCHANGED scanVars

\* Nothing changes and nothing is sent.
Drop == UNCHANGED <<serverVars, toHost>>

\* Variant: a command that is not found is stored.
CommandMeetsTransferStores(c) ==
    /\ last_bt_control = None
    /\ last_bt_control_seq # NoSeq
    /\ IF c \in Commands
         THEN /\ Answer(c, last_bt_control_seq)
              /\ last_bt_control_seq' = NoSeq
              /\ UNCHANGED <<last_bt_control, first_bt_control>>
         ELSE /\ last_bt_control' = c
              /\ UNCHANGED <<last_bt_control_seq, first_bt_control, fragVars, scanVars, exited, toHost>>

\* A command meets a stored transfer.
CommandMeetsTransfer(c) ==
    /\ last_bt_control = None
    /\ last_bt_control_seq # NoSeq
    /\ IF c \in Commands
         THEN /\ Answer(c, last_bt_control_seq)
              /\ last_bt_control_seq' = NoSeq
              /\ UNCHANGED <<last_bt_control, first_bt_control>>
         ELSE Drop

\* A command that finds no transfer is stored.
StoreCommand(c) ==
    /\ last_bt_control = None
    /\ last_bt_control_seq = NoSeq
    /\ last_bt_control' = c
    /\ UNCHANGED <<last_bt_control_seq, first_bt_control, fragVars, scanVars, exited, toHost>>

\* A command meets a stored command: "unknown bt control status".
CommandMeetsCommand == last_bt_control # None /\ Drop

\* A transfer meets a stored command.  One that is not found stays stored.
TransferMeetsCommand(s) ==
    /\ last_bt_control # None
    /\ last_bt_control_seq = NoSeq
    /\ IF last_bt_control \in Commands
         THEN /\ Answer(last_bt_control, s)
              /\ last_bt_control' = None
              /\ UNCHANGED <<last_bt_control_seq, first_bt_control>>
         ELSE Drop

\* A transfer that finds nothing stored is answered with, in this order, the
\* default event (once), the rest of an event, the devices of a scan, or kept.
Idle == last_bt_control = None /\ last_bt_control_seq = NoSeq

FirstEvent(s) ==
    /\ Idle
    /\ first_bt_control
    /\ first_bt_control' = FALSE
    /\ Answer(Default, s)
    /\ UNCHANGED <<last_bt_control, last_bt_control_seq>>

\* Variant: the end of the event is not noticed.
NextFragmentNoEnd(s) ==
    /\ Idle
    /\ ~first_bt_control
    /\ frag_message_length # 0
    /\ LET n == Least(frag_message_length - frag_message_pos, MaxControl) IN
         /\ Send(Piece(s, buffer, frag_message_pos, n))
         /\ frag_message_pos' = frag_message_pos + n
    /\ UNCHANGED <<storeVars, buffer, frag_message_length, scanVars>>

NextFragment(s) ==
    /\ Idle
    /\ ~first_bt_control
    /\ frag_message_length # 0
    /\ LET n == Least(frag_message_length - frag_message_pos, MaxControl) IN
         /\ Send(Piece(s, buffer, frag_message_pos, n))
         /\ IF frag_message_pos + n = frag_message_length
              THEN frag_message_pos' = 0 /\ frag_message_length' = 0
              ELSE /\ frag_message_pos' = frag_message_pos + n
                   /\ UNCHANGED frag_message_length
    /\ UNCHANGED <<storeVars, buffer, scanVars>>

InScan == Idle /\ ~first_bt_control /\ frag_message_length = 0 /\ scanning

\* Variant: the transfer that ends the scan is not kept.
ScanEndDropsTransfer(s) ==
    /\ InScan
    /\ scanning_device_pos > Len(DeviceSize)
    /\ scanning' = FALSE
    /\ UNCHANGED <<storeVars, fragVars, scanning_device_pos,
                   scanning_frag_device_pos, exited, toHost>>

ScanEnd(s) ==
    /\ InScan
    /\ scanning_device_pos > Len(DeviceSize)
    /\ scanning' = FALSE
    /\ last_bt_control_seq' = s
    /\ UNCHANGED <<last_bt_control, first_bt_control, fragVars, scanning_device_pos,
                   scanning_frag_device_pos, exited, toHost>>

\* Variant: the end of a device is counted twice.
ScanFragmentSkips(s) ==
    /\ InScan
    /\ scanning_device_pos <= Len(DeviceSize)
    /\ DeviceSize[scanning_device_pos] > MaxControl
    /\ LET n == Least(DeviceSize[scanning_device_pos] - scanning_frag_device_pos, MaxControl) IN
         /\ Send(Piece(s, DeviceEvent(scanning_device_pos), scanning_frag_device_pos, n))
         /\ IF scanning_frag_device_pos + n = DeviceSize[scanning_device_pos]
              THEN /\ scanning_frag_device_pos' = 0
                   /\ scanning_device_pos' = scanning_device_pos + 2
              ELSE /\ scanning_frag_device_pos' = scanning_frag_device_pos + n
                   /\ UNCHANGED scanning_device_pos
    /\ UNCHANGED <<storeVars, fragVars, scanning>>

\* Variant: the end of a device is not noticed.
ScanFragmentNoEnd(s) ==
    /\ InScan
    /\ scanning_device_pos <= Len(DeviceSize)
    /\ DeviceSize[scanning_device_pos] > MaxControl
    /\ LET n == Least(DeviceSize[scanning_device_pos] - scanning_frag_device_pos, MaxControl) IN
         /\ Send(Piece(s, DeviceEvent(scanning_device_pos), scanning_frag_device_pos, n))
         /\ scanning_frag_device_pos' = scanning_frag_device_pos + n
    /\ UNCHANGED <<storeVars, fragVars, scanning, scanning_device_pos>>

\* A device that does not fit is sent in pieces from scanning_frag_device_pos
\* on, whatever that is from an earlier scan; one that fits is sent whole.
ScanFragment(s) ==
    /\ InScan
    /\ scanning_device_pos <= Len(DeviceSize)
    /\ DeviceSize[scanning_device_pos] > MaxControl
    /\ LET n == Least(DeviceSize[scanning_device_pos] - scanning_frag_device_pos, MaxControl) IN
         /\ Send(Piece(s, DeviceEvent(scanning_device_pos), scanning_frag_device_pos, n))
         /\ IF scanning_frag_device_pos + n = DeviceSize[scanning_device_pos]
              THEN /\ scanning_frag_device_pos' = 0
                   /\ scanning_device_pos' = scanning_device_pos + 1
              ELSE /\ scanning_frag_device_pos' = scanning_frag_device_pos + n
                   /\ UNCHANGED scanning_device_pos
    /\ UNCHANGED <<storeVars, fragVars, scanning>>

ScanReport(s) ==
    /\ InScan
    /\ scanning_device_pos <= Len(DeviceSize)
    /\ DeviceSize[scanning_device_pos] <= MaxControl
    /\ Send(Piece(s, DeviceEvent(scanning_device_pos), 0, DeviceSize[scanning_device_pos]))
    /\ scanning_device_pos' = scanning_device_pos + 1
    /\ UNCHANGED <<storeVars, fragVars, scanning, scanning_frag_device_pos>>

StoreTransfer(s) ==
    /\ Idle
    /\ ~first_bt_control
    /\ frag_message_length = 0
    /\ ~scanning
    /\ last_bt_control_seq' = s
    /\ UNCHANGED <<last_bt_control, first_bt_control, fragVars, scanVars, exited, toHost>>

\* Variant: the transfer that is stored already is kept.
ReplaceTransferKeeps(s) ==
    /\ last_bt_control_seq # NoSeq
    /\ Drop

\* A transfer meets a stored transfer and takes its place: the older one is
\* of a host that has unlinked it, or is gone.
ReplaceTransfer(s) ==
    /\ last_bt_control_seq # NoSeq
    /\ last_bt_control_seq' = s
    /\ UNCHANGED <<last_bt_control, first_bt_control, fragVars, scanVars, exited, toHost>>

-----------------------------------------------------------------------------
(* usbip_run hands the requests of the connection on, one by one.          *)

Request(k, s, c) == [kind |-> k, seq |-> s, cmd |-> c]

\* A request is read, and served before the next one is.
Serving(k) ==
    /\ ~exited
    /\ link # "down"
    /\ toServer # << >>
    /\ Head(toServer).kind = k
    /\ toServer' = Tail(toServer)
    /\ UNCHANGED <<link, hostVars>>

\* handle_data, endpoint 1 IN
ServeTransfer ==
    /\ Serving("transfer")
    /\ LET s == Head(toServer).seq IN
         \/ TransferMeetsCommand(s)
         \/ FirstEvent(s)
         \/ NextFragment(s)
         \/ ScanEnd(s)
         \/ ScanFragment(s)
         \/ ScanReport(s)
         \/ StoreTransfer(s)
         \/ ReplaceTransfer(s)

\* handle_unknown_control.  A command whose bytes the connection has cut off is
\* handed on all the same, as a shorter command.
ServeCommand ==
    /\ Serving("command")
    /\ LET c == Head(toServer).cmd IN
         \/ CommandMeetsTransfer(c)
         \/ StoreCommand(c)
         \/ CommandMeetsCommand

\* handle_unlink: "rfkill block".  A stored transfer stays stored.
ServeUnlink ==
    /\ Serving("unlink")
    /\ Send([kind |-> "unlinked"])
    /\ scanning' = FALSE
    /\ UNCHANGED <<storeVars, fragVars, scanning_device_pos, scanning_frag_device_pos>>

Serve == ServeTransfer \/ ServeCommand \/ ServeUnlink

\* recv() comes back short: the connection is closed.  No static is reset.
CloseLink ==
    /\ ~exited
    /\ link = "gone"
    /\ toServer = << >>
    /\ link' = "down"
    /\ UNCHANGED <<serverVars, toServer, toHost, hostVars>>

-----------------------------------------------------------------------------
(* The host.                                                               *)

\* A sequence number that nobody holds.
Fresh(s) ==
    /\ s # last_bt_control_seq
    /\ s # urb
    /\ \A i \in DOMAIN toServer : toServer[i].seq # s
    /\ \A i \in DOMAIN toHost : toHost[i].kind = "piece" => toHost[i].seq # s

HostRuns == ~exited /\ link = "up" /\ fault = "none"

\* The controller has nothing half sent, the host nothing half read, and no
\* command is on the way.
Whole == /\ partial = Nothing
         /\ command = None
         /\ \A i \in DOMAIN toServer : toServer[i].kind # "command"
         /\ frag_message_length = 0
         /\ ~scanning

Connect ==
    /\ ~exited
    /\ link = "down"
    /\ link' = "up"
    /\ UNCHANGED <<serverVars, toServer, toHost, hostVars>>

SubmitTransfer ==
    \E s \in Seqs :
        /\ Fresh(s)
        /\ urb' = s
        /\ toServer' = Append(toServer, Request("transfer", s, None))

\* The interrupt transfer comes before any command.
Open ==
    /\ HostRuns
    /\ device = "closed"
    /\ device' = "open"
    /\ SubmitTransfer
    /\ UNCHANGED <<serverVars, link, toHost, command, partial, fault>>

\* A transfer that is answered is submitted again.
Resubmit ==
    /\ HostRuns
    /\ device = "open"
    /\ urb = NoSeq
    /\ SubmitTransfer
    /\ UNCHANGED <<serverVars, link, toHost, device, command, partial, fault>>

\* One command at a time.  A careful host has its transfer submitted again
\* before, lets the controller finish a scan, and sends a command that the
\* controller may not know when nothing else is on the way.
SendCommand(c) ==
    /\ HostRuns
    /\ device = "open"
    /\ command = None
    /\ \/ ~careful
       \/ /\ urb # NoSeq
          /\ ~scanning
          /\ c \in Unknown => toServer = << >> /\ toHost = << >>
    /\ command' = c
    /\ toServer' = Append(toServer, Request("command", NoSeq, c))
    /\ UNCHANGED <<serverVars, link, toHost, device, urb, partial, fault>>

\* The host gives an unknown command up, after two seconds without an event.
GiveUp ==
    /\ HostRuns
    /\ command \in Unknown
    /\ toServer = << >>
    /\ toHost = << >>
    /\ command' = None
    /\ UNCHANGED <<serverVars, link, toServer, toHost, device, urb, partial, fault>>

\* The device is closed (rfkill block): its transfer is unlinked.
Close ==
    /\ HostRuns
    /\ device = "open"
    /\ urb # NoSeq
    /\ careful => Whole
    /\ device' = "closing"
    /\ toServer' = Append(toServer, Request("unlink", NoSeq, None))
    /\ UNCHANGED <<serverVars, link, toHost, urb, command, partial, fault>>

HostClosed ==
    /\ device' = "closed"
    /\ urb' = NoSeq
    /\ command' = None
    /\ partial' = Nothing
    /\ UNCHANGED fault

\* The host is gone.  Of what it sent the server may still read any part, and
\* the last command of it without its bytes.
PeerGone ==
    /\ ~exited
    /\ link = "up"
    /\ careful => Whole
    /\ link' = "gone"
    /\ \E n \in 0 .. Len(toServer) :
         LET rest == SubSeq(toServer, 1, n) IN
           \/ toServer' = rest
           \/ /\ n > 0
              /\ rest[n].kind = "command"
              /\ \E c \in Unknown : toServer' = [rest EXCEPT ![n].cmd = c]
    /\ toHost' = << >>
    /\ HostClosed
    /\ UNCHANGED serverVars

\* What the host makes of n bytes of event e from position p on.
Reads(e, p, n) ==
    LET expected == IF partial = Nothing THEN [event |-> e, got |-> 0] ELSE partial IN
    IF n = 0
      THEN UNCHANGED <<command, partial, fault>>
      ELSE IF [event |-> e, got |-> p] # expected
      THEN fault' = "torn" /\ UNCHANGED <<command, partial>>
      ELSE /\ UNCHANGED fault
           /\ IF p + n = Size(e)
                THEN /\ partial' = Nothing
                     /\ command' = IF e.dev = 0 /\ e.cmd = command THEN None ELSE command
                ELSE /\ partial' = [event |-> e, got |-> p + n]
                     /\ UNCHANGED command

Receives(k) ==
    /\ HostRuns
    /\ toHost # << >>
    /\ Head(toHost).kind = k
    /\ toHost' = Tail(toHost)
    /\ UNCHANGED <<serverVars, link, toServer>>

ReceivePiece ==
    /\ Receives("piece")
    /\ LET m == Head(toHost) IN
         IF m.seq # urb
           THEN fault' = "unexpected" /\ UNCHANGED <<device, urb, command, partial>>
           ELSE /\ urb' = NoSeq
                /\ UNCHANGED device
                /\ IF device = "open" THEN Reads(m.event, m.from, m.size)
                                      ELSE UNCHANGED <<command, partial, fault>>

ReceiveUnlinked == Receives("unlinked") /\ HostClosed

Next ==
    \/ Serve
    \/ CloseLink
    \/ Connect
    \/ Open
    \/ Resubmit
    \/ \E c \in Commands \cup Unknown : SendCommand(c)
    \/ GiveUp
    \/ Close
    \/ PeerGone
    \/ ReceivePiece
    \/ ReceiveUnlinked

\* A host is careful or it is not, for good.
Spec == Init /\ [][Next /\ UNCHANGED careful]_<<vars, careful>>

\* The server reads on, and a host that is there reads on and submits its
\* transfer again.
Fairness ==
    /\ WF_vars(Serve)
    /\ WF_vars(Resubmit)
    /\ WF_vars(ReceivePiece \/ ReceiveUnlinked)

FairSpec == Spec /\ Fairness
-----------------------------------------------------------------------------
Requests == [kind: {"transfer"}, seq: Seqs, cmd: {None}]
               \cup [kind: {"command"}, seq: {NoSeq}, cmd: Commands \cup Unknown]
               \cup [kind: {"unlink"}, seq: {NoSeq}, cmd: {None}]

Messages == [kind: {"piece"}, seq: Seqs, event: Events, from: Nat, size: Int]
               \cup [kind: {"unlinked"}]

TypeOK ==
    /\ last_bt_control \in Commands \cup Unknown \cup {None}
    /\ last_bt_control_seq \in Seqs \cup {NoSeq}
    /\ first_bt_control \in BOOLEAN
    /\ buffer \in {CommandEvent(c) : c \in Commands}
    /\ frag_message_length \in 0 .. MaxLength
    /\ frag_message_pos \in Nat
    /\ scanning \in BOOLEAN
    /\ scanning_device_pos \in 1 .. Len(DeviceSize) + 1
    /\ scanning_frag_device_pos \in Nat
    /\ exited \in BOOLEAN
    /\ link \in {"up", "gone", "down"}
    /\ toServer \in Seq(Requests)
    /\ toHost \in Seq(Messages)
    /\ device \in {"closed", "open", "closing"}
    /\ urb \in Seqs \cup {NoSeq}
    /\ command \in Commands \cup Unknown \cup {None}
    /\ partial \in [event: Events, got: Nat]
    /\ fault \in {"none", "torn", "unexpected"}
    /\ careful \in BOOLEAN

\* A command and a transfer are never both stored: neither waits for the other
\* while the other is there (process_bt_control, its first two branches).
Rendezvous == last_bt_control = None \/ last_bt_control_seq = NoSeq

\* Whatever an earlier command, scan or connection has left in the statics, the
\* lengths that process_bt_control computes from them are never negative, a
\* piece fits the transfer, and it is inside the array that it is sent from.
\* (A piece may be of an older event that buffer has kept the end of.)
FragmentLeft == frag_message_length > 0 => frag_message_pos < frag_message_length

Inside(m) ==
    /\ m.size \in 0 .. MaxControl
    /\ \E e \in Events : /\ e.dev = m.event.dev
                        /\ m.from + m.size <= Size(e)

PiecesInside ==
    /\ FragmentLeft
    /\ \A i \in DOMAIN toHost : toHost[i].kind = "piece" => Inside(toHost[i])

\* The host gets no answer by a transfer that it does not wait for: none that it
\* has unlinked, or that belonged to an earlier connection.
ExpectedOnly == fault # "unexpected"

\* A careful host reads every event from its first byte to its last: no other
\* event, and no part of an older one, comes in between.
WholeEvents == careful => fault # "torn"

\* A command of bt_control_array that a careful host sends gets its event.
CommandsServed ==
    \A c \in Commands :
        (careful /\ command = c) ~> (command # c \/ fault # "none" \/ exited)

\* A scan of a careful host, which waits for it, comes to its end.
ScansEnd == (careful /\ scanning) ~> (~scanning \/ fault # "none" \/ exited)

\* The device whose event is the next that the host reads, 0 if it is none's:
\* that of the piece on the way, of which there is one at most.
NextDevice ==
    LET pieces == {i \in DOMAIN toHost : toHost[i].kind = "piece"} IN
    IF pieces # {} THEN toHost[CHOOSE i \in pieces : TRUE].event.dev
    ELSE IF scanning /\ scanning_device_pos <= Len(DeviceSize) THEN scanning_device_pos
    ELSE 0

\* process_bt_control and the loop around it are a controller as HciController
\* promises it to a careful host: each command gets its event, and each scan all
\* devices, once and in order.  Of another host nothing is said.
Seen == INSTANCE HciController WITH
            waiting <- IF careful THEN command ELSE None,
            reading <- IF careful THEN partial ELSE Nothing,
            toCome  <- IF careful THEN NextDevice ELSE 0
ImplementsController == Seen!Spec
-----------------------------------------------------------------------------
(* What bt.c:371 says of every command ("control answer includes control + *)
(* tail"), whatever the host, and this code does not keep.                 *)

\* The host reads every event from its first byte to its last.
AnyHostWholeEvents == fault # "torn"

\* A command of bt_control_array gets its event.
AnyHostCommandsServed ==
    \A c \in Commands :
        (command = c) ~> (command # c \/ fault # "none" \/ exited)
=============================================================================
