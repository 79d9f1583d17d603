---------------------------- MODULE BtHostProofs ----------------------------
(***************************************************************************)
(* What process_bt_control and its host make of each other.                *)
(*                                                                         *)
(* Every answer goes to a transfer that the host waits for (any host),     *)
(* although a stored transfer outlives the unlink and the connection that  *)
(* end it.  The argument is that the host's transfer is in one place at a  *)
(* time: on the way to the server, stored there, or answered.  A stored    *)
(* transfer of an earlier time may be there besides, but then the host's   *)
(* is the first that the server reads, and takes its place before any      *)
(* command meets it.  That needs the order in which a host opens the       *)
(* device, and that nothing comes behind an unlink and its answer.         *)
(*                                                                         *)
(* Every event is read from its first byte to its last (a careful host).   *)
(* What the host has read of an event is what the controller has sent of   *)
(* it, but for the one piece on the way (InStep).  No other event comes in *)
(* between, because the command that the host waits for is in one place    *)
(* too (CommandPlace), and none is on the way while an event is half sent. *)
(***************************************************************************)
EXTENDS BtControlProofs

\* Where the interrupt transfers are, on the way there and back.
IsTransfer(i) == toServer[i].kind = "transfer"
IsPiece(j)    == toHost[j].kind = "piece"

\* A host that has closed the device has nothing on the way.
ClosedInv ==
    /\ device = "closed" => /\ toHost = << >> /\ urb = NoSeq
                            /\ toServer = << >> \/ link = "gone"
    /\ link # "up" => device = "closed"
    /\ link = "down" => toServer = << >>

\* The host's transfer is in one place, and a stale one is never in front of it.
OnePlace ==
    link = "up" =>
        /\ \A i \in DOMAIN toServer : IsTransfer(i) =>
              /\ toServer[i].seq = urb
              /\ \A j \in DOMAIN toServer : IsTransfer(j) => j = i
              /\ \A j \in DOMAIN toHost : ~IsPiece(j)
        /\ \A i \in DOMAIN toHost : IsPiece(i) =>
              /\ toHost[i].seq = urb
              /\ \A j \in DOMAIN toHost : IsPiece(j) => j = i
              /\ last_bt_control_seq = NoSeq
        /\ last_bt_control_seq # NoSeq /\ device # "closed" =>
              IF last_bt_control_seq = urb
                THEN \A i \in DOMAIN toServer : ~IsTransfer(i)
                ELSE toServer # << >> /\ IsTransfer(1)

\* An unlink is the last that a host sends, and its answer the last it gets.
UnlinkLast ==
    link = "up" =>
        /\ \A i \in DOMAIN toServer : toServer[i].kind = "unlink" =>
              device = "closing" /\ i = Len(toServer)
        /\ \A i \in DOMAIN toHost : toHost[i].kind = "unlinked" =>
              device = "closing" /\ i = Len(toHost) /\ toServer = << >>

HostInv == BtInv /\ ClosedInv /\ OnePlace /\ UnlinkLast

-----------------------------------------------------------------------------
(* Sequences by their elements.                                            *)

LEMMA TailIs ==
    ASSUME NEW S, NEW s \in Seq(S), s # << >>
    PROVE  /\ Len(s) \in Nat \ {0} /\ DOMAIN s = 1 .. Len(s)
           /\ Head(s) = s[1]
           /\ Tail(s) \in Seq(S) /\ DOMAIN Tail(s) = 1 .. Len(s) - 1
           /\ Len(Tail(s)) = Len(s) - 1
           /\ \A i \in 1 .. Len(s) - 1 : i + 1 \in 1 .. Len(s) /\ Tail(s)[i] = s[i + 1]
BY HeadTailProperties, EmptySeq, LenProperties

LEMMA AppendIs ==
    ASSUME NEW S, NEW s \in Seq(S), NEW m
    PROVE  /\ Len(s) \in Nat /\ DOMAIN s = 1 .. Len(s)
           /\ DOMAIN Append(s, m) = 1 .. Len(s) + 1 /\ Len(Append(s, m)) = Len(s) + 1
           /\ Append(s, m)[Len(s) + 1] = m
           /\ \A i \in 1 .. Len(s) : Append(s, m)[i] = s[i]
           /\ Append(s, m) # << >>
OBVIOUS

\* The messages of both ways are sequences.
LEMMA Ways ==
    ASSUME BtInv
    PROVE  /\ toServer \in Seq(Requests) /\ toHost \in Seq(Sound)
           /\ Len(toServer) \in Nat /\ Len(toHost) \in Nat
           /\ DOMAIN toServer = 1 .. Len(toServer) /\ DOMAIN toHost = 1 .. Len(toHost)
           /\ \A i \in DOMAIN toServer :
                IsTransfer(i) => toServer[i].seq \in Seqs
           /\ NoSeq \notin Seqs
           /\ last_bt_control_seq \in Seqs \cup {NoSeq} /\ urb \in Seqs \cup {NoSeq}
<1>1. toServer \in Seq(Requests) /\ toHost \in Seq(Sound)
  BY DEF BtInv, HostOK, WireOK
<1>2. ASSUME NEW i \in DOMAIN toServer, IsTransfer(i)
      PROVE  toServer[i].seq \in Seqs
  <2>1. toServer[i] \in Requests
    BY <1>1
  <2> QED BY <1>2, <2>1 DEF Requests, IsTransfer
<1>3. NoSeq \notin Seqs
  BY BtAssumption DEF NoSeq
<1>4. last_bt_control_seq \in Seqs \cup {NoSeq} /\ urb \in Seqs \cup {NoSeq}
  BY DEF BtInv, StoreOK, HostOK
<1>5. /\ Len(toServer) \in Nat /\ Len(toHost) \in Nat
      /\ DOMAIN toServer = 1 .. Len(toServer) /\ DOMAIN toHost = 1 .. Len(toHost)
  BY <1>1
<1> QED BY <1>1, <1>2, <1>3, <1>4, <1>5

-----------------------------------------------------------------------------
(* What the server makes of a request.                                     *)

\* An answer by transfer s is sent.
AnswersBy(s) ==
    \E m : m.kind = "piece" /\ m.seq = s /\ toHost' = Append(toHost, m)

LEMMA SendAnswers ==
    ASSUME NEW s, NEW e, NEW p, NEW n, Send(Piece(s, e, p, n)), link = "up"
    PROVE  AnswersBy(s)
BY DEF Send, Piece, AnswersBy

\* A transfer is answered, if none is stored, or stored, or lost.
LEMMA TransferGoes ==
    ASSUME BtInv, ServeTransfer, link = "up"
    PROVE  LET s == Head(toServer).seq IN
           \/ last_bt_control_seq = NoSeq /\ last_bt_control_seq' = NoSeq /\ AnswersBy(s)
           \/ last_bt_control_seq' = s /\ toHost' = toHost
           \/ last_bt_control_seq = NoSeq /\ last_bt_control_seq' = NoSeq /\ toHost' = toHost
<1> DEFINE s == Head(toServer).seq
<1>1. CASE TransferMeetsCommand(s)
  <2>1. CASE last_bt_control \in Commands
    BY <1>1, <2>1, SendAnswers DEF TransferMeetsCommand, Answer
  <2>2. CASE last_bt_control \notin Commands
    BY <1>1, <2>2 DEF TransferMeetsCommand, Drop, serverVars, storeVars
  <2> QED BY <2>1, <2>2
<1>2. CASE FirstEvent(s)
  BY <1>2, SendAnswers DEF FirstEvent, Idle, Answer
<1>3. CASE NextFragment(s)
  BY <1>3, SendAnswers DEF NextFragment, Idle, storeVars
<1>4. CASE ScanEnd(s)
  BY <1>4 DEF ScanEnd
<1>5. CASE ScanFragment(s)
  BY <1>5, SendAnswers DEF ScanFragment, InScan, Idle, storeVars
<1>6. CASE ScanReport(s)
  BY <1>6, SendAnswers DEF ScanReport, InScan, Idle, storeVars
<1>7. CASE StoreTransfer(s)
  BY <1>7 DEF StoreTransfer
<1>8. CASE ReplaceTransfer(s)
  BY <1>8 DEF ReplaceTransfer
<1> QED
  BY <1>1, <1>2, <1>3, <1>4, <1>5, <1>6, <1>7, <1>8 DEF ServeTransfer

\* A command takes the stored transfer for its answer, or changes nothing here.
LEMMA CommandGoes ==
    ASSUME BtInv, ServeCommand, link = "up"
    PROVE  \/ /\ last_bt_control_seq # NoSeq /\ last_bt_control_seq' = NoSeq
              /\ AnswersBy(last_bt_control_seq)
           \/ last_bt_control_seq' = last_bt_control_seq /\ toHost' = toHost
<1> DEFINE c == Head(toServer).cmd
<1>1. CASE CommandMeetsTransfer(c)
  <2>1. CASE c \in Commands
    BY <1>1, <2>1, SendAnswers DEF CommandMeetsTransfer, Answer
  <2>2. CASE c \notin Commands
    BY <1>1, <2>2 DEF CommandMeetsTransfer, Drop, serverVars, storeVars
  <2> QED BY <2>1, <2>2
<1>2. CASE StoreCommand(c)
  BY <1>2 DEF StoreCommand
<1>3. CASE CommandMeetsCommand
  BY <1>3 DEF CommandMeetsCommand, Drop, serverVars, storeVars
<1> QED BY <1>1, <1>2, <1>3 DEF ServeCommand

\* When the host is gone nothing is sent.
LEMMA NothingSent ==
    ASSUME Serve, link # "up"
    PROVE  toHost' = toHost
<1>1. CASE ServeTransfer
  BY <1>1 DEF ServeTransfer, TransferMeetsCommand, FirstEvent, NextFragment, ScanEnd, ScanFragment,
     ScanReport, StoreTransfer, ReplaceTransfer, Answer, Send, Drop
<1>2. CASE ServeCommand
  BY <1>2 DEF ServeCommand, CommandMeetsTransfer, StoreCommand, CommandMeetsCommand,
     Answer, Send, Drop
<1>3. CASE ServeUnlink
  BY <1>3 DEF ServeUnlink, Send
<1> QED BY <1>1, <1>2, <1>3 DEF Serve

-----------------------------------------------------------------------------
(* The steps of the server.                                                *)

\* A request is taken from the head of the way to the server.
LEMMA RequestTaken ==
    ASSUME HostInv, Serve
    PROVE  /\ toServer # << >> /\ toServer' = Tail(toServer)
           /\ UNCHANGED <<link, device, urb>> /\ link # "down"
           /\ Head(toServer) = toServer[1] /\ 1 \in DOMAIN toServer
           /\ DOMAIN toServer' = 1 .. Len(toServer) - 1 /\ Len(toServer') = Len(toServer) - 1
           /\ \A i \in DOMAIN toServer' : i + 1 \in DOMAIN toServer /\ toServer'[i] = toServer[i + 1]
           /\ \/ ServeTransfer /\ toServer[1].kind = "transfer"
              \/ ServeCommand /\ toServer[1].kind = "command"
              \/ ServeUnlink /\ toServer[1].kind = "unlink"
<1>1. /\ toServer # << >> /\ toServer' = Tail(toServer)
      /\ UNCHANGED <<link, device, urb>> /\ link # "down"
      /\ \/ ServeTransfer /\ Head(toServer).kind = "transfer"
         \/ ServeCommand /\ Head(toServer).kind = "command"
         \/ ServeUnlink /\ Head(toServer).kind = "unlink"
  BY DEF Serve, ServeTransfer, ServeCommand, ServeUnlink, Serving, hostVars
<1>2. toServer \in Seq(Requests)
  BY Ways DEF HostInv
<1>3. /\ Len(toServer) \in Nat \ {0} /\ DOMAIN toServer = 1 .. Len(toServer)
      /\ Head(toServer) = toServer[1]
      /\ DOMAIN Tail(toServer) = 1 .. Len(toServer) - 1
      /\ Len(Tail(toServer)) = Len(toServer) - 1
      /\ \A i \in 1 .. Len(toServer) - 1 :
            i + 1 \in 1 .. Len(toServer) /\ Tail(toServer)[i] = toServer[i + 1]
  BY <1>1, <1>2, TailIs
<1>4. 1 \in DOMAIN toServer
  BY <1>3
<1> QED BY <1>1, <1>3, <1>4

\* Who is served is not closed, unless the host is gone.
LEMMA ServeClosed ==
    ASSUME HostInv, Serve
    PROVE  /\ ClosedInv'
           /\ link = "up" => device # "closed"
<1>1. /\ toServer # << >> /\ UNCHANGED <<link, device, urb>> /\ link # "down"
  BY RequestTaken
<1>2. CASE link = "up"
  <2>1. device # "closed"
    BY <1>1, <1>2 DEF HostInv, ClosedInv
  <2> QED BY <1>1, <1>2, <2>1 DEF ClosedInv
<1>3. CASE link # "up"
  <2>1. toHost' = toHost
    BY <1>3, NothingSent
  <2>2. link = "gone"
    BY <1>1, <1>3 DEF HostInv, BtInv, HostOK
  <2> QED BY <1>1, <2>1, <2>2 DEF HostInv, ClosedInv
<1> QED BY <1>2, <1>3

\* What is sent comes behind what is on the way.
LEMMA AnswerAppended ==
    ASSUME HostInv, NEW s, AnswersBy(s)
    PROVE  /\ Len(toHost) \in Nat
           /\ DOMAIN toHost = 1 .. Len(toHost) /\ DOMAIN toHost' = 1 .. Len(toHost) + 1
           /\ toHost'[Len(toHost) + 1].kind = "piece" /\ toHost'[Len(toHost) + 1].seq = s
           /\ \A j \in 1 .. Len(toHost) : toHost'[j] = toHost[j]
<1>1. PICK m : m.kind = "piece" /\ m.seq = s /\ toHost' = Append(toHost, m)
  BY DEF AnswersBy
<1>2. toHost \in Seq(Sound)
  BY Ways DEF HostInv
<1> QED BY <1>1, <1>2, AppendIs

LEMMA ServeTransferPlace ==
    ASSUME HostInv, ServeTransfer, link = "up"
    PROVE  OnePlace'
<1> DEFINE s == Head(toServer).seq
<1>1. Serve
  BY DEF Serve
<1>2. /\ UNCHANGED <<link, device, urb>>
      /\ Head(toServer) = toServer[1] /\ 1 \in DOMAIN toServer
      /\ DOMAIN toServer' = 1 .. Len(toServer) - 1
      /\ \A i \in DOMAIN toServer' : i + 1 \in DOMAIN toServer /\ toServer'[i] = toServer[i + 1]
      /\ IsTransfer(1)
  BY <1>1, RequestTaken DEF ServeTransfer, Serving, IsTransfer
<1>3. /\ s = urb
      /\ \A j \in DOMAIN toServer : IsTransfer(j) => j = 1
      /\ \A j \in DOMAIN toHost : ~IsPiece(j)
  BY <1>2 DEF HostInv, OnePlace
<1>4. \A i \in DOMAIN toServer' : ~IsTransfer(i)'
  <2>1. ASSUME NEW i \in DOMAIN toServer', IsTransfer(i)' PROVE FALSE
    <3>1. i + 1 \in DOMAIN toServer /\ IsTransfer(i + 1) /\ i \in 1 .. Len(toServer) - 1
      BY <1>2, <2>1 DEF IsTransfer
    <3>2. Len(toServer) \in Nat
      BY Ways DEF HostInv
    <3> QED BY <1>3, <3>1, <3>2
  <2> QED BY <2>1
<1> HIDE DEF s
<1>5. CASE last_bt_control_seq' = NoSeq /\ AnswersBy(s)
  <2>1. /\ Len(toHost) \in Nat
        /\ DOMAIN toHost = 1 .. Len(toHost) /\ DOMAIN toHost' = 1 .. Len(toHost) + 1
        /\ toHost'[Len(toHost) + 1].kind = "piece" /\ toHost'[Len(toHost) + 1].seq = s
        /\ \A j \in 1 .. Len(toHost) : toHost'[j] = toHost[j]
    BY <1>5, AnswerAppended
  <2>2. ASSUME NEW j \in DOMAIN toHost', IsPiece(j)'
        PROVE  j = Len(toHost) + 1
    <3>1. j \in 1 .. Len(toHost) \/ j = Len(toHost) + 1
      BY <2>1
    <3> QED BY <1>3, <2>1, <2>2, <3>1 DEF IsPiece
  <2> QED BY <1>2, <1>3, <1>4, <1>5, <2>1, <2>2 DEF OnePlace
<1>6. CASE last_bt_control_seq' \in {s, NoSeq} /\ toHost' = toHost
  <2>1. \A j \in DOMAIN toHost' : ~IsPiece(j)'
    BY <1>3, <1>6 DEF IsPiece
  <2> QED BY <1>2, <1>3, <1>4, <1>6, <2>1 DEF OnePlace
<1> QED BY <1>5, <1>6, TransferGoes DEF HostInv, s

\* A command or an unlink that is read is behind the host's transfer.
LEMMA NoTransferTaken ==
    ASSUME HostInv, Serve, link = "up", ~IsTransfer(1)
    PROVE  /\ last_bt_control_seq \in {urb, NoSeq}
           /\ \A i \in DOMAIN toServer' : IsTransfer(i)' => IsTransfer(i + 1) /\ i + 1 \in DOMAIN toServer
           /\ \A i \in DOMAIN toServer' : IsTransfer(i)' =>
                 /\ toServer'[i].seq = urb
                 /\ \A j \in DOMAIN toServer' : IsTransfer(j)' => j = i
                 /\ \A j \in DOMAIN toHost : ~IsPiece(j)
<1>1. /\ 1 \in DOMAIN toServer
      /\ DOMAIN toServer' = 1 .. Len(toServer) - 1
      /\ \A i \in DOMAIN toServer' : i + 1 \in DOMAIN toServer /\ toServer'[i] = toServer[i + 1]
  BY RequestTaken
<1>2. device # "closed"
  BY ServeClosed
<1>3. last_bt_control_seq \in {urb, NoSeq}
  BY <1>2 DEF HostInv, OnePlace
<1>4. \A i \in DOMAIN toServer' : IsTransfer(i)' => IsTransfer(i + 1) /\ i + 1 \in DOMAIN toServer
  BY <1>1 DEF IsTransfer
<1>5. ASSUME NEW i \in DOMAIN toServer', IsTransfer(i)'
      PROVE  /\ toServer'[i].seq = urb
             /\ \A j \in DOMAIN toServer' : IsTransfer(j)' => j = i
             /\ \A j \in DOMAIN toHost : ~IsPiece(j)
  <2>1. IsTransfer(i + 1) /\ i + 1 \in DOMAIN toServer
    BY <1>4, <1>5
  <2>2. /\ toServer[i + 1].seq = urb
        /\ \A j \in DOMAIN toServer : IsTransfer(j) => j = i + 1
        /\ \A j \in DOMAIN toHost : ~IsPiece(j)
    BY <2>1 DEF HostInv, OnePlace
  <2>3. ASSUME NEW j \in DOMAIN toServer', IsTransfer(j)' PROVE j = i
    <3>1. j + 1 = i + 1
      BY <1>4, <2>2, <2>3
    <3>2. i \in Int /\ j \in Int
      BY <1>1
    <3> QED BY <3>1, <3>2
  <2> QED BY <1>1, <2>2, <2>3
<1> QED BY <1>3, <1>4, <1>5

LEMMA ServeCommandPlace ==
    ASSUME HostInv, ServeCommand, link = "up"
    PROVE  OnePlace'
<1>1. Serve
  BY DEF Serve
<1>2. UNCHANGED <<link, device, urb>> /\ ~IsTransfer(1)
  BY <1>1, RequestTaken DEF ServeCommand, Serving, IsTransfer
<1>3. /\ last_bt_control_seq \in {urb, NoSeq}
      /\ \A i \in DOMAIN toServer' : IsTransfer(i)' => IsTransfer(i + 1) /\ i + 1 \in DOMAIN toServer
      /\ \A i \in DOMAIN toServer' : IsTransfer(i)' =>
            /\ toServer'[i].seq = urb
            /\ \A j \in DOMAIN toServer' : IsTransfer(j)' => j = i
            /\ \A j \in DOMAIN toHost : ~IsPiece(j)
  BY <1>1, <1>2, NoTransferTaken
<1>4. device # "closed"
  BY <1>1, ServeClosed
<1>5. last_bt_control_seq # NoSeq =>
         /\ \A i \in DOMAIN toServer' : ~IsTransfer(i)'
         /\ \A j \in DOMAIN toHost : ~IsPiece(j)
  BY <1>3, <1>4 DEF HostInv, OnePlace
<1>6. CASE /\ last_bt_control_seq # NoSeq /\ last_bt_control_seq' = NoSeq
           /\ AnswersBy(last_bt_control_seq)
  <2>1. /\ Len(toHost) \in Nat
        /\ DOMAIN toHost = 1 .. Len(toHost) /\ DOMAIN toHost' = 1 .. Len(toHost) + 1
        /\ toHost'[Len(toHost) + 1].kind = "piece"
        /\ toHost'[Len(toHost) + 1].seq = last_bt_control_seq
        /\ \A j \in 1 .. Len(toHost) : toHost'[j] = toHost[j]
    BY <1>6, AnswerAppended
  <2>2. ASSUME NEW j \in DOMAIN toHost', IsPiece(j)'
        PROVE  j = Len(toHost) + 1
    <3>1. j \in 1 .. Len(toHost) \/ j = Len(toHost) + 1
      BY <2>1
    <3> QED BY <1>5, <1>6, <2>1, <2>2, <3>1 DEF IsPiece
  <2> QED BY <1>2, <1>3, <1>5, <1>6, <2>1, <2>2 DEF OnePlace
<1>7. CASE last_bt_control_seq' = last_bt_control_seq /\ toHost' = toHost
  <2>1. \A j \in DOMAIN toHost : IsPiece(j)' <=> IsPiece(j)
    BY <1>7 DEF IsPiece
  <2>2. \A j \in DOMAIN toHost' : IsPiece(j)' =>
              /\ toHost'[j].seq = urb
              /\ \A i \in DOMAIN toHost' : IsPiece(i)' => i = j
              /\ last_bt_control_seq = NoSeq
    BY <1>7, <2>1 DEF HostInv, OnePlace
  <2> QED BY <1>2, <1>3, <1>5, <1>7, <2>1, <2>2 DEF OnePlace
<1> QED BY <1>6, <1>7, CommandGoes DEF HostInv

\* The answer of an unlink is no piece.
LEMMA UnlinkAppended ==
    ASSUME HostInv, ServeUnlink, link = "up"
    PROVE  /\ Len(toHost) \in Nat /\ last_bt_control_seq' = last_bt_control_seq
           /\ DOMAIN toHost = 1 .. Len(toHost) /\ DOMAIN toHost' = 1 .. Len(toHost) + 1
           /\ Len(toHost') = Len(toHost) + 1
           /\ toHost'[Len(toHost) + 1].kind = "unlinked"
           /\ \A j \in 1 .. Len(toHost) : toHost'[j] = toHost[j]
<1>1. /\ toHost' = Append(toHost, [kind |-> "unlinked"])
      /\ last_bt_control_seq' = last_bt_control_seq
  BY DEF ServeUnlink, Send, storeVars
<1>2. toHost \in Seq(Sound)
  BY Ways DEF HostInv
<1> QED BY <1>1, <1>2, AppendIs

LEMMA ServeUnlinkPlace ==
    ASSUME HostInv, ServeUnlink, link = "up"
    PROVE  OnePlace'
<1>1. Serve
  BY DEF Serve
<1>2. UNCHANGED <<link, device, urb>> /\ ~IsTransfer(1)
  BY <1>1, RequestTaken DEF ServeUnlink, Serving, IsTransfer
<1>3. /\ last_bt_control_seq \in {urb, NoSeq}
      /\ \A i \in DOMAIN toServer' : IsTransfer(i)' => IsTransfer(i + 1) /\ i + 1 \in DOMAIN toServer
      /\ \A i \in DOMAIN toServer' : IsTransfer(i)' =>
            /\ toServer'[i].seq = urb
            /\ \A j \in DOMAIN toServer' : IsTransfer(j)' => j = i
            /\ \A j \in DOMAIN toHost : ~IsPiece(j)
  BY <1>1, <1>2, NoTransferTaken
<1>4. device # "closed"
  BY <1>1, ServeClosed
<1>5. last_bt_control_seq # NoSeq => \A i \in DOMAIN toServer' : ~IsTransfer(i)'
  BY <1>3, <1>4 DEF HostInv, OnePlace
<1>6. /\ DOMAIN toHost = 1 .. Len(toHost) /\ last_bt_control_seq' = last_bt_control_seq
      /\ \A j \in DOMAIN toHost' : IsPiece(j)' =>
            j \in DOMAIN toHost /\ toHost'[j] = toHost[j] /\ IsPiece(j)
  BY UnlinkAppended DEF IsPiece
<1>7. \A j \in DOMAIN toHost' : IsPiece(j)' =>
            /\ toHost'[j].seq = urb
            /\ \A i \in DOMAIN toHost' : IsPiece(i)' => i = j
            /\ last_bt_control_seq = NoSeq
  BY <1>6 DEF HostInv, OnePlace
<1>8. \A i \in DOMAIN toServer' : IsTransfer(i)' => \A j \in DOMAIN toHost' : ~IsPiece(j)'
  BY <1>3, <1>6
<1> QED BY <1>2, <1>3, <1>5, <1>6, <1>7, <1>8 DEF OnePlace

\* An unlink is still the last request, and its answer the last message.
LEMMA ServeUnlinkLast ==
    ASSUME HostInv, Serve, link = "up"
    PROVE  UnlinkLast'
<1>1. /\ UNCHANGED <<link, device, urb>> /\ 1 \in DOMAIN toServer
      /\ DOMAIN toServer' = 1 .. Len(toServer) - 1 /\ Len(toServer') = Len(toServer) - 1
      /\ \A i \in DOMAIN toServer' : i + 1 \in DOMAIN toServer /\ toServer'[i] = toServer[i + 1]
      /\ toServer # << >> /\ toServer' = Tail(toServer)
  BY RequestTaken
<1>2. Len(toServer) \in Nat /\ toServer \in Seq(Requests)
  BY Ways DEF HostInv
<1>3. ASSUME NEW i \in DOMAIN toServer', toServer'[i].kind = "unlink"
      PROVE  device = "closing" /\ i = Len(toServer')
  <2>1. device = "closing" /\ i + 1 = Len(toServer)
    BY <1>1, <1>3 DEF HostInv, UnlinkLast
  <2> QED BY <1>1, <1>2, <2>1
<1>4. \A j \in DOMAIN toHost : toHost[j].kind # "unlinked"
  BY <1>1 DEF HostInv, UnlinkLast
<1>5. CASE ServeUnlink
  <2>1. toServer[1].kind = "unlink"
    BY <1>5, RequestTaken DEF ServeUnlink, Serving
  <2>2. device = "closing" /\ 1 = Len(toServer)
    BY <1>1, <2>1 DEF HostInv, UnlinkLast
  <2>3. toServer' = << >>
    BY <1>1, <1>2, <2>2
  <2>4. /\ Len(toHost') = Len(toHost) + 1
        /\ \A j \in DOMAIN toHost' : toHost'[j].kind = "unlinked" => j = Len(toHost) + 1
    BY <1>4, <1>5, UnlinkAppended
  <2> QED BY <1>1, <1>3, <2>2, <2>3, <2>4 DEF UnlinkLast
<1>6. CASE toHost' = toHost \/ \E s : AnswersBy(s)
  <2>1. ASSUME NEW s, AnswersBy(s) PROVE \A j \in DOMAIN toHost' : toHost'[j].kind # "unlinked"
    BY <1>4, <2>1, AnswerAppended
  <2>2. \A j \in DOMAIN toHost' : toHost'[j].kind # "unlinked"
    BY <1>4, <1>6, <2>1
  <2> QED BY <1>1, <1>3, <2>2 DEF UnlinkLast
<1>7. BtInv
  BY DEF HostInv
<1> QED BY <1>5, <1>6, <1>7, TransferGoes, CommandGoes DEF Serve

LEMMA ServeKeeps ==
    ASSUME HostInv, Serve
    PROVE  HostInv'
<1>1. BtInv'
  BY BtNext DEF HostInv, Next
<1>2. ClosedInv' /\ link' = link
  BY RequestTaken, ServeClosed
<1>3. CASE link = "up"
  <2>1. OnePlace'
    BY <1>3, ServeTransferPlace, ServeCommandPlace, ServeUnlinkPlace DEF Serve
  <2> QED BY <1>1, <1>2, <1>3, <2>1, ServeUnlinkLast DEF HostInv
<1>4. CASE link # "up"
  BY <1>1, <1>2, <1>4 DEF HostInv, OnePlace, UnlinkLast
<1> QED BY <1>3, <1>4

-----------------------------------------------------------------------------
(* The steps of the host.                                                  *)

\* A request of the host comes behind what is on the way.
LEMMA RequestAppended ==
    ASSUME HostInv, NEW m, toServer' = Append(toServer, m)
    PROVE  /\ Len(toServer) \in Nat /\ Len(toServer') = Len(toServer) + 1 /\ toServer' # << >>
           /\ DOMAIN toServer = 1 .. Len(toServer) /\ DOMAIN toServer' = 1 .. Len(toServer) + 1
           /\ toServer'[Len(toServer) + 1] = m
           /\ \A i \in 1 .. Len(toServer) : toServer'[i] = toServer[i]
<1>1. toServer \in Seq(Requests)
  BY Ways DEF HostInv
<1> QED BY <1>1, AppendIs

LEMMA OpenKeeps ==
    ASSUME HostInv, Open
    PROVE  ClosedInv' /\ OnePlace' /\ UnlinkLast'
<1>1. PICK s \in Seqs : /\ Fresh(s) /\ urb' = s
                        /\ toServer' = Append(toServer, Request("transfer", s, None))
  BY DEF Open, SubmitTransfer
<1>2. /\ link = "up" /\ link' = link /\ device' = "open" /\ toHost' = toHost
      /\ last_bt_control_seq' = last_bt_control_seq /\ last_bt_control_seq # s
  BY <1>1 DEF Open, HostRuns, serverVars, storeVars, Fresh
<1>3. toServer = << >> /\ toHost = << >>
  BY <1>2 DEF HostInv, ClosedInv, Open
<1>4. /\ DOMAIN toServer' = 1 .. 1 /\ toServer'[1] = Request("transfer", s, None)
      /\ toServer' # << >>
  BY <1>1, <1>3, RequestAppended
<1>5. toServer'[1].kind = "transfer" /\ toServer'[1].seq = s
  BY <1>4 DEF Request
<1>6. \A i \in DOMAIN toServer' : i = 1
  BY <1>4
<1>7. DOMAIN toHost' = {}
  BY <1>2, <1>3
<1> QED BY <1>1, <1>2, <1>4, <1>5, <1>6, <1>7 DEF ClosedInv, OnePlace, UnlinkLast, IsTransfer

\* A host that has no transfer out has none anywhere.
LEMMA ResubmitKeeps ==
    ASSUME HostInv, Resubmit
    PROVE  ClosedInv' /\ OnePlace' /\ UnlinkLast'
<1>1. PICK s \in Seqs : /\ Fresh(s) /\ urb' = s
                        /\ toServer' = Append(toServer, Request("transfer", s, None))
  BY DEF Resubmit, SubmitTransfer
<1>2. /\ link = "up" /\ link' = link /\ device' = "open" /\ device = "open" /\ toHost' = toHost
      /\ last_bt_control_seq' = last_bt_control_seq /\ urb = NoSeq
  BY DEF Resubmit, HostRuns, serverVars, storeVars
<1>3. \A i \in DOMAIN toServer : ~IsTransfer(i)
  BY <1>2, Ways DEF HostInv, OnePlace
<1>4. \A j \in DOMAIN toHost : ~IsPiece(j)
  <2>1. ASSUME NEW j \in DOMAIN toHost, IsPiece(j) PROVE FALSE
    <3>1. toHost[j].seq = NoSeq
      BY <1>2, <2>1 DEF HostInv, OnePlace
    <3>2. toHost[j] \in Sound
      BY <2>1, Ways DEF HostInv
    <3>3. toHost[j].seq \in Seqs
      BY <2>1, <3>2 DEF Sound, Messages, IsPiece
    <3> QED BY <3>1, <3>3, Ways DEF HostInv
  <2> QED BY <2>1
<1>5. last_bt_control_seq = NoSeq
  <2>1. ASSUME last_bt_control_seq # NoSeq PROVE FALSE
    <3>1. toServer # << >> /\ IsTransfer(1)
      BY <1>2, <2>1 DEF HostInv, OnePlace
    <3>2. 1 \in DOMAIN toServer
      BY <3>1, Ways, EmptySeq DEF HostInv
    <3> QED BY <1>3, <3>1, <3>2
  <2> QED BY <2>1
<1>6. /\ Len(toServer) \in Nat /\ Len(toServer') = Len(toServer) + 1
      /\ DOMAIN toServer = 1 .. Len(toServer) /\ DOMAIN toServer' = 1 .. Len(toServer) + 1
      /\ toServer'[Len(toServer) + 1] = Request("transfer", s, None)
      /\ \A i \in 1 .. Len(toServer) : toServer'[i] = toServer[i]
  BY <1>1, RequestAppended
<1>7. \A i \in DOMAIN toServer' :
         \/ i \in DOMAIN toServer /\ toServer'[i] = toServer[i]
         \/ i = Len(toServer) + 1 /\ toServer'[i].kind = "transfer" /\ toServer'[i].seq = s
  BY <1>6 DEF Request
<1>8. \A i \in DOMAIN toServer' : IsTransfer(i)' => i = Len(toServer) + 1 /\ toServer'[i].seq = s
  BY <1>3, <1>7 DEF IsTransfer
<1>9. OnePlace'
  <2>1. \A j \in DOMAIN toHost' : ~IsPiece(j)'
    BY <1>2, <1>4 DEF IsPiece
  <2> QED BY <1>1, <1>2, <1>5, <1>8, <2>1 DEF OnePlace
<1>10. UnlinkLast'
  <2>1. \A i \in DOMAIN toServer : toServer[i].kind # "unlink"
    BY <1>2 DEF HostInv, UnlinkLast
  <2>2. \A i \in DOMAIN toServer' : toServer'[i].kind # "unlink"
    BY <1>7, <2>1
  <2>3. \A j \in DOMAIN toHost' : toHost'[j].kind # "unlinked"
    BY <1>2 DEF HostInv, UnlinkLast
  <2> QED BY <2>2, <2>3 DEF UnlinkLast
<1> QED BY <1>2, <1>9, <1>10 DEF ClosedInv

\* A command or an unlink.
LEMMA OtherRequest ==
    ASSUME HostInv, link = "up", device = "open", NEW m, m.kind # "transfer",
           toServer' = Append(toServer, m), device' \in {"open", "closing"},
           m.kind = "unlink" => device' = "closing",
           UNCHANGED <<link, toHost, urb, last_bt_control_seq>>
    PROVE  ClosedInv' /\ OnePlace' /\ UnlinkLast'
<1>1. /\ Len(toServer) \in Nat /\ Len(toServer') = Len(toServer) + 1 /\ toServer' # << >>
      /\ DOMAIN toServer = 1 .. Len(toServer) /\ DOMAIN toServer' = 1 .. Len(toServer) + 1
      /\ toServer'[Len(toServer) + 1] = m
      /\ \A i \in 1 .. Len(toServer) : toServer'[i] = toServer[i]
  BY RequestAppended
<1>2. \A i \in DOMAIN toServer' :
         \/ i \in DOMAIN toServer /\ toServer'[i] = toServer[i]
         \/ i = Len(toServer') /\ toServer'[i] = m
  BY <1>1
<1>3. \A i \in DOMAIN toServer' : IsTransfer(i)' =>
          i \in DOMAIN toServer /\ toServer'[i] = toServer[i] /\ IsTransfer(i)
  BY <1>2 DEF IsTransfer
<1>4. \A j \in DOMAIN toHost : IsPiece(j)' <=> IsPiece(j)
  BY DEF IsPiece
<1>5. toServer # << >> /\ IsTransfer(1) => IsTransfer(1)'
  <2>1. toServer # << >> => 1 \in 1 .. Len(toServer)
    BY Ways, EmptySeq DEF HostInv
  <2> QED BY <1>1, <2>1 DEF IsTransfer
<1>6. OnePlace'
  <2>1. \A i \in DOMAIN toServer' : IsTransfer(i)' =>
            /\ toServer'[i].seq = urb'
            /\ \A j \in DOMAIN toServer' : IsTransfer(j)' => j = i
            /\ \A j \in DOMAIN toHost' : ~IsPiece(j)'
    BY <1>3, <1>4 DEF HostInv, OnePlace
  <2>2. \A i \in DOMAIN toHost' : IsPiece(i)' =>
            /\ toHost'[i].seq = urb'
            /\ \A j \in DOMAIN toHost' : IsPiece(j)' => j = i
            /\ last_bt_control_seq' = NoSeq
    BY <1>4 DEF HostInv, OnePlace
  <2>3. last_bt_control_seq # NoSeq =>
            IF last_bt_control_seq = urb
              THEN \A i \in DOMAIN toServer' : ~IsTransfer(i)'
              ELSE toServer' # << >> /\ IsTransfer(1)'
    BY <1>1, <1>3, <1>5 DEF HostInv, OnePlace
  <2> QED BY <2>1, <2>2, <2>3 DEF OnePlace
<1>7. UnlinkLast'
  <2>1. \A i \in DOMAIN toServer : toServer[i].kind # "unlink"
    BY DEF HostInv, UnlinkLast
  <2>2. \A j \in DOMAIN toHost' : toHost'[j].kind # "unlinked"
    BY DEF HostInv, UnlinkLast
  <2>3. \A i \in DOMAIN toServer' : toServer'[i].kind = "unlink" =>
            device' = "closing" /\ i = Len(toServer')
    BY <1>2, <2>1
  <2> QED BY <2>2, <2>3 DEF UnlinkLast
<1> QED BY <1>6, <1>7 DEF ClosedInv

\* Nothing of what the invariant is about changes.
LEMMA NothingMoves ==
    ASSUME HostInv, UNCHANGED <<link, toServer, toHost, device, urb, last_bt_control_seq>>
    PROVE  ClosedInv' /\ OnePlace' /\ UnlinkLast'
<1>1. /\ \A i \in DOMAIN toServer : IsTransfer(i)' <=> IsTransfer(i)
      /\ \A j \in DOMAIN toHost : IsPiece(j)' <=> IsPiece(j)
      /\ IsTransfer(1)' <=> IsTransfer(1)
  BY DEF IsTransfer, IsPiece
<1> QED BY <1>1 DEF HostInv, ClosedInv, OnePlace, UnlinkLast

LEMMA RequestKeeps ==
    ASSUME HostInv,
           \/ GiveUp \/ Close
           \/ \E c \in Commands \cup Unknown : SendCommand(c)
    PROVE  ClosedInv' /\ OnePlace' /\ UnlinkLast'
<1>1. CASE GiveUp
  BY <1>1, NothingMoves DEF GiveUp, serverVars, storeVars
<1>2. CASE Close
  <2>1. Request("unlink", NoSeq, None).kind = "unlink"
    BY DEF Request
  <2> QED BY <1>2, <2>1, OtherRequest DEF Close, HostRuns, serverVars, storeVars
<1>3. ASSUME NEW c \in Commands \cup Unknown, SendCommand(c)
      PROVE  ClosedInv' /\ OnePlace' /\ UnlinkLast'
  <2>1. Request("command", NoSeq, c).kind = "command"
    BY DEF Request
  <2> QED BY <1>3, <2>1, OtherRequest DEF SendCommand, HostRuns, serverVars, storeVars
<1> QED BY <1>1, <1>2, <1>3

LEMMA LinkHostKeeps ==
    ASSUME HostInv, Connect \/ CloseLink \/ PeerGone
    PROVE  ClosedInv' /\ OnePlace' /\ UnlinkLast'
<1>1. CASE Connect
  <2>1. toServer' = << >> /\ toHost' = << >> /\ device' = "closed" /\ urb' = NoSeq
    BY <1>1 DEF Connect, hostVars, HostInv, ClosedInv
  <2>2. DOMAIN toServer' = {} /\ DOMAIN toHost' = {}
    BY <2>1
  <2> QED BY <1>1, <2>1, <2>2 DEF Connect, ClosedInv, OnePlace, UnlinkLast
<1>2. CASE CloseLink
  <2>1. link' = "down" /\ toServer' = << >> /\ UNCHANGED <<toHost, device, urb>> /\ link = "gone"
    BY <1>2 DEF CloseLink, hostVars
  <2> QED BY <2>1 DEF HostInv, ClosedInv, OnePlace, UnlinkLast
<1>3. CASE PeerGone
  <2>1. link' = "gone" /\ toHost' = << >> /\ device' = "closed" /\ urb' = NoSeq
    BY <1>3 DEF PeerGone, HostClosed
  <2> QED BY <2>1 DEF ClosedInv, OnePlace, UnlinkLast
<1> QED BY <1>1, <1>2, <1>3

\* The host takes the first message that is there.
LEMMA MessageTaken ==
    ASSUME HostInv, NEW k, Receives(k)
    PROVE  /\ link = "up" /\ UNCHANGED <<link, toServer, last_bt_control_seq>>
           /\ toHost # << >> /\ 1 \in DOMAIN toHost
           /\ Head(toHost) = toHost[1] /\ toHost[1].kind = k
           /\ Len(toHost') = Len(toHost) - 1 /\ Len(toHost) \in Nat /\ toHost' = Tail(toHost)
           /\ DOMAIN toHost' = 1 .. Len(toHost) - 1
           /\ \A j \in DOMAIN toHost' : /\ j + 1 \in DOMAIN toHost /\ toHost'[j] = toHost[j + 1]
                                        /\ j \in Nat /\ j # 0
<1>1. /\ toHost # << >> /\ toHost' = Tail(toHost) /\ Head(toHost).kind = k
      /\ link = "up" /\ UNCHANGED <<link, toServer, last_bt_control_seq>>
  BY DEF Receives, HostRuns, serverVars, storeVars
<1>2. toHost \in Seq(Sound)
  BY Ways DEF HostInv
<1>3. /\ Len(toHost) \in Nat \ {0} /\ DOMAIN toHost = 1 .. Len(toHost)
      /\ Head(toHost) = toHost[1]
      /\ DOMAIN Tail(toHost) = 1 .. Len(toHost) - 1
      /\ Len(Tail(toHost)) = Len(toHost) - 1
      /\ \A i \in 1 .. Len(toHost) - 1 :
            i + 1 \in 1 .. Len(toHost) /\ Tail(toHost)[i] = toHost[i + 1]
  BY <1>1, <1>2, TailIs
<1>4. 1 \in DOMAIN toHost
  BY <1>3
<1> QED BY <1>1, <1>3, <1>4

\* The piece that the host reads is the answer it waits for.
LEMMA PieceKeeps ==
    ASSUME HostInv, ReceivePiece, ExpectedOnly
    PROVE  ClosedInv' /\ OnePlace' /\ UnlinkLast' /\ ExpectedOnly'
<1>1. /\ link = "up" /\ UNCHANGED <<link, toServer, last_bt_control_seq>>
      /\ 1 \in DOMAIN toHost /\ Head(toHost) = toHost[1] /\ IsPiece(1) /\ toHost # << >>
      /\ Len(toHost') = Len(toHost) - 1 /\ Len(toHost) \in Nat
      /\ DOMAIN toHost' = 1 .. Len(toHost) - 1
      /\ \A j \in DOMAIN toHost' : /\ j + 1 \in DOMAIN toHost /\ toHost'[j] = toHost[j + 1]
                                   /\ j \in Nat /\ j # 0
  BY MessageTaken DEF ReceivePiece, IsPiece
<1>2. /\ toHost[1].seq = urb
      /\ \A j \in DOMAIN toHost : IsPiece(j) => j = 1
      /\ last_bt_control_seq = NoSeq
  BY <1>1 DEF HostInv, OnePlace
<1>3. \A i \in DOMAIN toServer : ~IsTransfer(i)
  BY <1>1 DEF HostInv, OnePlace
<1>4. /\ urb' = NoSeq /\ UNCHANGED device
      /\ \/ Reads(toHost[1].event, toHost[1].from, toHost[1].size)
         \/ UNCHANGED fault
  BY <1>1, <1>2 DEF ReceivePiece
<1>5. ExpectedOnly'
  <2>1. fault' \in {fault, "torn"}
    BY <1>4 DEF Reads
  <2> QED BY <2>1 DEF ExpectedOnly
<1>6. \A j \in DOMAIN toHost' : ~IsPiece(j)'
  <2>1. ASSUME NEW j \in DOMAIN toHost', IsPiece(j)' PROVE FALSE
    <3>1. IsPiece(j + 1) /\ j + 1 \in DOMAIN toHost
      BY <1>1, <2>1 DEF IsPiece
    <3>2. j + 1 = 1
      BY <1>2, <3>1
    <3> QED BY <1>1, <3>2
  <2> QED BY <2>1
<1>7. \A i \in DOMAIN toServer' : ~IsTransfer(i)'
  BY <1>1, <1>3 DEF IsTransfer
<1>8. OnePlace'
  BY <1>1, <1>2, <1>6, <1>7 DEF OnePlace
<1>9. UnlinkLast'
  <2>1. \A j \in DOMAIN toHost' : toHost'[j].kind = "unlinked" =>
            device' = "closing" /\ j = Len(toHost') /\ toServer' = << >>
    <3>1. ASSUME NEW j \in DOMAIN toHost', toHost'[j].kind = "unlinked"
          PROVE  device = "closing" /\ j + 1 = Len(toHost) /\ toServer = << >>
      BY <1>1, <3>1 DEF HostInv, UnlinkLast
    <3>2. ASSUME NEW j \in DOMAIN toHost', j + 1 = Len(toHost) PROVE j = Len(toHost')
      BY <1>1, <3>2
    <3> QED BY <1>1, <1>4, <3>1, <3>2
  <2>2. \A i \in DOMAIN toServer' : toServer'[i].kind = "unlink" =>
            device' = "closing" /\ i = Len(toServer')
    BY <1>1, <1>4 DEF HostInv, UnlinkLast
  <2> QED BY <2>1, <2>2 DEF UnlinkLast
<1>10. ClosedInv'
  <2>1. device # "closed"
    BY <1>1 DEF HostInv, ClosedInv
  <2> QED BY <1>1, <1>4, <2>1 DEF ClosedInv
<1> QED BY <1>5, <1>8, <1>9, <1>10

\* When the answer of an unlink is read nothing is left on the way.
LEMMA UnlinkedKeeps ==
    ASSUME HostInv, ReceiveUnlinked
    PROVE  ClosedInv' /\ OnePlace' /\ UnlinkLast'
<1>1. /\ link = "up" /\ UNCHANGED <<link, toServer>> /\ 1 \in DOMAIN toHost
      /\ toHost[1].kind = "unlinked" /\ toHost' = Tail(toHost) /\ toHost # << >>
  BY MessageTaken DEF ReceiveUnlinked
<1>2. 1 = Len(toHost) /\ toServer = << >>
  BY <1>1 DEF HostInv, UnlinkLast
<1>3. toHost' = << >>
  <2>1. toHost \in Seq(Sound)
    BY Ways DEF HostInv
  <2> QED BY <1>1, <1>2, <2>1
<1>4. device' = "closed" /\ urb' = NoSeq
  BY DEF ReceiveUnlinked, HostClosed
<1>5. DOMAIN toHost' = {} /\ DOMAIN toServer' = {} /\ toServer' = << >>
  BY <1>1, <1>2, <1>3
<1> QED BY <1>1, <1>3, <1>4, <1>5 DEF ClosedInv, OnePlace, UnlinkLast

-----------------------------------------------------------------------------
\* Only a piece can be unexpected.
LEMMA FaultKept ==
    ASSUME Next, ~ReceivePiece
    PROVE  UNCHANGED fault
<1>1. CASE Serve
  BY <1>1 DEF Serve, ServeTransfer, ServeCommand, ServeUnlink, Serving, hostVars
<1>2. CASE CloseLink \/ Connect
  BY <1>2 DEF CloseLink, Connect, hostVars
<1>3. CASE Open \/ Resubmit \/ GiveUp \/ Close \/ PeerGone \/ ReceiveUnlinked
  BY <1>3 DEF Open, Resubmit, GiveUp, Close, PeerGone, ReceiveUnlinked, HostClosed
<1>4. CASE \E c \in Commands \cup Unknown : SendCommand(c)
  BY <1>4 DEF SendCommand
<1> QED BY <1>1, <1>2, <1>3, <1>4 DEF Next

LEMMA HostInitially == Init => HostInv /\ ExpectedOnly
<1> SUFFICES ASSUME Init PROVE HostInv /\ ExpectedOnly
  OBVIOUS
<1>1. BtInv
  BY BtInitially
<1>2. link = "down" /\ device = "closed" /\ urb = NoSeq /\ toServer = << >> /\ toHost = << >>
  BY DEF Init
<1>3. ExpectedOnly
  BY DEF Init, ExpectedOnly
<1> QED BY <1>1, <1>2, <1>3 DEF HostInv, ClosedInv, OnePlace, UnlinkLast

LEMMA HostNext == HostInv /\ ExpectedOnly /\ [Next]_vars => (HostInv /\ ExpectedOnly)'
<1> SUFFICES ASSUME HostInv, ExpectedOnly, [Next]_vars PROVE (HostInv /\ ExpectedOnly)'
  OBVIOUS
<1>1. BtInv'
  BY BtNext DEF HostInv
<1>2. CASE UNCHANGED vars
  BY <1>1, <1>2, NothingMoves DEF HostInv, ExpectedOnly, vars, serverVars, storeVars, hostVars
<1>3. CASE ReceivePiece
  BY <1>1, <1>3, PieceKeeps DEF HostInv
<1>4. CASE Next /\ ~ReceivePiece
  <2>1. ExpectedOnly'
    BY <1>4, FaultKept DEF ExpectedOnly
  <2>2. ClosedInv' /\ OnePlace' /\ UnlinkLast'
    <3>1. CASE Serve
      BY <3>1, ServeKeeps DEF HostInv
    <3>2. CASE Open
      BY <3>2, OpenKeeps
    <3>3. CASE Resubmit
      BY <3>3, ResubmitKeeps
    <3>4. CASE GiveUp \/ Close \/ \E c \in Commands \cup Unknown : SendCommand(c)
      BY <3>4, RequestKeeps
    <3>5. CASE Connect \/ CloseLink \/ PeerGone
      BY <3>5, LinkHostKeeps
    <3>6. CASE ReceiveUnlinked
      BY <3>6, UnlinkedKeeps
    <3> QED BY <1>4, <3>1, <3>2, <3>3, <3>4, <3>5, <3>6 DEF Next
  <2> QED BY <1>1, <2>1, <2>2 DEF HostInv
<1> QED BY <1>2, <1>3, <1>4

\* Whatever the host does, no answer goes to a transfer that it has unlinked,
\* or that belonged to an earlier connection.
THEOREM BtExpectedOnly == Spec => []ExpectedOnly
<1>1. HostInv /\ ExpectedOnly /\ [Next /\ UNCHANGED careful]_<<vars, careful>>
         => (HostInv /\ ExpectedOnly)'
  BY HostNext
<1> QED BY <1>1, HostInitially, PTL DEF Spec

-----------------------------------------------------------------------------
(* A careful host.  What it has read of an event is what the controller    *)
(* has sent of it, but for the one piece that may be on the way.           *)

IsCommand(i) == toServer[i].kind = "command"
NoCommand    == \A i \in DOMAIN toServer : ~IsCommand(i)
NoPiece      == \A j \in DOMAIN toHost : ~IsPiece(j)

\* Commands whose event the host may get, or never get, without having asked.
Unasked == Unknown \cup {Default}

\* The event that the controller has sent the first bytes of.
Sent ==
    IF frag_message_length # 0
      THEN [event |-> buffer, got |-> frag_message_pos]
      ELSE IF scanning_frag_device_pos # 0
        THEN [event |-> DeviceEvent(scanning_device_pos), got |-> scanning_frag_device_pos]
        ELSE Nothing

\* Half an event is kept only of the command that the host waits for, or of
\* the device that the scan has come to.  A device that is not open has none.
HalfSent ==
    /\ frag_message_length # 0 =>
          /\ frag_message_length = Size(buffer)
          /\ frag_message_pos > 0
          /\ ~scanning
          /\ buffer.cmd # Default
          /\ command = buffer.cmd
    /\ scanning_frag_device_pos # 0 =>
          /\ scanning
          /\ Long(scanning_device_pos)
          /\ scanning_frag_device_pos < DeviceSize[scanning_device_pos]
    /\ device # "open" =>
          /\ frag_message_length = 0
          /\ ~scanning
          /\ command = None
          /\ partial = Nothing
          /\ NoCommand

\* The first transfer finds nothing stored.
FirstInv ==
    first_bt_control =>
        /\ frag_message_length = 0
        /\ ~scanning
        /\ last_bt_control = None
        /\ last_bt_control_seq = NoSeq
        /\ toServer # << >> => IsTransfer(1)
        /\ link = "up" /\ device # "closed" => toServer # << >>

\* The command that the host waits for is in one place: on the way, stored, or
\* its event is being sent.
CommandPlace ==
    /\ frag_message_length # 0 \/ scanning => last_bt_control = None /\ NoCommand
    /\ \A i \in DOMAIN toServer : IsCommand(i) /\ toServer[i].cmd \notin Unasked =>
          /\ toServer[i].cmd = command
          /\ \A j \in DOMAIN toServer : IsCommand(j) => j <= i
    /\ last_bt_control \notin Unasked \cup {None} =>
          last_bt_control = command /\ NoCommand
    /\ link = "up" => \A j \in DOMAIN toHost :
          IsPiece(j) /\ toHost[j].event.dev = 0 /\ toHost[j].event.cmd # Default =>
             /\ toHost[j].event.cmd = command
             /\ NoCommand
             /\ last_bt_control = None

\* What a host that has read piece m has read of its event.
Rest(m) ==
    IF m.from + m.size = Size(m.event)
      THEN Nothing
      ELSE [event |-> m.event, got |-> m.from + m.size]

\* Piece m goes on where the host is, and ends where the controller is.
Follows(m) ==
    /\ m.size # 0
    /\ IF partial = Nothing THEN m.from = 0
                            ELSE partial = [event |-> m.event, got |-> m.from]
    /\ Rest(m) = Sent

InStep ==
    link = "up" /\ device = "open" =>
        /\ \A j \in DOMAIN toHost : IsPiece(j) => Follows(toHost[j])
        /\ NoPiece => partial = Sent

CarefulInv == HalfSent /\ FirstInv /\ CommandPlace /\ InStep

-----------------------------------------------------------------------------
(* The steps of the server, for a careful host.                            *)

\* What is behind the request that is taken.
LEMMA RestOfWay ==
    ASSUME HostInv, CarefulInv, Serve
    PROVE  /\ UNCHANGED <<link, device, command, partial, urb, fault>>
           /\ NoCommand => NoCommand'
           /\ \A i \in DOMAIN toServer' : IsCommand(i)' /\ toServer'[i].cmd \notin Unasked =>
                 /\ toServer'[i].cmd = command
                 /\ \A j \in DOMAIN toServer' : IsCommand(j)' => j <= i
           /\ IsCommand(1) /\ toServer[1].cmd \notin Unasked =>
                 toServer[1].cmd = command /\ NoCommand'
           /\ IsCommand(1) => /\ frag_message_length = 0 /\ ~scanning
                              /\ device = "open"
                              /\ ~NoCommand
<1>1. UNCHANGED <<link, device, command, partial, urb, fault>>
  BY DEF Serve, ServeTransfer, ServeCommand, ServeUnlink, Serving, hostVars
<1>2. /\ 1 \in DOMAIN toServer /\ Len(toServer) \in Nat
      /\ DOMAIN toServer = 1 .. Len(toServer)
      /\ DOMAIN toServer' = 1 .. Len(toServer) - 1
      /\ \A i \in DOMAIN toServer' : i + 1 \in DOMAIN toServer /\ toServer'[i] = toServer[i + 1]
  BY RequestTaken, Ways DEF HostInv
<1>3. \A i \in DOMAIN toServer' : i + 1 \in DOMAIN toServer /\ (IsCommand(i)' <=> IsCommand(i + 1))
  BY <1>2 DEF IsCommand
<1>4. NoCommand => NoCommand'
  BY <1>3 DEF NoCommand
<1>5. ASSUME NEW i \in DOMAIN toServer', IsCommand(i)', toServer'[i].cmd \notin Unasked
      PROVE  /\ toServer'[i].cmd = command
             /\ \A j \in DOMAIN toServer' : IsCommand(j)' => j <= i
  <2>1. IsCommand(i + 1) /\ toServer[i + 1].cmd \notin Unasked /\ i + 1 \in DOMAIN toServer
    BY <1>2, <1>3, <1>5
  <2>2. /\ toServer[i + 1].cmd = command
        /\ \A j \in DOMAIN toServer : IsCommand(j) => j <= i + 1
    BY <2>1 DEF CarefulInv, CommandPlace
  <2>3. ASSUME NEW j \in DOMAIN toServer', IsCommand(j)' PROVE j <= i
    <3>1. j + 1 <= i + 1
      BY <1>3, <2>2, <2>3
    <3> QED BY <1>2, <3>1
  <2> QED BY <1>2, <2>2, <2>3
<1>6. ASSUME IsCommand(1), toServer[1].cmd \notin Unasked
      PROVE  toServer[1].cmd = command /\ NoCommand'
  <2>1. toServer[1].cmd = command /\ \A j \in DOMAIN toServer : IsCommand(j) => j <= 1
    BY <1>2, <1>6 DEF CarefulInv, CommandPlace
  <2>2. ASSUME NEW j \in DOMAIN toServer', IsCommand(j)' PROVE FALSE
    <3>1. j + 1 <= 1
      BY <1>3, <2>1, <2>2
    <3> QED BY <1>2, <3>1
  <2> QED BY <2>1, <2>2 DEF NoCommand
<1>7. IsCommand(1) => /\ frag_message_length = 0 /\ ~scanning
                      /\ device = "open"
                      /\ ~NoCommand
  BY <1>2 DEF CarefulInv, CommandPlace, HalfSent, NoCommand
<1> QED BY <1>1, <1>4, <1>5, <1>6, <1>7

\* After the first request the default event has been sent.
LEMMA FirstGone ==
    ASSUME HostInv, FirstInv, Serve
    PROVE  ~first_bt_control'
<1>1. CASE first_bt_control
  <2>1. IsTransfer(1)
    BY <1>1, RequestTaken DEF FirstInv
  <2>2. ServeTransfer
    BY <2>1, RequestTaken DEF IsTransfer
  <2> QED BY <1>1, <2>2 DEF FirstInv, ServeTransfer, TransferMeetsCommand, FirstEvent, NextFragment,
        InScan, ScanEnd, ScanFragment, ScanReport, StoreTransfer, ReplaceTransfer
<1>2. CASE ~first_bt_control
  BY <1>2 DEF Serve, ServeTransfer, TransferMeetsCommand, FirstEvent, NextFragment,
     InScan, ScanEnd, ScanFragment, ScanReport, StoreTransfer, ReplaceTransfer, ServeCommand,
     CommandMeetsTransfer, StoreCommand, CommandMeetsCommand, ServeUnlink, Drop, serverVars, storeVars
<1> QED BY <1>1, <1>2

\* A piece that is sent is the only one on the way.
LEMMA NewPiece ==
    ASSUME HostInv, NEW m, m.kind = "piece", Send(m), link = "up", NoPiece
    PROVE  /\ \A j \in DOMAIN toHost' : IsPiece(j)' => toHost'[j] = m
           /\ ~NoPiece'
<1>1. toHost' = Append(toHost, m) /\ toHost \in Seq(Sound)
  BY Ways DEF Send, HostInv
<1>2. /\ Len(toHost) \in Nat /\ DOMAIN toHost = 1 .. Len(toHost)
      /\ DOMAIN toHost' = 1 .. Len(toHost) + 1
      /\ toHost'[Len(toHost) + 1] = m
      /\ \A i \in 1 .. Len(toHost) : toHost'[i] = toHost[i]
  BY <1>1, AppendIs
<1>3. ASSUME NEW j \in DOMAIN toHost', IsPiece(j)' PROVE toHost'[j] = m
  <2>1. j \notin 1 .. Len(toHost)
    BY <1>2, <1>3 DEF NoPiece, IsPiece
  <2>2. j = Len(toHost) + 1
    BY <1>2, <2>1
  <2> QED BY <1>2, <2>2
<1>4. PICK k : k = Len(toHost) + 1
  OBVIOUS
<1>5. ~NoPiece'
  <2>1. k \in DOMAIN toHost' /\ IsPiece(k)'
    BY <1>2, <1>4 DEF IsPiece
  <2> QED BY <2>1 DEF NoPiece
<1> QED BY <1>3, <1>5

\* The event of a command, or its first piece, when nothing is half sent.
LEMMA AnswerInStep ==
    ASSUME HostInv, CarefulInv, Serve,
           NEW c \in Commands, NEW s, Answer(c, s),
           frag_message_length = 0, ~scanning, last_bt_control' = None,
           link = "up" => NoPiece,
           c # Default => c = command /\ device = "open" /\ NoCommand'
    PROVE  HalfSent' /\ CommandPlace' /\ InStep'
<1> DEFINE m == Piece(s, CommandEvent(c), 0, Least(EventSize[c], MaxControl))
<1>1. /\ UNCHANGED <<link, device, command, partial>>
      /\ NoCommand => NoCommand'
      /\ \A i \in DOMAIN toServer' : IsCommand(i)' /\ toServer'[i].cmd \notin Unasked =>
            /\ toServer'[i].cmd = command
            /\ \A j \in DOMAIN toServer' : IsCommand(j)' => j <= i
  BY RestOfWay
<1>2. scanning_frag_device_pos = 0 /\ scanning_frag_device_pos' = 0 /\ Sent = Nothing
  BY DEF CarefulInv, HalfSent, Sent, Answer, scanVars
<1>3. link = "up" => /\ \A j \in DOMAIN toHost' : IsPiece(j)' => toHost'[j] = m
                     /\ ~NoPiece'
  BY NewPiece DEF Answer, Piece
<1>4. /\ EventSize[c] \in Nat \ {0} /\ MaxControl \in Nat \ {0}
      /\ CommandEvent(c).dev = 0 /\ CommandEvent(c).cmd = c /\ Size(CommandEvent(c)) = EventSize[c]
      /\ c \in ScanCommands \cup {Default} => EventSize[c] <= MaxControl
      /\ Default \notin ScanCommands
  BY Tables, BtAssumption
<1>5. /\ m.event = CommandEvent(c) /\ m.from = 0 /\ m.size = Least(EventSize[c], MaxControl)
      /\ m.size # 0
  BY <1>4 DEF Piece, Least
<1>6. \/ /\ frag_message_length' = 0 /\ EventSize[c] <= MaxControl
         /\ scanning' => c \in ScanCommands
      \/ /\ frag_message_length' = EventSize[c] /\ frag_message_pos' = MaxControl
         /\ EventSize[c] > MaxControl /\ buffer' = CommandEvent(c)
         /\ ~scanning' /\ c # Default
  BY <1>4 DEF Answer, fragVars, scanVars
<1>7. HalfSent'
  BY <1>1, <1>2, <1>4, <1>6 DEF CarefulInv, HalfSent
<1>8. CommandPlace'
  <2>1. frag_message_length' # 0 \/ scanning' => NoCommand'
    BY <1>4, <1>6
  <2>2. link = "up" => \A j \in DOMAIN toHost' :
          IsPiece(j)' /\ toHost'[j].event.dev = 0 /\ toHost'[j].event.cmd # Default =>
             toHost'[j].event.cmd = command /\ NoCommand'
    BY <1>3, <1>4, <1>5
  <2> QED BY <1>1, <2>1, <2>2 DEF CommandPlace
<1>9. ASSUME link = "up", device = "open" PROVE Follows(m)'
  <2>1. partial' = Nothing
    BY <1>1, <1>2, <1>9 DEF CarefulInv, InStep
  <2>2. Rest(m) = Sent'
    BY <1>2, <1>4, <1>5, <1>6 DEF Rest, Sent, Least
  <2> QED BY <1>5, <2>1, <2>2 DEF Follows, Rest
<1>10. InStep'
  BY <1>1, <1>3, <1>9 DEF InStep
<1> QED BY <1>7, <1>8, <1>10

\* A piece goes out by which an event goes on, of a scan or of the command that
\* the host waits for.
LEMMA GoesOnInStep ==
    ASSUME HostInv, CarefulInv, Serve,
           NEW m, m.kind = "piece", Send(m), link = "up" => NoPiece,
           m.size # 0, Rest(m) = Sent', Sent = Nothing => m.from = 0,
           Sent # Nothing => Sent = [event |-> m.event, got |-> m.from],
           m.event.dev # 0 \/ m.event.cmd = command,
           frag_message_length # 0 \/ scanning,
           frag_message_length' # 0 => frag_message_length # 0,
           last_bt_control' = last_bt_control, HalfSent'
    PROVE  CommandPlace' /\ InStep'
<1>1. /\ UNCHANGED <<link, device, command, partial>>
      /\ NoCommand => NoCommand'
      /\ \A i \in DOMAIN toServer' : IsCommand(i)' /\ toServer'[i].cmd \notin Unasked =>
            /\ toServer'[i].cmd = command
            /\ \A j \in DOMAIN toServer' : IsCommand(j)' => j <= i
  BY RestOfWay
<1>2. last_bt_control = None /\ NoCommand
  BY DEF CarefulInv, CommandPlace
<1>3. link = "up" => /\ \A j \in DOMAIN toHost' : IsPiece(j)' => toHost'[j] = m
                     /\ ~NoPiece'
  BY NewPiece
<1>4. CommandPlace'
  BY <1>1, <1>2, <1>3 DEF CommandPlace
<1>5. ASSUME link = "up", device = "open" PROVE Follows(m)'
  <2>1. partial' = Sent
    BY <1>1, <1>5 DEF CarefulInv, InStep
  <2> QED BY <2>1 DEF Follows, Rest
<1> QED BY <1>1, <1>3, <1>4, <1>5 DEF InStep

LEMMA NextFragmentInStep ==
    ASSUME HostInv, CarefulInv, Serve, NEW s, NextFragment(s), link = "up" => NoPiece
    PROVE  HalfSent' /\ CommandPlace' /\ InStep'
<1> DEFINE n == Least(frag_message_length - frag_message_pos, MaxControl)
           m == Piece(s, buffer, frag_message_pos, n)
<1>1. /\ frag_message_length # 0 /\ frag_message_length = Size(buffer)
      /\ frag_message_pos > 0 /\ ~scanning /\ buffer.cmd # Default /\ command = buffer.cmd
      /\ device = "open" /\ scanning_frag_device_pos = 0
  BY DEF NextFragment, CarefulInv, HalfSent
<1>2. /\ frag_message_length \in Nat /\ frag_message_pos \in Nat
      /\ frag_message_pos < frag_message_length /\ MaxControl \in Nat \ {0}
  BY <1>1, Tables DEF HostInv, BtInv, FragOK
<1>3. /\ Send(m)
      /\ \/ /\ frag_message_pos + n = frag_message_length
            /\ frag_message_pos' = 0 /\ frag_message_length' = 0
         \/ /\ frag_message_pos + n # frag_message_length
            /\ frag_message_pos' = frag_message_pos + n
            /\ frag_message_length' = frag_message_length
      /\ UNCHANGED <<last_bt_control, buffer, scanning, scanning_device_pos, scanning_frag_device_pos>>
  BY DEF NextFragment, storeVars, scanVars
<1>4. n \in Nat \ {0}
  BY <1>2 DEF Least
<1>5. m.kind = "piece" /\ m.event = buffer /\ m.from = frag_message_pos /\ m.size = n
  BY DEF Piece
<1>6. UNCHANGED <<device, command, partial>> /\ (NoCommand => NoCommand')
  BY RestOfWay
<1>7. HalfSent'
  BY <1>1, <1>2, <1>3, <1>4, <1>6 DEF HalfSent
<1>8. Rest(m) = Sent'
  BY <1>1, <1>2, <1>3, <1>4, <1>5 DEF Rest, Sent
<1>9. Sent = [event |-> buffer, got |-> frag_message_pos] /\ Sent # Nothing
  BY <1>1, <1>2 DEF Sent, Nothing
<1> HIDE DEF n, m
<1> QED BY <1>1, <1>3, <1>4, <1>5, <1>7, <1>8, <1>9, GoesOnInStep

\* In a scan nothing is half sent but what the scan has come to.
LEMMA InScanIs ==
    ASSUME HostInv, CarefulInv, InScan
    PROVE  /\ frag_message_length = 0 /\ scanning /\ device = "open"
           /\ scanning_frag_device_pos \in Nat /\ scanning_device_pos \in Nat \ {0}
           /\ scanning_frag_device_pos # 0 =>
                 scanning_frag_device_pos < DeviceSize[scanning_device_pos]
           /\ scanning_frag_device_pos # 0 => Long(scanning_device_pos)
           /\ MaxControl \in Nat \ {0}
BY Tables DEF InScan, CarefulInv, HalfSent, HostInv, BtInv, ScanOK

LEMMA ScanFragmentInStep ==
    ASSUME HostInv, CarefulInv, Serve, NEW s, ScanFragment(s), link = "up" => NoPiece
    PROVE  HalfSent' /\ CommandPlace' /\ InStep'
<1> DEFINE d == DeviceSize[scanning_device_pos]
           n == Least(d - scanning_frag_device_pos, MaxControl)
           m == Piece(s, DeviceEvent(scanning_device_pos), scanning_frag_device_pos, n)
<1>1. /\ frag_message_length = 0 /\ scanning /\ device = "open"
      /\ scanning_frag_device_pos \in Nat /\ scanning_device_pos \in Nat \ {0}
      /\ scanning_frag_device_pos # 0 => scanning_frag_device_pos < d
      /\ MaxControl \in Nat \ {0}
  BY InScanIs DEF ScanFragment
<1>2. /\ scanning_device_pos \in DOMAIN DeviceSize /\ d > MaxControl /\ d \in Nat
      /\ DeviceEvent(scanning_device_pos).dev = scanning_device_pos
      /\ Size(DeviceEvent(scanning_device_pos)) = d
  BY <1>1, Tables DEF ScanFragment
<1>3. /\ Send(m)
      /\ \/ /\ scanning_frag_device_pos + n = d
            /\ scanning_frag_device_pos' = 0
         \/ /\ scanning_frag_device_pos + n # d
            /\ scanning_frag_device_pos' = scanning_frag_device_pos + n
            /\ scanning_device_pos' = scanning_device_pos
      /\ UNCHANGED <<last_bt_control, buffer, frag_message_length, frag_message_pos, scanning>>
  BY DEF ScanFragment, storeVars, fragVars
<1>4. n \in Nat \ {0} /\ scanning_frag_device_pos + n <= d
  BY <1>1, <1>2 DEF Least
<1>5. /\ m.kind = "piece" /\ m.event = DeviceEvent(scanning_device_pos)
      /\ m.from = scanning_frag_device_pos /\ m.size = n
  BY DEF Piece
<1>6. UNCHANGED <<device, command, partial>> /\ (NoCommand => NoCommand')
  BY RestOfWay
<1>7. HalfSent'
  BY <1>1, <1>2, <1>3, <1>4, <1>6 DEF HalfSent, Long
<1>8. Rest(m) = Sent'
  BY <1>1, <1>2, <1>3, <1>4, <1>5 DEF Rest, Sent
<1>9. /\ Sent = Nothing => scanning_frag_device_pos = 0
      /\ Sent # Nothing => Sent = [event |-> m.event, got |-> scanning_frag_device_pos]
  BY <1>1, <1>5 DEF Sent, Nothing
<1>10. m.event.dev # 0
  BY <1>1, <1>2, <1>5
<1> HIDE DEF n, m
<1> QED BY <1>1, <1>3, <1>4, <1>5, <1>7, <1>8, <1>9, <1>10, GoesOnInStep

LEMMA ScanReportInStep ==
    ASSUME HostInv, CarefulInv, Serve, NEW s, ScanReport(s), link = "up" => NoPiece
    PROVE  HalfSent' /\ CommandPlace' /\ InStep'
<1> DEFINE d == DeviceSize[scanning_device_pos]
           m == Piece(s, DeviceEvent(scanning_device_pos), 0, d)
<1>1. /\ frag_message_length = 0 /\ scanning /\ device = "open"
      /\ scanning_device_pos \in Nat \ {0} /\ MaxControl \in Nat \ {0}
      /\ scanning_frag_device_pos # 0 => Long(scanning_device_pos)
  BY InScanIs DEF ScanReport
<1>2. /\ scanning_device_pos \in DOMAIN DeviceSize /\ d <= MaxControl /\ d \in Nat \ {0}
      /\ DeviceEvent(scanning_device_pos).dev = scanning_device_pos
      /\ Size(DeviceEvent(scanning_device_pos)) = d
  BY <1>1, Tables DEF ScanReport
<1>3. /\ Send(m)
      /\ UNCHANGED <<last_bt_control, buffer, frag_message_length, frag_message_pos, scanning,
                     scanning_frag_device_pos>>
  BY DEF ScanReport, storeVars, fragVars
<1>4. scanning_frag_device_pos = 0
  BY <1>1, <1>2 DEF Long
<1>5. /\ m.kind = "piece" /\ m.event = DeviceEvent(scanning_device_pos)
      /\ m.from = 0 /\ m.size = d
  BY DEF Piece
<1>6. UNCHANGED <<device, command, partial>> /\ (NoCommand => NoCommand')
  BY RestOfWay
<1>7. HalfSent'
  BY <1>1, <1>3, <1>4, <1>6 DEF HalfSent
<1>8. Rest(m) = Sent' /\ Sent = Nothing
  BY <1>1, <1>2, <1>3, <1>4, <1>5 DEF Rest, Sent
<1>9. m.event.dev # 0 /\ m.size # 0
  BY <1>1, <1>2, <1>5
<1> HIDE DEF m
<1> QED BY <1>1, <1>3, <1>5, <1>7, <1>8, <1>9, GoesOnInStep

\* Nothing is sent to the transfer.  The scan may be at its end.
LEMMA SilentInStep ==
    ASSUME HostInv, CarefulInv, Serve,
           UNCHANGED <<fragVars, scanning_device_pos, scanning_frag_device_pos>>,
           \/ scanning' = scanning
           \/ scanning' = FALSE /\ scanning_frag_device_pos = 0,
           \/ last_bt_control' = last_bt_control
           \/ /\ IsCommand(1)
              /\ last_bt_control' = toServer[1].cmd,
           \/ toHost' = toHost
           \/ device # "open" /\ \A j \in DOMAIN toHost' :
                                    IsPiece(j)' => j \in DOMAIN toHost /\ toHost'[j] = toHost[j]
    PROVE  HalfSent' /\ CommandPlace' /\ InStep'
<1>1. /\ UNCHANGED <<link, device, command, partial>>
      /\ NoCommand => NoCommand'
      /\ \A i \in DOMAIN toServer' : IsCommand(i)' /\ toServer'[i].cmd \notin Unasked =>
            /\ toServer'[i].cmd = command
            /\ \A j \in DOMAIN toServer' : IsCommand(j)' => j <= i
      /\ IsCommand(1) /\ toServer[1].cmd \notin Unasked =>
            toServer[1].cmd = command /\ NoCommand'
      /\ IsCommand(1) => /\ frag_message_length = 0 /\ ~scanning
                         /\ device = "open"
                         /\ ~NoCommand
  BY RestOfWay
<1>2. UNCHANGED <<buffer, frag_message_length, frag_message_pos>>
  BY DEF fragVars
<1>3. Sent' = Sent
  BY <1>2 DEF Sent
<1>4. HalfSent'
  BY <1>1, <1>2 DEF CarefulInv, HalfSent
<1>5. \A j \in DOMAIN toHost' : IsPiece(j)' =>
          j \in DOMAIN toHost /\ toHost'[j] = toHost[j] /\ IsPiece(j)
  BY DEF IsPiece
<1>6. CommandPlace'
  <2>1. frag_message_length' # 0 \/ scanning' => last_bt_control' = None /\ NoCommand'
    BY <1>1, <1>2 DEF CarefulInv, CommandPlace
  <2>2. last_bt_control' \notin Unasked \cup {None} =>
            last_bt_control' = command' /\ NoCommand'
    BY <1>1 DEF CarefulInv, CommandPlace
  <2>3. link = "up" => \A j \in DOMAIN toHost' :
          IsPiece(j)' /\ toHost'[j].event.dev = 0 /\ toHost'[j].event.cmd # Default =>
             /\ toHost'[j].event.cmd = command
             /\ NoCommand'
             /\ last_bt_control' = None
    BY <1>1, <1>5 DEF CarefulInv, CommandPlace
  <2> QED BY <1>1, <2>1, <2>2, <2>3 DEF CommandPlace
<1>7. InStep'
  <2>1. CASE toHost' = toHost
    <3>1. ASSUME NEW m PROVE Follows(m)' <=> Follows(m)
      BY <1>1, <1>3 DEF Follows, Rest
    <3>2. NoPiece' <=> NoPiece
      BY <2>1 DEF NoPiece, IsPiece
    <3> QED BY <1>1, <1>3, <1>5, <2>1, <3>1, <3>2 DEF CarefulInv, InStep
  <2>2. CASE device # "open"
    BY <1>1, <2>2 DEF InStep
  <2> QED BY <2>1, <2>2
<1> QED BY <1>4, <1>6, <1>7

\* No piece is on the way when a transfer is served, or can be answered.
LEMMA ServedNoPiece ==
    ASSUME HostInv, Serve, link = "up",
           \/ toServer[1].kind = "transfer"
           \/ last_bt_control_seq # NoSeq
    PROVE  NoPiece
BY RequestTaken DEF HostInv, OnePlace, NoPiece, IsTransfer

LEMMA ServeTransferInStep ==
    ASSUME HostInv, CarefulInv, ServeTransfer
    PROVE  HalfSent' /\ CommandPlace' /\ InStep'
<1> DEFINE s == Head(toServer).seq
<1>1. Serve
  BY DEF Serve
<1>2. toServer[1].kind = "transfer"
  BY <1>1, RequestTaken DEF ServeTransfer, Serving
<1>3. link = "up" => NoPiece
  BY <1>1, <1>2, ServedNoPiece
<1>4. None \notin Commands /\ Default \in Commands /\ Commands \cap Unknown = {}
  BY BtAssumption
<1>5. CASE TransferMeetsCommand(s)
  <2>1. CASE last_bt_control \in Commands
    <3>1. frag_message_length = 0 /\ ~scanning
      BY <1>4, <2>1 DEF CarefulInv, CommandPlace
    <3>2. last_bt_control # Default => last_bt_control = command /\ NoCommand
      BY <1>4, <2>1 DEF CarefulInv, CommandPlace, Unasked
    <3>3. last_bt_control = command => device = "open"
      BY <1>4, <2>1 DEF CarefulInv, HalfSent
    <3>4. NoCommand => NoCommand'
      BY <1>1, RestOfWay
    <3>5. Answer(last_bt_control, s) /\ last_bt_control' = None
      BY <1>5, <2>1 DEF TransferMeetsCommand
    <3> HIDE DEF s
    <3> QED BY <1>1, <1>3, <2>1, <3>1, <3>2, <3>3, <3>4, <3>5, AnswerInStep
  <2>2. CASE last_bt_control \notin Commands
    BY <1>1, <1>5, <2>2, SilentInStep
       DEF TransferMeetsCommand, Drop, serverVars, storeVars, scanVars
  <2> QED BY <2>1, <2>2
<1>6. CASE FirstEvent(s)
  <2>1. /\ frag_message_length = 0 /\ ~scanning /\ last_bt_control' = None /\ Answer(Default, s)
    BY <1>6 DEF FirstEvent, Idle, CarefulInv, FirstInv
  <2> HIDE DEF s
  <2> QED BY <1>1, <1>3, <1>4, <2>1, AnswerInStep
<1>7. CASE NextFragment(s)
  BY <1>1, <1>3, <1>7, NextFragmentInStep
<1>8. CASE ScanEnd(s)
  <2>1. scanning_frag_device_pos = 0
    BY <1>8, InScanIs, Tables DEF ScanEnd, Long
  <2> QED BY <1>1, <1>8, <2>1, SilentInStep DEF ScanEnd
<1>9. CASE ScanFragment(s)
  BY <1>1, <1>3, <1>9, ScanFragmentInStep
<1>10. CASE ScanReport(s)
  BY <1>1, <1>3, <1>10, ScanReportInStep
<1>11. CASE StoreTransfer(s)
  BY <1>1, <1>11, SilentInStep DEF StoreTransfer, scanVars
<1>12. CASE ReplaceTransfer(s)
  BY <1>1, <1>12, SilentInStep DEF ReplaceTransfer, scanVars
<1> QED
  BY <1>5, <1>6, <1>7, <1>8, <1>9, <1>10, <1>11, <1>12 DEF ServeTransfer

LEMMA ServeCommandInStep ==
    ASSUME HostInv, CarefulInv, ServeCommand
    PROVE  HalfSent' /\ CommandPlace' /\ InStep'
<1> DEFINE c == Head(toServer).cmd
<1>1. Serve
  BY DEF Serve
<1>2. IsCommand(1) /\ c = toServer[1].cmd
  BY <1>1, RequestTaken DEF ServeCommand, Serving, IsCommand
<1>3. /\ frag_message_length = 0 /\ ~scanning /\ device = "open"
      /\ c \notin Unasked => c = command /\ NoCommand'
  BY <1>1, <1>2, RestOfWay
<1>4. CASE CommandMeetsTransfer(c)
  <2>1. CASE c \in Commands
    <3>1. c = Default \/ c \notin Unasked
      BY <2>1, BtAssumption DEF Unasked
    <3>2. link = "up" => NoPiece
      BY <1>1, <1>4, ServedNoPiece DEF CommandMeetsTransfer
    <3>3. Answer(c, last_bt_control_seq) /\ last_bt_control' = None
      BY <1>4, <2>1 DEF CommandMeetsTransfer
    <3> HIDE DEF c
    <3> QED BY <1>1, <1>3, <2>1, <3>1, <3>2, <3>3, AnswerInStep
  <2>2. CASE c \notin Commands
    BY <1>1, <1>4, <2>2, SilentInStep
       DEF CommandMeetsTransfer, Drop, serverVars, storeVars, scanVars
  <2> QED BY <2>1, <2>2
<1>5. CASE StoreCommand(c)
  BY <1>1, <1>2, <1>5, SilentInStep DEF StoreCommand, scanVars
<1>6. CASE CommandMeetsCommand
  BY <1>1, <1>6, SilentInStep DEF CommandMeetsCommand, Drop, serverVars, storeVars, scanVars
<1> QED BY <1>4, <1>5, <1>6 DEF ServeCommand

\* An unlink ends no scan of a careful host: there is none.
LEMMA ServeUnlinkInStep ==
    ASSUME HostInv, CarefulInv, ServeUnlink
    PROVE  HalfSent' /\ CommandPlace' /\ InStep'
<1>1. Serve /\ toServer[1].kind = "unlink"
  BY RequestTaken DEF Serve, ServeUnlink, Serving
<1>2. device # "open"
  BY <1>1, RequestTaken, Ways, Zenon DEF HostInv, UnlinkLast, ClosedInv
<1>3. scanning_frag_device_pos = 0
  BY <1>2 DEF CarefulInv, HalfSent
<1>4. \A j \in DOMAIN toHost' : IsPiece(j)' => j \in DOMAIN toHost /\ toHost'[j] = toHost[j]
  <2>1. CASE link = "up"
    <3>1. toHost' = Append(toHost, [kind |-> "unlinked"]) /\ toHost \in Seq(Sound)
      BY <2>1, Ways DEF ServeUnlink, Send, HostInv
    <3>2. /\ Len(toHost) \in Nat /\ DOMAIN toHost = 1 .. Len(toHost)
          /\ DOMAIN toHost' = 1 .. Len(toHost) + 1
          /\ toHost'[Len(toHost) + 1] = [kind |-> "unlinked"]
          /\ \A j \in 1 .. Len(toHost) : toHost'[j] = toHost[j]
      BY <3>1, AppendIs
    <3> QED BY <3>2 DEF IsPiece
  <2>2. CASE link # "up"
    BY <1>1, <2>2, NothingSent
  <2> QED BY <2>1, <2>2, Zenon
<1> QED BY <1>1, <1>2, <1>3, <1>4, SilentInStep DEF ServeUnlink, storeVars

LEMMA ServeCareful ==
    ASSUME HostInv, CarefulInv, Serve
    PROVE  CarefulInv' /\ fault' = fault
<1>1. HalfSent' /\ CommandPlace' /\ InStep'
  BY ServeTransferInStep, ServeCommandInStep, ServeUnlinkInStep DEF Serve
<1>2. FirstInv'
  BY FirstGone DEF CarefulInv, FirstInv
<1> QED BY <1>1, <1>2, RestOfWay DEF CarefulInv

-----------------------------------------------------------------------------
(* The steps of the host, when it is careful.                              *)

\* What the invariant of a careful host says of the statics, and of the way to
\* the host, when neither changes.
LEMMA StaticsStay ==
    ASSUME UNCHANGED serverVars
    PROVE  /\ Sent' = Sent
           /\ UNCHANGED <<last_bt_control, last_bt_control_seq, first_bt_control, buffer,
                          frag_message_length, frag_message_pos, scanning, scanning_device_pos,
                          scanning_frag_device_pos>>
BY DEF serverVars, storeVars, fragVars, scanVars, Sent

LEMMA InStepStays ==
    ASSUME CarefulInv, UNCHANGED <<serverVars, link, toHost, device, partial>>
    PROVE  InStep'
<1>1. ASSUME NEW m PROVE Follows(m)' <=> Follows(m)
  BY StaticsStay DEF Follows, Rest
<1>2. NoPiece' <=> NoPiece
  BY DEF NoPiece, IsPiece
<1>3. \A j \in DOMAIN toHost : IsPiece(j)' <=> IsPiece(j)
  BY DEF IsPiece
<1> QED BY <1>1, <1>2, <1>3, StaticsStay DEF CarefulInv, InStep

\* A transfer or an unlink is sent.
LEMMA OtherRequestCareful ==
    ASSUME HostInv, CarefulInv, link = "up", NEW m, m.kind # "command",
           toServer' = Append(toServer, m),
           UNCHANGED <<serverVars, link, toHost, command, partial>>,
           m.kind = "transfer" \/ device = "open",
           device' # device =>
              /\ frag_message_length = 0 /\ ~scanning
              /\ command = None /\ partial = Nothing /\ NoCommand
              /\ device' = "open" => toHost = << >>
    PROVE  CarefulInv'
<1>1. /\ Len(toServer) \in Nat /\ toServer' # << >>
      /\ DOMAIN toServer = 1 .. Len(toServer) /\ DOMAIN toServer' = 1 .. Len(toServer) + 1
      /\ toServer'[Len(toServer) + 1] = m
      /\ \A i \in 1 .. Len(toServer) : toServer'[i] = toServer[i]
      /\ toServer # << >> => Len(toServer) # 0
  BY RequestAppended, Ways, EmptySeq DEF HostInv
<1>2. \A i \in DOMAIN toServer' : IsCommand(i)' =>
          i \in DOMAIN toServer /\ toServer'[i] = toServer[i] /\ IsCommand(i)
  BY <1>1 DEF IsCommand
<1>3. NoCommand => NoCommand'
  BY <1>2 DEF NoCommand
<1>4. HalfSent'
  BY <1>3, StaticsStay DEF CarefulInv, HalfSent
<1>5. FirstInv'
  <2>1. CASE toServer = << >>
    <3>1. toServer'[1] = m
      BY <1>1, <2>1, Ways, EmptySeq DEF HostInv
    <3>2. first_bt_control => m.kind = "transfer" \/ device = "closed"
      BY <2>1 DEF CarefulInv, FirstInv
    <3> QED BY <1>1, <3>1, <3>2, StaticsStay DEF CarefulInv, FirstInv, IsTransfer
  <2>2. CASE toServer # << >>
    <3>1. toServer'[1] = toServer[1]
      BY <1>1, <2>2
    <3> QED BY <1>1, <2>2, <3>1, StaticsStay DEF CarefulInv, FirstInv, IsTransfer
  <2> QED BY <2>1, <2>2
<1>6. CommandPlace'
  <2>1. \A j \in DOMAIN toHost : IsPiece(j)' <=> IsPiece(j)
    BY DEF IsPiece
  <2>2. \A i \in DOMAIN toServer' : IsCommand(i)' /\ toServer'[i].cmd \notin Unasked =>
            /\ toServer'[i].cmd = command
            /\ \A j \in DOMAIN toServer' : IsCommand(j)' => j <= i
    BY <1>2 DEF CarefulInv, CommandPlace
  <2>3. link' = "up" => \A j \in DOMAIN toHost' :
          IsPiece(j)' /\ toHost'[j].event.dev = 0 /\ toHost'[j].event.cmd # Default =>
             /\ toHost'[j].event.cmd = command'
             /\ NoCommand'
             /\ last_bt_control' = None
    BY <1>3, <2>1, StaticsStay DEF CarefulInv, CommandPlace
  <2> QED BY <1>3, <2>2, <2>3, StaticsStay DEF CarefulInv, CommandPlace
<1>7. InStep'
  <2>1. CASE device' = device
    BY <2>1, InStepStays
  <2>2. CASE device' # device
    <3>1. Sent' = Nothing /\ partial' = Nothing
      BY <2>2, StaticsStay DEF CarefulInv, HalfSent, Sent
    <3>2. device' = "open" => DOMAIN toHost' = {}
      BY <2>2
    <3> QED BY <3>1, <3>2 DEF InStep
  <2> QED BY <2>1, <2>2
<1> QED BY <1>4, <1>5, <1>6, <1>7 DEF CarefulInv

LEMMA TransferCareful ==
    ASSUME HostInv, CarefulInv, Open \/ Resubmit
    PROVE  CarefulInv'
<1>1. PICK s \in Seqs : toServer' = Append(toServer, Request("transfer", s, None))
  BY DEF Open, Resubmit, SubmitTransfer
<1>2. Request("transfer", s, None).kind = "transfer"
  BY DEF Request
<1>3. CASE Open
  <2>1. toHost = << >>
    BY <1>3 DEF HostInv, ClosedInv, Open
  <2> QED BY <1>1, <1>2, <1>3, <2>1, OtherRequestCareful DEF Open, HostRuns, CarefulInv, HalfSent
<1>4. CASE Resubmit
  BY <1>1, <1>2, <1>4, OtherRequestCareful DEF Resubmit, HostRuns
<1> QED BY <1>3, <1>4

LEMMA CloseCareful ==
    ASSUME HostInv, CarefulInv, careful, Close
    PROVE  CarefulInv'
<1>1. Request("unlink", NoSeq, None).kind = "unlink"
  BY DEF Request
<1>2. NoCommand
  BY DEF Close, Whole, NoCommand, IsCommand
<1> QED BY <1>1, <1>2, OtherRequestCareful DEF Close, HostRuns, Whole

\* A careful host sends a command when the one before has its event, and no
\* scan goes on.
LEMMA SendCommandCareful ==
    ASSUME HostInv, CarefulInv, careful, NEW c \in Commands \cup Unknown, SendCommand(c)
    PROVE  CarefulInv'
<1>1. /\ toServer' = Append(toServer, Request("command", NoSeq, c)) /\ command' = c
      /\ command = None /\ ~scanning /\ device = "open" /\ link = "up"
      /\ UNCHANGED <<serverVars, link, toHost, device, partial>>
  BY DEF SendCommand, HostRuns
<1>2. /\ Request("command", NoSeq, c).kind = "command" /\ Request("command", NoSeq, c).cmd = c
      /\ None \notin Commands \cup Unknown /\ Default \in Commands
  BY BtAssumption DEF Request
<1>3. /\ Len(toServer) \in Nat /\ toServer' # << >>
      /\ DOMAIN toServer = 1 .. Len(toServer) /\ DOMAIN toServer' = 1 .. Len(toServer) + 1
      /\ toServer'[Len(toServer) + 1] = Request("command", NoSeq, c)
      /\ \A i \in 1 .. Len(toServer) : toServer'[i] = toServer[i]
      /\ toServer # << >> => Len(toServer) # 0
  BY <1>1, RequestAppended, Ways, EmptySeq DEF HostInv
<1>4. frag_message_length = 0
  <2>1. \E d \in Commands : buffer = CommandEvent(d)
    BY DEF HostInv, BtInv, FragOK
  <2>2. buffer.cmd # None
    BY <1>2, <2>1, Tables
  <2> QED BY <1>1, <2>2 DEF CarefulInv, HalfSent
<1>5. HalfSent'
  BY <1>1, <1>4, StaticsStay DEF CarefulInv, HalfSent
<1>6. FirstInv'
  <2>1. ASSUME first_bt_control PROVE toServer # << >> /\ IsTransfer(1)
    BY <1>1, <2>1 DEF CarefulInv, FirstInv
  <2>2. first_bt_control => toServer'[1] = toServer[1]
    BY <1>3, <2>1
  <2> QED BY <1>1, <1>3, <2>1, <2>2, StaticsStay DEF CarefulInv, FirstInv, IsTransfer
<1>7. CommandPlace'
  <2>1. \A i \in DOMAIN toServer' :
           \/ i = Len(toServer) + 1 /\ toServer'[i].cmd = c
           \/ i \in DOMAIN toServer /\ toServer'[i] = toServer[i]
    BY <1>2, <1>3
  <2>2. \A i \in DOMAIN toServer : IsCommand(i) => toServer[i].cmd \in Unasked
    <3>1. ASSUME NEW i \in DOMAIN toServer, IsCommand(i), toServer[i].cmd \notin Unasked
          PROVE  FALSE
      <4>1. toServer[i].cmd = None
        BY <1>1, <3>1 DEF CarefulInv, CommandPlace
      <4>2. toServer[i] \in Requests
        BY Ways DEF HostInv
      <4>3. toServer[i].cmd \in Commands \cup Unknown
        BY <3>1, <4>2 DEF Requests, IsCommand
      <4> QED BY <1>2, <4>1, <4>3
    <3> QED BY <3>1
  <2>3. \A i \in DOMAIN toServer' : IsCommand(i)' /\ toServer'[i].cmd \notin Unasked =>
            /\ toServer'[i].cmd = c
            /\ \A j \in DOMAIN toServer' : IsCommand(j)' => j <= i
    <3>1. ASSUME NEW i \in DOMAIN toServer', IsCommand(i)', toServer'[i].cmd \notin Unasked
          PROVE  i = Len(toServer) + 1
      BY <2>1, <2>2, <3>1 DEF IsCommand
    <3> QED BY <1>3, <2>1, <3>1
  <2>4. last_bt_control' \in Unasked \cup {None}
    BY <1>1, StaticsStay DEF CarefulInv, CommandPlace
  <2>5. ASSUME NEW j \in DOMAIN toHost', IsPiece(j)', toHost'[j].event.dev = 0,
               toHost'[j].event.cmd # Default
        PROVE  FALSE
    <3>1. IsPiece(j) /\ toHost[j].event.cmd = None
      BY <1>1, <2>5 DEF CarefulInv, CommandPlace, IsPiece
    <3>2. toHost[j] \in Sound
      BY <1>1, Ways DEF HostInv
    <3>3. toHost[j].event \in Events
      BY <3>1, <3>2 DEF Sound, Messages, IsPiece
    <3>4. 0 \notin DOMAIN DeviceSize
      BY Tables
    <3> QED BY <1>1, <1>2, <2>5, <3>1, <3>3, <3>4 DEF Events, CommandEvent, DeviceEvent
  <2> QED BY <1>1, <1>4, <2>3, <2>4, <2>5, StaticsStay DEF CommandPlace
<1>8. InStep'
  BY <1>1, InStepStays
<1> QED BY <1>5, <1>6, <1>7, <1>8 DEF CarefulInv

\* An unknown command is given up when nothing is on the way.
LEMMA GiveUpCareful ==
    ASSUME HostInv, CarefulInv, GiveUp
    PROVE  CarefulInv'
<1>1. /\ command \in Unknown /\ command' = None /\ toServer = << >> /\ toHost = << >>
      /\ UNCHANGED <<serverVars, link, toServer, toHost, device, partial>>
  BY DEF GiveUp
<1>2. None \notin Commands \cup Unknown /\ Commands \cap Unknown = {}
  BY BtAssumption
<1>3. frag_message_length = 0
  <2>1. \E d \in Commands : buffer = CommandEvent(d)
    BY DEF HostInv, BtInv, FragOK
  <2>2. buffer.cmd \in Commands
    BY <2>1, Tables
  <2> QED BY <1>1, <1>2, <2>2 DEF CarefulInv, HalfSent
<1>4. last_bt_control \in Unasked \cup {None}
  BY <1>1 DEF CarefulInv, CommandPlace, Unasked
<1>5. DOMAIN toServer' = {} /\ DOMAIN toHost' = {} /\ NoCommand'
  BY <1>1 DEF NoCommand
<1>6. HalfSent'
  BY <1>1, <1>3, <1>5, StaticsStay DEF CarefulInv, HalfSent
<1>7. FirstInv'
  BY <1>1, StaticsStay DEF CarefulInv, FirstInv
<1>8. CommandPlace'
  BY <1>1, <1>4, <1>5, StaticsStay DEF CarefulInv, CommandPlace
<1>9. InStep'
  BY <1>1, InStepStays
<1> QED BY <1>6, <1>7, <1>8, <1>9 DEF CarefulInv

LEMMA LinkCareful ==
    ASSUME HostInv, CarefulInv, Connect \/ CloseLink
    PROVE  CarefulInv'
<1>1. /\ UNCHANGED <<serverVars, toServer, toHost, device, command, partial>>
      /\ toServer = << >> /\ device = "closed" /\ toHost = << >>
  <2>1. link # "up"
    BY DEF Connect, CloseLink
  <2>2. device = "closed"
    BY <2>1 DEF HostInv, ClosedInv
  <2> QED BY <2>2 DEF Connect, CloseLink, hostVars, HostInv, ClosedInv
<1>2. DOMAIN toServer' = {} /\ DOMAIN toHost' = {} /\ NoCommand'
  BY <1>1 DEF NoCommand
<1> QED BY <1>1, <1>2, StaticsStay DEF CarefulInv, HalfSent, FirstInv, CommandPlace, InStep

\* A careful host goes with nothing half read and no command on the way: what
\* the server still reads holds no command.
LEMMA PeerGoneCareful ==
    ASSUME HostInv, CarefulInv, careful, PeerGone
    PROVE  CarefulInv'
<1>1. /\ frag_message_length = 0 /\ ~scanning /\ NoCommand /\ command = None
      /\ command' = None /\ partial' = Nothing /\ device' = "closed" /\ link' = "gone"
      /\ UNCHANGED serverVars
  BY DEF PeerGone, HostClosed, Whole, NoCommand, IsCommand
<1>2. PICK n \in 0 .. Len(toServer) :
         LET rest == SubSeq(toServer, 1, n) IN
           \/ toServer' = rest
           \/ /\ n > 0
              /\ rest[n].kind = "command"
  BY DEF PeerGone
<1>3. /\ toServer \in Seq(Requests) /\ Len(toServer) \in Nat
      /\ DOMAIN toServer = 1 .. Len(toServer)
  BY Ways DEF HostInv
<1>4. /\ DOMAIN SubSeq(toServer, 1, n) = 1 .. n
      /\ \A i \in 1 .. n : SubSeq(toServer, 1, n)[i] = toServer[i]
      /\ n = 0 => SubSeq(toServer, 1, n) = << >>
  BY <1>3
<1>5. toServer' = SubSeq(toServer, 1, n)
  BY <1>1, <1>2, <1>3, <1>4 DEF NoCommand, IsCommand
<1>6. \A i \in DOMAIN toServer' : i \in DOMAIN toServer /\ toServer'[i] = toServer[i]
  BY <1>3, <1>4, <1>5
<1>7. NoCommand'
  BY <1>1, <1>6 DEF NoCommand, IsCommand
<1>8. HalfSent'
  BY <1>1, <1>7, StaticsStay DEF CarefulInv, HalfSent
<1>9. FirstInv'
  <2>1. toServer' # << >> => 1 \in DOMAIN toServer'
    BY <1>3, <1>4, <1>5
  <2>2. toServer' # << >> => toServer # << >> /\ toServer'[1] = toServer[1]
    BY <1>3, <1>6, <2>1
  <2> QED BY <1>1, <2>2, StaticsStay DEF CarefulInv, FirstInv, IsTransfer
<1>10. CommandPlace'
  <2>1. last_bt_control \in Unasked \cup {None}
    BY <1>1, BtAssumption DEF CarefulInv, CommandPlace
  <2> QED BY <1>1, <1>7, <2>1, StaticsStay DEF NoCommand, CommandPlace
<1>11. InStep'
  BY <1>1 DEF InStep
<1> QED BY <1>8, <1>9, <1>10, <1>11 DEF CarefulInv

\* The host reads the piece that goes on where it is.
LEMMA ReadsWhole ==
    ASSUME HostInv, NEW m \in Sound, m.kind = "piece", Follows(m), Reads(m.event, m.from, m.size)
    PROVE  /\ fault' = fault /\ partial' = Rest(m)
           /\ IF m.from + m.size = Size(m.event) /\ m.event.dev = 0 /\ m.event.cmd = command
                THEN command' = None
                ELSE command' = command
           /\ Rest(m) = Nothing <=> m.from + m.size = Size(m.event)
<1>1. /\ partial = Nothing => m.from = 0
      /\ partial # Nothing => partial = [event |-> m.event, got |-> m.from]
      /\ m.size # 0
  BY DEF Follows
<1>2. [event |-> m.event, got |-> m.from] =
         IF partial = Nothing THEN [event |-> m.event, got |-> 0] ELSE partial
  BY <1>1
<1>3. /\ fault' = fault
      /\ IF m.from + m.size = Size(m.event)
           THEN /\ partial' = Nothing
                /\ command' = IF m.event.dev = 0 /\ m.event.cmd = command THEN None ELSE command
           ELSE /\ partial' = [event |-> m.event, got |-> m.from + m.size]
                /\ command' = command
  BY <1>1, <1>2 DEF Reads
<1>4. Rest(m) = Nothing <=> m.from + m.size = Size(m.event)
  <2>1. m.from \in Nat /\ m.size \in Nat
    BY Tables DEF Sound, Messages, Inside
  <2>2. m.from + m.size # 0
    BY <1>1, <2>1
  <2> QED BY <2>2 DEF Rest, Nothing
<1> QED BY <1>3, <1>4 DEF Rest

LEMMA PieceCareful ==
    ASSUME HostInv, CarefulInv, ReceivePiece
    PROVE  CarefulInv' /\ fault' = fault
<1> DEFINE m == toHost[1]
<1>1. /\ link = "up" /\ UNCHANGED <<link, toServer, serverVars>>
      /\ 1 \in DOMAIN toHost /\ Head(toHost) = m /\ IsPiece(1) /\ Len(toHost) \in Nat
      /\ DOMAIN toHost' = 1 .. Len(toHost) - 1
      /\ \A j \in DOMAIN toHost' : /\ j + 1 \in DOMAIN toHost /\ toHost'[j] = toHost[j + 1]
                                   /\ j \in Nat /\ j # 0
  BY MessageTaken DEF ReceivePiece, IsPiece, Receives
<1>2. /\ m.seq = urb
      /\ \A j \in DOMAIN toHost : IsPiece(j) => j = 1
  BY <1>1 DEF HostInv, OnePlace
<1>3. NoPiece'
  <2>1. ASSUME NEW j \in DOMAIN toHost', IsPiece(j)' PROVE FALSE
    <3>1. IsPiece(j + 1) /\ j + 1 \in DOMAIN toHost
      BY <1>1, <2>1 DEF IsPiece
    <3>2. j + 1 = 1
      BY <1>2, <3>1
    <3> QED BY <1>1, <3>2
  <2> QED BY <2>1 DEF NoPiece
<1>4. device' = device /\ (NoCommand' <=> NoCommand)
  BY <1>1, <1>2 DEF ReceivePiece, NoCommand, IsCommand
<1>5. FirstInv'
  BY <1>1, <1>4, StaticsStay DEF CarefulInv, FirstInv, IsTransfer
<1>6. \A i \in DOMAIN toServer : IsCommand(i)' <=> IsCommand(i)
  BY <1>1 DEF IsCommand
<1>7. CASE device # "open"
  <2>1. UNCHANGED <<command, partial, fault>>
    BY <1>1, <1>2, <1>7 DEF ReceivePiece
  <2>2. HalfSent'
    BY <1>4, <2>1, StaticsStay, <1>1 DEF CarefulInv, HalfSent
  <2>3. CommandPlace'
    BY <1>1, <1>3, <1>4, <1>6, <2>1, StaticsStay DEF CarefulInv, CommandPlace, NoPiece
  <2>4. InStep'
    BY <1>4, <1>7 DEF InStep
  <2> QED BY <1>5, <2>1, <2>2, <2>3, <2>4 DEF CarefulInv
<1>8. CASE device = "open"
  <2>1. Reads(m.event, m.from, m.size)
    BY <1>1, <1>2, <1>8 DEF ReceivePiece
  <2>2. Follows(m) /\ Rest(m) = Sent
    BY <1>1, <1>8 DEF CarefulInv, InStep, Follows
  <2>3. m \in Sound /\ m.kind = "piece"
    BY <1>1, Ways DEF HostInv, IsPiece
  <2>4. /\ fault' = fault /\ partial' = Sent
        /\ \/ command' = command
           \/ /\ command' = None /\ Sent = Nothing
              /\ m.event.dev = 0 /\ m.event.cmd = command
    <3> HIDE DEF m
    <3> QED BY <2>1, <2>2, <2>3, ReadsWhole
  <2>5. InStep'
    BY <1>1, <1>3, <2>4, StaticsStay DEF InStep, NoPiece
  <2>6. command' # command => /\ frag_message_length = 0
                              /\ command = Default \/ NoCommand
                              /\ command # Default => last_bt_control = None
    <3>1. ASSUME Sent = Nothing PROVE frag_message_length = 0
      BY <3>1 DEF CarefulInv, HalfSent, Sent, Nothing, CommandEvent
    <3> QED BY <1>1, <2>4, <3>1 DEF CarefulInv, CommandPlace
  <2>7. HalfSent'
    BY <1>1, <1>4, <1>8, <2>6, StaticsStay DEF CarefulInv, HalfSent
  <2>8. CommandPlace'
    <3>1. \A i \in DOMAIN toServer' : IsCommand(i)' /\ toServer'[i].cmd \notin Unasked =>
            /\ toServer'[i].cmd = command'
            /\ \A j \in DOMAIN toServer' : IsCommand(j)' => j <= i
      BY <1>1, <1>6, <2>6 DEF CarefulInv, CommandPlace, Unasked, NoCommand
    <3>2. last_bt_control' \notin Unasked \cup {None} =>
            last_bt_control' = command' /\ NoCommand'
      BY <1>4, <2>6, StaticsStay, <1>1 DEF CarefulInv, CommandPlace, Unasked
    <3>3. frag_message_length' # 0 \/ scanning' => last_bt_control' = None /\ NoCommand'
      BY <1>1, <1>4, StaticsStay DEF CarefulInv, CommandPlace
    <3> QED BY <1>3, <3>1, <3>2, <3>3 DEF CommandPlace, NoPiece
  <2> QED BY <1>5, <2>4, <2>5, <2>7, <2>8 DEF CarefulInv
<1> QED BY <1>7, <1>8

LEMMA UnlinkedCareful ==
    ASSUME HostInv, CarefulInv, ReceiveUnlinked
    PROVE  CarefulInv'
<1>1. /\ link = "up" /\ UNCHANGED <<link, toServer, serverVars>> /\ 1 \in DOMAIN toHost
      /\ toHost[1].kind = "unlinked"
  BY MessageTaken DEF ReceiveUnlinked, Receives
<1>2. device = "closing" /\ toServer = << >>
  BY <1>1 DEF HostInv, UnlinkLast
<1>3. device' = "closed" /\ command' = None /\ partial' = Nothing /\ toHost' = << >>
  BY UnlinkedKeeps DEF ReceiveUnlinked, HostClosed, ClosedInv
<1>4. DOMAIN toServer' = {} /\ DOMAIN toHost' = {} /\ NoCommand' /\ toServer' = << >>
  BY <1>1, <1>2, <1>3 DEF NoCommand
<1>5. command = None
  BY <1>2 DEF CarefulInv, HalfSent
<1> QED BY <1>1, <1>2, <1>3, <1>4, <1>5, StaticsStay
        DEF CarefulInv, HalfSent, FirstInv, CommandPlace, InStep

-----------------------------------------------------------------------------
\* A careful host is in step with the controller, and has met no torn event.
InStepInv == careful => CarefulInv /\ fault # "torn"

LEMMA CarefulInitially == Init => InStepInv
<1> SUFFICES ASSUME Init PROVE CarefulInv /\ fault # "torn"
  BY DEF InStepInv
<1>1. DOMAIN toServer = {} /\ DOMAIN toHost = {} /\ toServer = << >>
  BY DEF Init
<1> QED BY <1>1 DEF Init, CarefulInv, HalfSent, FirstInv, CommandPlace, InStep, NoCommand

LEMMA CarefulNext ==
    ASSUME HostInv, InStepInv, [Next]_vars, careful' = careful
    PROVE  InStepInv'
<1> SUFFICES ASSUME careful, CarefulInv, fault # "torn" PROVE CarefulInv' /\ fault' # "torn"
  BY DEF InStepInv
<1>1. CASE UNCHANGED vars
  <2>1. UNCHANGED <<serverVars, link, toServer, toHost, device, command, partial, fault>>
    BY <1>1 DEF vars, hostVars
  <2>2. InStep'
    BY <2>1, InStepStays
  <2>3. /\ NoCommand' <=> NoCommand
        /\ \A i \in DOMAIN toServer : (IsCommand(i)' <=> IsCommand(i))
        /\ IsTransfer(1)' <=> IsTransfer(1)
        /\ \A j \in DOMAIN toHost : IsPiece(j)' <=> IsPiece(j)
    BY <2>1 DEF NoCommand, IsCommand, IsTransfer, IsPiece
  <2> QED BY <2>1, <2>2, <2>3, StaticsStay DEF CarefulInv, HalfSent, FirstInv, CommandPlace
<1>2. CASE Serve
  BY <1>2, ServeCareful
<1>3. CASE ReceivePiece
  BY <1>3, PieceCareful
<1>4. CASE Next /\ ~Serve /\ ~ReceivePiece
  <2>1. fault' = fault
    BY <1>4, FaultKept
  <2>2. CASE Open \/ Resubmit
    BY <2>1, <2>2, TransferCareful
  <2>3. CASE \E c \in Commands \cup Unknown : SendCommand(c)
    BY <2>1, <2>3, SendCommandCareful
  <2>4. CASE GiveUp
    BY <2>1, <2>4, GiveUpCareful
  <2>5. CASE Close
    BY <2>1, <2>5, CloseCareful
  <2>6. CASE Connect \/ CloseLink
    BY <2>1, <2>6, LinkCareful
  <2>7. CASE PeerGone
    BY <2>1, <2>7, PeerGoneCareful
  <2>8. CASE ReceiveUnlinked
    BY <2>1, <2>8, UnlinkedCareful
  <2> QED BY <1>4, <2>2, <2>3, <2>4, <2>5, <2>6, <2>7, <2>8 DEF Next
<1> QED BY <1>1, <1>2, <1>3, <1>4

\* A careful host reads every event from its first byte to its last, over any
\* scans, unlinks and disconnections, for any tables of events and devices.
THEOREM BtWholeEvents == Spec => []WholeEvents
<1>1. Init => HostInv /\ ExpectedOnly /\ InStepInv
  BY HostInitially, CarefulInitially
<1>2. HostInv /\ ExpectedOnly /\ InStepInv /\ [Next /\ UNCHANGED careful]_<<vars, careful>>
         => (HostInv /\ ExpectedOnly /\ InStepInv)'
  BY HostNext, CarefulNext
<1>3. InStepInv => WholeEvents
  BY DEF InStepInv, WholeEvents
<1> QED BY <1>1, <1>2, <1>3, PTL DEF Spec

-----------------------------------------------------------------------------
(* The controller that a careful host sees.                                *)

\* Where the scan is, as the piece on the way has it.  The host waits for no
\* command while a scan is past its first event, and the default event is whole.
ScanPlace ==
    /\ buffer.cmd \notin ScanCommands
    /\ NoPiece /\ scanning => command = None
    /\ link = "up" => \A j \in DOMAIN toHost : IsPiece(j) =>
          LET m == toHost[j] IN
          IF m.event.dev = 0
            THEN /\ scanning <=> m.event.cmd \in ScanCommands
                 /\ scanning => scanning_device_pos = 1
                 /\ m.event.cmd = Default => m.from = 0
            ELSE /\ scanning
                 /\ command = None
                 /\ m.event.dev \in DOMAIN DeviceSize
                 /\ Rest(m) = Nothing => scanning_device_pos = m.event.dev + 1

\* What NextDevice is, whether a piece is on the way or not.
ScanNext ==
    IF scanning /\ scanning_device_pos <= Len(DeviceSize) THEN scanning_device_pos ELSE 0

DeviceOf ==
    /\ NoPiece => NextDevice = ScanNext
    /\ \A j \in DOMAIN toHost : IsPiece(j) => NextDevice = toHost[j].event.dev

LEMMA NextDeviceIs == HostInv => DeviceOf
<1> SUFFICES ASSUME HostInv PROVE DeviceOf
  OBVIOUS
<1> DEFINE pieces == {i \in DOMAIN toHost : toHost[i].kind = "piece"}
<1>1. NoPiece => pieces = {}
  BY DEF NoPiece, IsPiece
<1>2. ASSUME NEW j \in DOMAIN toHost, IsPiece(j) PROVE NextDevice = toHost[j].event.dev
  <2>1. link = "up"
    BY <1>2 DEF HostInv, ClosedInv
  <2>2. j \in pieces /\ \A i \in pieces : i = j
    BY <1>2, <2>1 DEF HostInv, OnePlace, IsPiece
  <2>3. (CHOOSE i \in pieces : TRUE) = j
    BY <2>2
  <2> QED BY <2>2, <2>3 DEF NextDevice
<1>3. NoPiece => NextDevice = ScanNext
  BY <1>1 DEF NextDevice, ScanNext
<1> QED BY <1>2, <1>3 DEF DeviceOf

LEMMA NextDeviceIsNext == HostInv' => DeviceOf'
BY NextDeviceIs, PTL

\* When no scan goes on none is seen.
NoneSeen == ~scanning => NextDevice = 0

LEMMA NoScanSeen == HostInv /\ ScanPlace => NoneSeen
<1> SUFFICES ASSUME HostInv, ScanPlace, ~scanning PROVE NextDevice = 0
  BY DEF NoneSeen
<1>1. CASE NoPiece
  BY <1>1, NextDeviceIs DEF DeviceOf, ScanNext
<1>2. ASSUME NEW j \in DOMAIN toHost, IsPiece(j) PROVE NextDevice = 0
  <2>1. link = "up"
    BY <1>2 DEF HostInv, ClosedInv
  <2>2. toHost[j].event.dev = 0
    BY <1>2, <2>1 DEF ScanPlace
  <2> QED BY <1>2, <2>2, NextDeviceIs DEF DeviceOf
<1> QED BY <1>1, <1>2 DEF NoPiece

LEMMA NoScanSeenNext == HostInv' /\ ScanPlace' => NoneSeen'
BY NoScanSeen, PTL

-----------------------------------------------------------------------------
(* The steps of the server are not seen.                                   *)

\* What a step of the server does to the scan and to the way to the host.
SendsAnswer ==
    \E m : /\ m.kind = "piece" /\ Send(m) /\ NoPiece /\ m.event.dev = 0
           /\ ~scanning /\ (scanning' <=> m.event.cmd \in ScanCommands)
           /\ scanning' => scanning_device_pos' = 1
           /\ m.event.cmd = Default => m.from = 0
           /\ buffer'.cmd \notin ScanCommands

SendsDevice ==
    \E m : /\ m.kind = "piece" /\ Send(m) /\ NoPiece /\ scanning /\ scanning'
           /\ m.event.dev = scanning_device_pos /\ scanning_device_pos \in DOMAIN DeviceSize
           /\ Rest(m) = Nothing => scanning_device_pos' = scanning_device_pos + 1
           /\ buffer' = buffer

SendsNoPiece ==
    /\ UNCHANGED <<scanning_device_pos, buffer>>
    /\ \/ scanning' = scanning
       \/ ~scanning' /\ NoPiece /\ scanning_device_pos > Len(DeviceSize)
    /\ toHost' = toHost

LEMMA AnswerSends ==
    ASSUME HostInv, ScanPlace, NEW c \in Commands, NEW s, Answer(c, s), NoPiece, ~scanning
    PROVE  SendsAnswer
<1> DEFINE m == Piece(s, CommandEvent(c), 0, Least(EventSize[c], MaxControl))
<1>1. m.kind = "piece" /\ m.event.dev = 0 /\ m.event.cmd = c /\ m.from = 0
  BY DEF Piece, CommandEvent
<1>2. Send(m)
  BY DEF Answer
<1>3. /\ scanning' <=> c \in ScanCommands
      /\ scanning' => scanning_device_pos' = 1
      /\ buffer'.cmd \notin ScanCommands
  <2>1. CASE c \in ScanCommands
    BY <2>1 DEF Answer, fragVars, ScanPlace
  <2>2. CASE c \notin ScanCommands
    BY <2>2 DEF Answer, scanVars, CommandEvent
  <2> QED BY <2>1, <2>2
<1> HIDE DEF m
<1> QED BY <1>1, <1>2, <1>3 DEF SendsAnswer

LEMMA TransferSends ==
    ASSUME HostInv, CarefulInv, ScanPlace, ServeTransfer, link = "up"
    PROVE  SendsAnswer \/ SendsDevice \/ SendsNoPiece
<1> DEFINE s == Head(toServer).seq
<1>1. NoPiece
  <2>1. Serve /\ toServer[1].kind = "transfer"
    BY RequestTaken DEF Serve, ServeTransfer, Serving
  <2> QED BY <2>1, ServedNoPiece
<1>2. CASE TransferMeetsCommand(s)
  <2>1. CASE last_bt_control \in Commands
    <3>1. ~scanning
      BY <2>1, BtAssumption DEF CarefulInv, CommandPlace
    <3>2. Answer(last_bt_control, s)
      BY <1>2, <2>1 DEF TransferMeetsCommand
    <3> HIDE DEF s
    <3> QED BY <1>1, <2>1, <3>1, <3>2, AnswerSends
  <2>2. CASE last_bt_control \notin Commands
    BY <1>2, <2>2 DEF TransferMeetsCommand, Drop, serverVars, scanVars, fragVars, SendsNoPiece
  <2> QED BY <2>1, <2>2
<1>3. CASE FirstEvent(s)
  <2>1. ~scanning /\ Answer(Default, s) /\ Default \in Commands
    BY <1>3, BtAssumption DEF FirstEvent, CarefulInv, FirstInv
  <2> HIDE DEF s
  <2> QED BY <1>1, <2>1, AnswerSends
<1>4. CASE NextFragment(s)
  <2> DEFINE n == Least(frag_message_length - frag_message_pos, MaxControl)
             m == Piece(s, buffer, frag_message_pos, n)
  <2>1. /\ m.kind = "piece" /\ m.event = buffer /\ Send(m)
        /\ UNCHANGED <<buffer, scanning, scanning_device_pos>>
    BY <1>4 DEF NextFragment, Piece, scanVars
  <2>2. ~scanning /\ buffer.cmd # Default
    BY <1>4 DEF NextFragment, CarefulInv, HalfSent
  <2>3. buffer.dev = 0 /\ buffer.cmd \notin ScanCommands
    BY DEF HostInv, BtInv, FragOK, CommandEvent, ScanPlace
  <2> HIDE DEF m
  <2> QED BY <1>1, <2>1, <2>2, <2>3 DEF SendsAnswer
<1>5. CASE ScanEnd(s)
  BY <1>1, <1>5 DEF ScanEnd, fragVars, SendsNoPiece
<1>6. CASE ScanFragment(s)
  <2> DEFINE d == DeviceSize[scanning_device_pos]
             n == Least(d - scanning_frag_device_pos, MaxControl)
             m == Piece(s, DeviceEvent(scanning_device_pos), scanning_frag_device_pos, n)
  <2>1. /\ scanning /\ scanning_device_pos \in DOMAIN DeviceSize
        /\ scanning_frag_device_pos \in Nat /\ MaxControl \in Nat \ {0} /\ d \in Nat \ {0}
        /\ scanning_frag_device_pos # 0 => scanning_frag_device_pos < d
    BY <1>6, InScanIs, Tables DEF ScanFragment
  <2>2. /\ m.kind = "piece" /\ m.event.dev = scanning_device_pos /\ Send(m)
        /\ UNCHANGED <<buffer, scanning>>
    BY <1>6 DEF ScanFragment, Piece, DeviceEvent, fragVars
  <2>3. Rest(m) = Nothing => scanning_device_pos' = scanning_device_pos + 1
    <3>1. /\ Size(m.event) = d /\ m.from = scanning_frag_device_pos /\ m.size = n
      BY <2>1, Tables DEF Piece
    <3>2. scanning_frag_device_pos + n # 0
      BY <2>1 DEF Least
    <3>3. Rest(m) = Nothing => scanning_frag_device_pos + n = d
      BY <3>1, <3>2 DEF Rest, Nothing
    <3> QED BY <1>6, <3>3 DEF ScanFragment
  <2> HIDE DEF m
  <2> QED BY <1>1, <2>1, <2>2, <2>3 DEF SendsDevice
<1>7. CASE ScanReport(s)
  <2> DEFINE m == Piece(s, DeviceEvent(scanning_device_pos), 0, DeviceSize[scanning_device_pos])
  <2>1. scanning /\ scanning_device_pos \in DOMAIN DeviceSize
    BY <1>7, InScanIs, Tables DEF ScanReport
  <2>2. /\ m.kind = "piece" /\ m.event.dev = scanning_device_pos /\ Send(m)
        /\ UNCHANGED <<buffer, scanning>> /\ scanning_device_pos' = scanning_device_pos + 1
    BY <1>7 DEF ScanReport, Piece, DeviceEvent, fragVars
  <2> HIDE DEF m
  <2> QED BY <1>1, <2>1, <2>2 DEF SendsDevice
<1>8. CASE StoreTransfer(s)
  BY <1>8 DEF StoreTransfer, scanVars, fragVars, SendsNoPiece
<1>9. CASE ReplaceTransfer(s)
  BY <1>9 DEF ReplaceTransfer, scanVars, fragVars, SendsNoPiece
<1> QED
  BY <1>2, <1>3, <1>4, <1>5, <1>6, <1>7, <1>8, <1>9 DEF ServeTransfer

LEMMA CommandSends ==
    ASSUME HostInv, CarefulInv, ScanPlace, ServeCommand, link = "up"
    PROVE  SendsAnswer \/ SendsNoPiece
<1> DEFINE c == Head(toServer).cmd
<1>1. Serve /\ IsCommand(1)
  BY RequestTaken DEF Serve, ServeCommand, Serving, IsCommand
<1>2. ~scanning
  BY <1>1, RestOfWay
<1>3. CASE CommandMeetsTransfer(c)
  <2>1. CASE c \in Commands
    <3>1. NoPiece
      BY <1>1, <1>3, ServedNoPiece DEF CommandMeetsTransfer
    <3>2. Answer(c, last_bt_control_seq)
      BY <1>3, <2>1 DEF CommandMeetsTransfer
    <3> HIDE DEF c
    <3> QED BY <1>2, <2>1, <3>1, <3>2, AnswerSends
  <2>2. CASE c \notin Commands
    BY <1>3, <2>2 DEF CommandMeetsTransfer, Drop, serverVars, scanVars, fragVars, SendsNoPiece
  <2> QED BY <2>1, <2>2
<1>4. CASE StoreCommand(c)
  BY <1>4 DEF StoreCommand, scanVars, fragVars, SendsNoPiece
<1>5. CASE CommandMeetsCommand
  BY <1>5 DEF CommandMeetsCommand, Drop, serverVars, scanVars, fragVars, SendsNoPiece
<1> QED BY <1>3, <1>4, <1>5 DEF ServeCommand

\* A piece that is sent is of the device that was to come.
LEMMA SendsSeen ==
    ASSUME HostInv, CarefulInv, ScanPlace, Serve, link = "up", SendsAnswer \/ SendsDevice
    PROVE  ScanPlace' /\ NextDevice' = NextDevice
<1>1. UNCHANGED <<link, command>> /\ DeviceOf /\ DeviceOf'
  BY RestOfWay, ServeKeeps, NextDeviceIs, NextDeviceIsNext
<1>2. ASSUME NEW m, m.kind = "piece", Send(m), NoPiece
      PROVE  /\ \A j \in DOMAIN toHost' : IsPiece(j)' => toHost'[j] = m
             /\ ~NoPiece'
             /\ NextDevice' = m.event.dev
  <2>1. /\ \A j \in DOMAIN toHost' : IsPiece(j)' => toHost'[j] = m
        /\ ~NoPiece'
    BY <1>2, NewPiece
  <2> QED BY <1>1, <2>1 DEF DeviceOf, NoPiece
<1>3. CASE SendsAnswer
  <2>1. PICK m : /\ m.kind = "piece" /\ Send(m) /\ NoPiece /\ m.event.dev = 0
                 /\ ~scanning /\ (scanning' <=> m.event.cmd \in ScanCommands)
                 /\ scanning' => scanning_device_pos' = 1
                 /\ m.event.cmd = Default => m.from = 0
                 /\ buffer'.cmd \notin ScanCommands
    BY <1>3 DEF SendsAnswer
  <2>2. NextDevice = 0 /\ NextDevice' = 0
    BY <1>1, <1>2, <2>1 DEF DeviceOf, ScanNext
  <2>3. ScanPlace'
    BY <1>1, <1>2, <2>1 DEF ScanPlace
  <2> QED BY <2>2, <2>3
<1>4. CASE SendsDevice
  <2>1. PICK m : /\ m.kind = "piece" /\ Send(m) /\ NoPiece /\ scanning /\ scanning'
                 /\ m.event.dev = scanning_device_pos /\ scanning_device_pos \in DOMAIN DeviceSize
                 /\ Rest(m) = Nothing => scanning_device_pos' = scanning_device_pos + 1
                 /\ buffer' = buffer
    BY <1>4 DEF SendsDevice
  <2>2. scanning_device_pos <= Len(DeviceSize) /\ scanning_device_pos # 0
    BY <2>1, Tables
  <2>3. NextDevice' = NextDevice
    BY <1>1, <1>2, <2>1, <2>2 DEF DeviceOf, ScanNext
  <2>4. ScanPlace'
    <3>1. \A j \in DOMAIN toHost' : IsPiece(j)' => toHost'[j] = m
      BY <1>2, <2>1
    <3>2. Rest(m)' = Rest(m) /\ command = None
      BY <2>1 DEF Rest, ScanPlace
    <3>3. buffer'.cmd \notin ScanCommands /\ ~NoPiece'
      BY <1>2, <2>1 DEF ScanPlace
    <3>4. ASSUME NEW j \in DOMAIN toHost', IsPiece(j)'
          PROVE  /\ toHost'[j].event.dev # 0 /\ toHost'[j].event.dev \in DOMAIN DeviceSize
                 /\ Rest(toHost'[j]) = Nothing =>
                       scanning_device_pos' = toHost'[j].event.dev + 1
      BY <2>1, <2>2, <3>1, <3>4
    <3> QED BY <1>1, <2>1, <3>2, <3>3, <3>4 DEF ScanPlace
  <2> QED BY <2>3, <2>4
<1> QED BY <1>3, <1>4

\* Nothing of the scan, or of the way to the host, changes that is seen.
LEMMA SameSeen ==
    ASSUME HostInv, HostInv', ScanPlace, link' = link \/ device = "closed",
           UNCHANGED <<scanning_device_pos, buffer, command>>,
           \/ scanning' = scanning
           \/ ~scanning' /\ NoPiece /\ scanning_device_pos > Len(DeviceSize),
           toHost' = toHost
    PROVE  ScanPlace' /\ NextDevice' = NextDevice
<1>1. DeviceOf /\ DeviceOf'
  BY NextDeviceIs, NextDeviceIsNext
<1>2. \A j \in DOMAIN toHost : IsPiece(j)' <=> IsPiece(j)
  BY DEF IsPiece
<1>3. NoPiece' <=> NoPiece
  BY <1>2 DEF NoPiece
<1>4. scanning_device_pos \in Nat /\ Len(DeviceSize) \in Nat
  BY Tables DEF HostInv, BtInv, ScanOK
<1>5. ScanPlace'
  <2>1. CASE device = "closed"
    <3>1. DOMAIN toHost = {}
      BY <2>1 DEF HostInv, ClosedInv
    <3> QED BY <1>3, <3>1 DEF ScanPlace
  <2>2. CASE link' = link
    <3>1. CASE scanning' = scanning
      BY <1>2, <1>3, <2>2, <3>1 DEF ScanPlace, Rest
    <3>2. CASE ~scanning' /\ NoPiece
      BY <1>2, <2>2, <3>2 DEF ScanPlace, NoPiece
    <3> QED BY <3>1, <3>2
  <2> QED BY <2>1, <2>2
<1>6. NoPiece => NextDevice' = NextDevice
  BY <1>1, <1>3, <1>4 DEF DeviceOf, ScanNext
<1>7. ASSUME NEW j \in DOMAIN toHost, IsPiece(j) PROVE NextDevice' = NextDevice
  BY <1>1, <1>2, <1>7 DEF DeviceOf
<1> QED BY <1>5, <1>6, <1>7 DEF NoPiece

LEMMA ServeSeen ==
    ASSUME HostInv, CarefulInv, ScanPlace, Serve
    PROVE  ScanPlace' /\ NextDevice' = NextDevice /\ UNCHANGED <<command, partial>>
<1>1. UNCHANGED <<link, device, command, partial>> /\ HostInv' /\ CarefulInv'
  BY RestOfWay, ServeKeeps, ServeCareful
<1>2. CASE link = "up" /\ (ServeTransfer \/ ServeCommand)
  <2>1. CASE SendsAnswer \/ SendsDevice
    BY <1>1, <1>2, <2>1, SendsSeen
  <2>2. CASE SendsNoPiece
    BY <1>1, <2>2, SameSeen DEF SendsNoPiece
  <2> QED BY <1>2, <2>1, <2>2, TransferSends, CommandSends
<1>3. CASE link # "up" \/ ServeUnlink
  <2>1. device # "open"
    <3>1. CASE ServeUnlink
      <4>1. toServer[1].kind = "unlink"
        BY <3>1, RequestTaken DEF ServeUnlink, Serving
      <4> QED BY <4>1, RequestTaken, Ways, Zenon DEF HostInv, UnlinkLast, ClosedInv
    <3>2. CASE link # "up"
      BY <3>2 DEF HostInv, ClosedInv
    <3> QED BY <1>3, <3>1, <3>2
  <2>2. ~scanning /\ ~scanning' /\ command = None
    BY <1>1, <2>1 DEF CarefulInv, HalfSent
  <2>3. buffer'.cmd \notin ScanCommands
    <3>1. CASE ServeTransfer \/ ServeCommand
      <4>1. \/ buffer' = buffer
            \/ \E c \in Commands \ ScanCommands : buffer' = CommandEvent(c)
        <5>1. ASSUME NEW c \in Commands, NEW s, Answer(c, s)
              PROVE  buffer' = buffer \/ \E d \in Commands \ ScanCommands : buffer' = CommandEvent(d)
          BY <5>1 DEF Answer, fragVars
        <5>2. Default \in Commands
          BY BtAssumption
        <5> QED BY <3>1, <5>1, <5>2 DEF ServeTransfer, TransferMeetsCommand, FirstEvent,
              NextFragment, ScanEnd, ScanFragment, ScanReport, StoreTransfer, ReplaceTransfer,
              ServeCommand, CommandMeetsTransfer, StoreCommand, CommandMeetsCommand, Drop,
              serverVars, fragVars
      <4> QED BY <4>1 DEF ScanPlace, CommandEvent
    <3>2. CASE ServeUnlink
      BY <3>2 DEF ServeUnlink, fragVars, ScanPlace
    <3> QED BY <3>1, <3>2 DEF Serve
  <2>4. link = "up" => \A j \in DOMAIN toHost' : IsPiece(j)' =>
            j \in DOMAIN toHost /\ toHost'[j] = toHost[j] /\ IsPiece(j)
    <3>1. ASSUME link = "up", ServeUnlink
          PROVE  \A j \in DOMAIN toHost' : IsPiece(j)' =>
                    j \in DOMAIN toHost /\ toHost'[j] = toHost[j] /\ IsPiece(j)
      <4>1. toHost' = Append(toHost, [kind |-> "unlinked"]) /\ toHost \in Seq(Sound)
        BY <3>1, Ways DEF ServeUnlink, Send, HostInv
      <4>2. /\ Len(toHost) \in Nat /\ DOMAIN toHost = 1 .. Len(toHost)
            /\ DOMAIN toHost' = 1 .. Len(toHost) + 1
            /\ toHost'[Len(toHost) + 1] = [kind |-> "unlinked"]
            /\ \A j \in 1 .. Len(toHost) : toHost'[j] = toHost[j]
        BY <4>1, AppendIs
      <4> QED BY <4>2 DEF IsPiece
    <3> QED BY <1>3, <3>1
  <2>5. ScanPlace'
    BY <1>1, <2>2, <2>3, <2>4 DEF ScanPlace
  <2>6. NextDevice = 0 /\ NextDevice' = 0
    BY <1>1, <2>2, <2>5, NoScanSeen, NoScanSeenNext DEF NoneSeen
  <2> QED BY <1>1, <2>5, <2>6
<1> QED BY <1>1, <1>2, <1>3 DEF Serve

-----------------------------------------------------------------------------
(* The steps of the host are those of HciController.                       *)

\* A piece ends where the controller is, so inside the event it is of.
LEMMA PieceEnds ==
    ASSUME HostInv, CarefulInv, NEW m \in Sound, m.kind = "piece", Follows(m)
    PROVE  /\ m.event \in Events /\ m.from \in Nat /\ m.size \in Nat \ {0}
           /\ m.from + m.size <= Size(m.event)
           /\ partial.got = m.from
           /\ partial = Nothing \/ partial.event = m.event
           /\ Rest(m) # Nothing => /\ Rest(m) = [event |-> m.event, got |-> m.from + m.size]
                                   /\ \/ m.event = buffer /\ frag_message_length # 0
                                      \/ /\ m.event = DeviceEvent(scanning_device_pos)
                                         /\ frag_message_length = 0
                                         /\ Long(scanning_device_pos) /\ scanning
<1>1. m.event \in Events /\ m.from \in Nat /\ m.size \in Nat \ {0}
  BY Tables DEF Sound, Messages, Inside, Follows
<1>2. partial.got = m.from /\ (partial = Nothing \/ partial.event = m.event)
  BY DEF Follows, Nothing
<1>3. CASE m.from + m.size = Size(m.event)
  BY <1>1, <1>2, <1>3 DEF Rest
<1>4. CASE m.from + m.size # Size(m.event)
  <2>1. Rest(m) = [event |-> m.event, got |-> m.from + m.size] /\ Rest(m) = Sent
    BY <1>4 DEF Rest, Follows
  <2>2. Sent # Nothing
    BY <1>1, <2>1 DEF Nothing
  <2>3. CASE frag_message_length # 0
    <3>1. m.event = buffer /\ m.from + m.size = frag_message_pos
      BY <2>1, <2>3 DEF Sent
    <3>2. /\ frag_message_pos < frag_message_length /\ frag_message_length = Size(buffer)
          /\ frag_message_length \in Nat
      BY <2>3 DEF HostInv, BtInv, FragOK, CarefulInv, HalfSent
    <3> QED BY <1>1, <1>2, <2>1, <2>3, <3>1, <3>2
  <2>4. CASE frag_message_length = 0
    <3>1. /\ scanning_frag_device_pos # 0
          /\ m.event = DeviceEvent(scanning_device_pos)
          /\ m.from + m.size = scanning_frag_device_pos
      BY <2>1, <2>2, <2>4 DEF Sent
    <3>2. /\ scanning_frag_device_pos < DeviceSize[scanning_device_pos]
          /\ Long(scanning_device_pos) /\ scanning
      BY <3>1 DEF CarefulInv, HalfSent
    <3>3. Size(m.event) = DeviceSize[scanning_device_pos]
      BY <3>1, <3>2, Tables DEF Long
    <3>4. m.from + m.size <= Size(m.event)
      BY <1>1, <3>1, <3>2, <3>3, Tables DEF Long
    <3> QED BY <1>1, <1>2, <2>1, <2>4, <3>1, <3>2, <3>4
  <2> QED BY <2>3, <2>4
<1> QED BY <1>3, <1>4

\* What is read goes on as HciController has it.
LEMMA ReadGoes ==
    ASSUME HostInv, CarefulInv, careful, careful',
           NEW m \in Sound, m.kind = "piece", Follows(m), partial' = Rest(m),
           NEW e, e = m.event, NEW last \in BOOLEAN, last <=> Rest(m) = Nothing
    PROVE  Seen!Goes(e, Size(e), last)
<1>1. /\ m.from \in Nat /\ m.size \in Nat \ {0} /\ m.from + m.size <= Size(e)
      /\ partial.got = m.from
      /\ partial = Nothing \/ partial.event = e
      /\ Rest(m) # Nothing => Rest(m) = [event |-> e, got |-> m.from + m.size]
  BY PieceEnds
<1>2. last <=> m.from + m.size = Size(e)
  <2>1. m.from + m.size # 0
    BY <1>1
  <2> QED BY <2>1 DEF Rest, Nothing
<1>3. Seen!Nothing = Nothing
  BY DEF Seen!Nothing, Seen!Event, Nothing, CommandEvent
<1>4. Size(e) \in Int
  BY PieceEnds, BtAssumption, Tables DEF Events
<1>5. m.size \in 1 .. Size(e) - partial.got
  BY <1>1, <1>4
<1>6. partial' = IF last THEN Nothing ELSE [event |-> e, got |-> partial.got + m.size]
  BY <1>1
<1>7. \E n \in 1 .. Size(e) - partial.got :
         /\ last <=> partial.got + n = Size(e)
         /\ partial' = IF last THEN Nothing ELSE [event |-> e, got |-> partial.got + n]
  BY <1>1, <1>2, <1>5, <1>6
<1> QED BY <1>1, <1>3, <1>7 DEF Seen!Goes

LEMMA PieceSeen ==
    ASSUME HostInv, CarefulInv, ScanPlace, ReceivePiece, HostInv', careful, careful'
    PROVE  /\ ScanPlace'
           /\ \/ Seen!AnswerGoes
              \/ Seen!DeviceGoes
              \/ UNCHANGED <<command, partial>> /\ NextDevice' = NextDevice
<1> DEFINE m == toHost[1]
<1>1. /\ link = "up" /\ UNCHANGED <<link, toServer, serverVars>>
      /\ 1 \in DOMAIN toHost /\ Head(toHost) = m /\ IsPiece(1) /\ Len(toHost) \in Nat
      /\ DOMAIN toHost' = 1 .. Len(toHost) - 1
      /\ \A j \in DOMAIN toHost' : /\ j + 1 \in DOMAIN toHost /\ toHost'[j] = toHost[j + 1]
                                   /\ j \in Nat /\ j # 0
  BY MessageTaken DEF ReceivePiece, IsPiece, Receives
<1>2. /\ m.seq = urb
      /\ \A j \in DOMAIN toHost : IsPiece(j) => j = 1
  BY <1>1 DEF HostInv, OnePlace
<1>3. NoPiece'
  <2>1. ASSUME NEW j \in DOMAIN toHost', IsPiece(j)' PROVE FALSE
    <3>1. IsPiece(j + 1) /\ j + 1 \in DOMAIN toHost
      BY <1>1, <2>1 DEF IsPiece
    <3>2. j + 1 = 1
      BY <1>2, <3>1
    <3> QED BY <1>1, <3>2
  <2> QED BY <2>1 DEF NoPiece
<1>4. /\ NextDevice = m.event.dev
      /\ NextDevice' = ScanNext'
      /\ ScanNext' = ScanNext
  BY <1>1, <1>3, NextDeviceIs, NextDeviceIsNext, StaticsStay DEF DeviceOf, ScanNext
<1>5. device' = device
  BY <1>1, <1>2 DEF ReceivePiece
<1>6. (scanning => command' = None) => ScanPlace'
  BY <1>1, <1>3, StaticsStay DEF ScanPlace, NoPiece
<1>7. CASE device # "open"
  <2>1. UNCHANGED <<command, partial>>
    BY <1>1, <1>2, <1>7 DEF ReceivePiece
  <2>2. ~scanning
    BY <1>7 DEF CarefulInv, HalfSent
  <2>3. m.event.dev = 0
    BY <1>1, <2>2 DEF ScanPlace
  <2> QED BY <1>4, <1>6, <2>1, <2>2, <2>3 DEF ScanNext
<1>8. CASE device = "open"
  <2>1. m \in Sound /\ m.kind = "piece" /\ Follows(m) /\ Reads(m.event, m.from, m.size)
    BY <1>1, <1>2, <1>8, Ways DEF HostInv, IsPiece, CarefulInv, InStep, ReceivePiece
  <2>2. /\ partial' = Rest(m)
        /\ IF Rest(m) = Nothing /\ m.event.dev = 0 /\ m.event.cmd = command
             THEN command' = None
             ELSE command' = command
    <3> HIDE DEF m
    <3> QED BY <2>1, ReadsWhole
  <2>3. /\ m.event \in Events
        /\ Rest(m) # Nothing => \/ m.event = buffer /\ frag_message_length # 0
                                \/ /\ m.event = DeviceEvent(scanning_device_pos)
                                   /\ frag_message_length = 0
                                   /\ Long(scanning_device_pos) /\ scanning
    <3> HIDE DEF m
    <3> QED BY <2>1, PieceEnds
  <2>4. \A last \in BOOLEAN : (last <=> Rest(m) = Nothing) =>
            Seen!Goes(m.event, Size(m.event), last)
    <3> HIDE DEF m
    <3> QED BY <2>1, <2>2, ReadGoes
  <2>5. 0 \notin DOMAIN DeviceSize
    BY Tables
  <2>6. CASE m.event.dev # 0
    <3>1. /\ scanning /\ command = None /\ m.event.dev \in DOMAIN DeviceSize
          /\ Rest(m) = Nothing => scanning_device_pos = m.event.dev + 1
      BY <1>1, <2>6 DEF ScanPlace
    <3>2. /\ m.event = Seen!Event(None, m.event.dev) /\ Size(m.event) = DeviceSize[m.event.dev]
      BY <2>3, <2>6, <2>5 DEF Events, CommandEvent, DeviceEvent, Seen!Event, Size
    <3>3. command' = None
      BY <2>2, <3>1
    <3>4. CASE Rest(m) = Nothing
      <4>1. /\ Seen!Goes(Seen!Event(None, m.event.dev), DeviceSize[m.event.dev], TRUE)
        BY <2>4, <3>2, <3>4
      <4>2. NextDevice' = IF m.event.dev = Len(DeviceSize) THEN 0 ELSE m.event.dev + 1
        BY <1>4, <3>1, <3>4, Tables DEF ScanNext
      <4>3. Seen!DeviceGoes
        BY <1>4, <2>6, <3>1, <3>3, <4>1, <4>2 DEF Seen!DeviceGoes
      <4> QED BY <1>6, <3>3, <4>3
    <3>5. CASE Rest(m) # Nothing
      <4>1. Seen!Goes(Seen!Event(None, m.event.dev), DeviceSize[m.event.dev], FALSE)
        BY <2>4, <3>2, <3>5
      <4>2. m.event = DeviceEvent(scanning_device_pos) /\ Long(scanning_device_pos)
        BY <2>3, <2>6, <3>5 DEF HostInv, BtInv, FragOK, CommandEvent
      <4>3. NextDevice' = m.event.dev
        BY <1>4, <3>1, <4>2, Tables DEF ScanNext, Long, DeviceEvent
      <4>4. Seen!DeviceGoes
        BY <1>4, <2>6, <3>1, <3>3, <4>1, <4>3 DEF Seen!DeviceGoes
      <4> QED BY <1>6, <3>3, <4>4
    <3> QED BY <3>4, <3>5
  <2>7. CASE m.event.dev = 0
    <3>1. /\ scanning <=> m.event.cmd \in ScanCommands
          /\ scanning => scanning_device_pos = 1
          /\ m.event.cmd = Default => m.from = 0
          /\ m.event.cmd # Default => m.event.cmd = command
      BY <1>1, <2>7 DEF ScanPlace, CarefulInv, CommandPlace
    <3>2. \E c \in Commands : m.event = CommandEvent(c)
      BY <2>3, <2>5, <2>7 DEF Events, DeviceEvent
    <3>3. /\ m.event = Seen!Event(m.event.cmd, 0) /\ Size(m.event) = EventSize[m.event.cmd]
          /\ m.event.cmd \in Commands
      BY <3>2, Tables DEF CommandEvent, Seen!Event
    <3>4. Rest(m) # Nothing => m.event = buffer /\ frag_message_length # 0 /\ ~scanning
      BY <2>3, <2>5, <2>7 DEF Long, DeviceEvent, CarefulInv, HalfSent
    <3>5. CASE m.event.cmd = command /\ Rest(m) = Nothing
      <4>1. command' = None
        BY <2>2, <2>7, <3>5
      <4>2. Seen!Goes(Seen!Event(command, 0), EventSize[command], TRUE)
        BY <2>4, <3>3, <3>5
      <4>3. NextDevice' = IF command \in ScanCommands /\ DeviceSize # << >> THEN 1 ELSE 0
        <5>1. DeviceSize # << >> <=> 1 <= Len(DeviceSize)
          BY BtAssumption, EmptySeq, Tables
        <5> QED BY <1>4, <3>1, <3>5, <5>1 DEF ScanNext
      <4>4. Seen!AnswerGoes
        BY <1>4, <2>7, <3>3, <3>5, <4>1, <4>2, <4>3 DEF Seen!AnswerGoes
      <4> QED BY <1>6, <4>1, <4>4
    <3>6. CASE m.event.cmd = command /\ Rest(m) # Nothing
      <4>1. command' = command /\ ~scanning
        BY <2>2, <3>4, <3>6
      <4>2. Seen!Goes(Seen!Event(command, 0), EventSize[command], FALSE)
        BY <2>4, <3>3, <3>6
      <4>3. NextDevice' = 0
        BY <1>4, <4>1 DEF ScanNext
      <4>4. Seen!AnswerGoes
        BY <1>4, <2>7, <3>3, <3>6, <4>1, <4>2, <4>3 DEF Seen!AnswerGoes
      <4> QED BY <1>6, <4>1, <4>4
    <3>7. CASE m.event.cmd # command
      <4>1. m.event.cmd = Default /\ m.from = 0 /\ ~scanning
        BY <3>1, <3>7, BtAssumption
      <4>2. Rest(m) = Nothing
        BY <3>4, <4>1 DEF CarefulInv, HalfSent
      <4>3. partial = Nothing
        BY <2>1, <3>2, <4>1 DEF Follows, Nothing, CommandEvent
      <4>4. UNCHANGED <<command, partial>>
        BY <2>2, <3>7, <4>2, <4>3
      <4>5. NextDevice' = NextDevice
        BY <1>4, <2>7, <4>1 DEF ScanNext
      <4> QED BY <1>6, <4>1, <4>4, <4>5
    <3> QED BY <3>5, <3>6, <3>7
  <2> QED BY <2>6, <2>7
<1> QED BY <1>7, <1>8

\* A command is sent when nothing is half read, and no scan goes on.
LEMMA SendCommandSeen ==
    ASSUME HostInv, CarefulInv, ScanPlace, careful, careful', HostInv',
           NEW c \in Commands \cup Unknown, SendCommand(c)
    PROVE  ScanPlace' /\ Seen!Ask(c)
<1>1. /\ command' = c /\ command = None /\ ~scanning /\ device = "open" /\ link = "up"
      /\ UNCHANGED <<serverVars, link, toHost, device, partial>>
  BY DEF SendCommand, HostRuns
<1>2. None \notin Commands \cup Unknown /\ Default \in Commands
  BY BtAssumption
<1>3. Sent = Nothing
  <2>1. \E d \in Commands : buffer = CommandEvent(d)
    BY DEF HostInv, BtInv, FragOK
  <2>2. buffer.cmd # None
    BY <1>2, <2>1, Tables
  <2> QED BY <1>1, <2>2 DEF CarefulInv, HalfSent, Sent
<1>4. partial = Nothing
  <2>1. CASE NoPiece
    BY <1>1, <1>3, <2>1 DEF CarefulInv, InStep
  <2>2. ASSUME NEW j \in DOMAIN toHost, IsPiece(j) PROVE partial = Nothing
    <3>1. /\ Follows(toHost[j]) /\ toHost[j].event.dev = 0
          /\ toHost[j].event.cmd = Default \/ toHost[j].event.cmd = None
          /\ toHost[j].event.cmd = Default => toHost[j].from = 0
      BY <1>1, <2>2 DEF CarefulInv, InStep, CommandPlace, ScanPlace
    <3>2. toHost[j].event \in Events
      <4>1. toHost[j] \in Sound
        BY <2>2, Ways DEF HostInv
      <4> QED BY <2>2, <4>1 DEF Sound, Messages, IsPiece
    <3>3. \E d \in Commands : toHost[j].event = CommandEvent(d)
      BY <3>1, <3>2, Tables DEF Events, DeviceEvent
    <3>4. toHost[j].event = CommandEvent(Default) /\ toHost[j].from = 0
      BY <1>2, <3>1, <3>3 DEF CommandEvent
    <3> QED BY <3>1, <3>4 DEF Follows, Nothing
  <2> QED BY <2>1, <2>2 DEF NoPiece
<1>5. ScanPlace'
  <2>1. \A j \in DOMAIN toHost : IsPiece(j)' <=> IsPiece(j)
    BY <1>1 DEF IsPiece
  <2> QED BY <1>1, <2>1, StaticsStay DEF ScanPlace, Rest
<1>6. NextDevice = 0 /\ NextDevice' = 0
  BY <1>1, <1>5, NoScanSeen, NoScanSeenNext, StaticsStay DEF NoneSeen
<1>7. Seen!Nothing = Nothing
  BY DEF Seen!Nothing, Seen!Event, Nothing, CommandEvent
<1> QED BY <1>1, <1>4, <1>5, <1>6, <1>7 DEF Seen!Ask

LEMMA GiveUpSeen ==
    ASSUME HostInv, CarefulInv, ScanPlace, careful, careful', HostInv', GiveUp
    PROVE  ScanPlace' /\ Seen!GiveUp
<1>1. /\ command \in Unknown /\ command' = None /\ toHost = << >>
      /\ UNCHANGED <<serverVars, link, toHost, device, partial>>
  BY DEF GiveUp
<1>2. DOMAIN toHost' = {} /\ DOMAIN toHost = {} /\ NoPiece /\ NoPiece'
  BY <1>1 DEF NoPiece
<1>3. ScanPlace'
  BY <1>1, <1>2, StaticsStay DEF ScanPlace
<1>4. NextDevice' = NextDevice
  <2>1. DeviceOf /\ DeviceOf'
    BY NextDeviceIs, NextDeviceIsNext
  <2>2. ScanNext' = ScanNext
    BY <1>1, StaticsStay DEF ScanNext
  <2> QED BY <1>2, <2>1, <2>2 DEF DeviceOf
<1> QED BY <1>1, <1>3, <1>4 DEF Seen!GiveUp

\* The other steps of the host are not seen: a careful host closes the device,
\* and goes, when it waits for nothing.
LEMMA OtherSeen ==
    ASSUME HostInv, CarefulInv, ScanPlace, careful, HostInv', CarefulInv',
           \/ Open \/ Resubmit \/ Close \/ Connect \/ CloseLink
           \/ PeerGone \/ ReceiveUnlinked
    PROVE  ScanPlace' /\ NextDevice' = NextDevice /\ UNCHANGED <<command, partial>>
<1>1. CASE Open \/ Resubmit \/ Close \/ Connect \/ CloseLink
  <2>1. /\ UNCHANGED <<serverVars, toHost, command, partial>>
        /\ link' = link \/ device = "closed"
    BY <1>1 DEF Open, Resubmit, Close, Connect, CloseLink, hostVars, HostInv, ClosedInv
  <2> QED BY <2>1, StaticsStay, SameSeen
<1>2. CASE PeerGone \/ ReceiveUnlinked
  <2>1. /\ ~scanning /\ command = None /\ partial = Nothing
    <3>1. CASE PeerGone
      BY <3>1 DEF PeerGone, Whole
    <3>2. CASE ReceiveUnlinked
      <4>1. device # "open"
        <5>1. /\ link = "up" /\ 1 \in DOMAIN toHost /\ toHost[1].kind = "unlinked"
          BY <3>2, MessageTaken DEF ReceiveUnlinked
        <5> QED BY <5>1 DEF HostInv, UnlinkLast
      <4> QED BY <4>1 DEF CarefulInv, HalfSent
    <3> QED BY <1>2, <3>1, <3>2
  <2>2. /\ command' = None /\ partial' = Nothing /\ device' = "closed" /\ UNCHANGED serverVars
    BY <1>2 DEF PeerGone, ReceiveUnlinked, Receives, HostClosed
  <2>3. DOMAIN toHost' = {}
    BY <2>2 DEF HostInv, ClosedInv
  <2>4. ScanPlace'
    BY <2>1, <2>2, <2>3, StaticsStay DEF ScanPlace
  <2>5. NextDevice = 0 /\ NextDevice' = 0
    BY <2>1, <2>2, <2>4, NoScanSeen, NoScanSeenNext, StaticsStay DEF NoneSeen
  <2> QED BY <2>1, <2>2, <2>4, <2>5
<1> QED BY <1>1, <1>2

-----------------------------------------------------------------------------
SeenInv == careful => ScanPlace

LEMMA SeenInitially == Init => SeenInv /\ Seen!Init
<1> SUFFICES ASSUME Init PROVE ScanPlace /\ Seen!Init
  BY DEF SeenInv
<1>1. DOMAIN toHost = {} /\ ~scanning /\ command = None /\ partial = Nothing
  BY DEF Init
<1>2. buffer.cmd \notin ScanCommands
  BY BtAssumption DEF Init, CommandEvent
<1>3. ScanPlace
  BY <1>1, <1>2 DEF ScanPlace
<1>4. NextDevice = 0
  BY <1>1, <1>3, HostInitially, NoScanSeen DEF NoneSeen
<1>5. Seen!Nothing = Nothing
  BY DEF Seen!Nothing, Seen!Event, Nothing, CommandEvent
<1> QED BY <1>1, <1>3, <1>4, <1>5 DEF Seen!Init

LEMMA SeenNext ==
    ASSUME HostInv, ExpectedOnly, InStepInv, SeenInv, [Next]_vars, careful' = careful
    PROVE  SeenInv' /\ [Seen!Next]_(Seen!hciVars)
<1>1. HostInv' /\ InStepInv'
  BY HostNext, CarefulNext
<1>2. CASE ~careful
  BY <1>2 DEF SeenInv, Seen!hciVars
<1>3. CASE careful
  <2>1. CarefulInv /\ CarefulInv' /\ ScanPlace /\ careful'
    BY <1>1, <1>3 DEF InStepInv, SeenInv
  <2>2. ASSUME ScanPlace', NextDevice' = NextDevice, UNCHANGED <<command, partial>>
        PROVE  SeenInv' /\ [Seen!Next]_(Seen!hciVars)
    BY <1>3, <2>1, <2>2 DEF SeenInv, Seen!hciVars
  <2>3. CASE UNCHANGED vars
    <3>1. UNCHANGED <<serverVars, link, toHost, command, partial>>
      BY <2>3 DEF vars, hostVars
    <3> QED BY <1>1, <2>1, <2>2, <3>1, StaticsStay, SameSeen
  <2>4. CASE Serve
    BY <2>1, <2>2, <2>4, ServeSeen
  <2>5. CASE ReceivePiece
    <3>1. ScanPlace' /\ (\/ Seen!AnswerGoes
                         \/ Seen!DeviceGoes
                         \/ UNCHANGED <<command, partial>> /\ NextDevice' = NextDevice)
      BY <1>1, <1>3, <2>1, <2>5, PieceSeen
    <3>2. CASE Seen!AnswerGoes \/ Seen!DeviceGoes
      BY <3>1, <3>2 DEF SeenInv, Seen!Next
    <3> QED BY <2>2, <3>1, <3>2
  <2>6. ASSUME NEW c \in Commands \cup Unknown, SendCommand(c)
        PROVE  SeenInv' /\ [Seen!Next]_(Seen!hciVars)
    <3>1. ScanPlace' /\ Seen!Ask(c)
      BY <1>1, <1>3, <2>1, <2>6, SendCommandSeen
    <3> QED BY <3>1 DEF SeenInv, Seen!Next
  <2>7. CASE GiveUp
    <3>1. ScanPlace' /\ Seen!GiveUp
      BY <1>1, <1>3, <2>1, <2>7, GiveUpSeen
    <3> QED BY <3>1 DEF SeenInv, Seen!Next
  <2>8. CASE \/ Open \/ Resubmit \/ Close \/ Connect \/ CloseLink
             \/ PeerGone \/ ReceiveUnlinked
    BY <1>1, <1>3, <2>1, <2>2, <2>8, OtherSeen
  <2> QED BY <2>3, <2>4, <2>5, <2>6, <2>7, <2>8 DEF Next
<1> QED BY <1>2, <1>3

\* A careful host sees a controller as HciController promises it: each command
\* gets its event, and each scan reports all devices, once and in order.
THEOREM BtImplementsController == Spec => ImplementsController
<1>1. Init => HostInv /\ ExpectedOnly /\ InStepInv /\ SeenInv /\ Seen!Init
  BY HostInitially, CarefulInitially, SeenInitially
<1>2. HostInv /\ ExpectedOnly /\ InStepInv /\ SeenInv
         /\ [Next /\ UNCHANGED careful]_<<vars, careful>>
         => /\ (HostInv /\ ExpectedOnly /\ InStepInv /\ SeenInv)'
            /\ [Seen!Next]_(Seen!hciVars)
  BY HostNext, CarefulNext, SeenNext
<1> QED BY <1>1, <1>2, PTL DEF Spec, ImplementsController, Seen!Spec
=============================================================================
