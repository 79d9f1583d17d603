---------------------------- MODULE UsbIpServer -----------------------------
(***************************************************************************)
(* usbip_run of c/usbip.c, the server of every device: it accepts a client,*)
(* answers its OP_REQ_DEVLIST and OP_REQ_IMPORT, and then its requests, one *)
(* by one, until the connection ends; then it accepts the next.            *)
(*                                                                         *)
(* The connection is a stream.  A message is cut into units: two for its   *)
(* header and one for each byte of its data.  recv() returns what is there *)
(* of what it is asked for, and usbip_run calls it once for each header.   *)
(* The answers go to a client that reads at once; the threads and tables   *)
(* that answer later are those of EtherRx and BtControl.                   *)
(***************************************************************************)
EXTENDS UsbRequests

CONSTANTS
    Asks,       \* the requests that the client of each program makes
    Limit,      \* reports of a keyboard or a mouse: 20, in Python 100
    Pieces,     \* the network may deliver a message in pieces
    MaxSent,    \* bound: messages of a connection
    MaxConn     \* bound: connections

Request == [ep: Nat, in: BOOLEAN, type: Nat, request: Nat, value: Nat, length: Nat]

\* A control request's type has the direction in its first bit.  No driver writes to
\* endpoint 1 of the serial device, from which it is told of the line's state.
ASSUME ServerAssumption ==
    /\ DOMAIN Asks \subseteq Builds \cup PyBuilds
    /\ \A b \in DOMAIN Asks : \A r \in Asks[b] :
          /\ r \in Request
          /\ r.ep = 0 => (r.in <=> r.type >= \h80)
          /\ b = "acm" /\ r.ep = 1 => r.in
    /\ StringSize \in Nat
    /\ Limit \in Nat /\ Limit % 2 = 0
    /\ Pieces \in BOOLEAN
    /\ MaxSent \in Nat \ {0}
    /\ MaxConn \in Nat

VARIABLES
    build,      \* which of the programs this is
    pc,         \* where usbip_run is, see PC
    request,    \* cmd, while its data are read: a message of sent
    count,      \* static of the keyboard's and the mouse's handle_data
    held,       \* history: the keyboard's last report holds a key down
    bsize,      \* bytes in the serial device's buffer
    exited,     \* the process has ended
    link,       \* the connection: up, gone (by the client) or down
    conn,       \* how many there have been
    onWay,      \* units that the client has sent and the server not received
    inbuf,      \* units that are there for recv()
    phase,      \* what the client is doing, see Phase
    sent,       \* the messages of this connection
    answers,    \* the answers the client got, [to, size, status]
    misread     \* the server has taken something else for a header

deviceVars == <<count, held, bsize>>
serverVars == <<build, pc, request, deviceVars, exited>>
wireVars   == <<onWay, inbuf>>
clientVars == <<phase, sent, answers>>
vars == <<serverVars, link, conn, wireVars, clientVars, misread>>

PC    == {"accept", "hello", "busid", "urb", "data", "close"}
Phase == {"away", "lists", "listed", "imports", "attached", "refused"}

DevList == Message("devlist", NoData)
Import  == Message("import", NoData)

\* The data that follow a message's header.
DataLength(m) ==
    CASE m.kind = "import"               -> 2
      [] m.kind = "submit" /\ ~m.req.in  -> m.req.length
      [] OTHER                           -> 0

\* The units of message m, the i-th of this connection.
Units(i, m) == [k \in 1 .. 2 + DataLength(m) |-> [msg |-> i, part |-> k]]

Init ==
    /\ build \in DOMAIN Asks
    /\ pc = "accept"
    /\ request = 0
    /\ count = 0
    /\ held = FALSE
    /\ bsize = 0
    /\ exited = FALSE
    /\ link = "down"
    /\ conn = 0
    /\ onWay = << >>
    /\ inbuf = << >>
    /\ phase = "away"
    /\ sent = << >>
    /\ answers = << >>
    /\ misread = FALSE

-----------------------------------------------------------------------------
(* The server.                                                             *)

At(p) == ~exited /\ ~misread /\ pc = p

\* recv() of n units: it waits for the first, and returns with less at the end
\* of the stream or if no more are there yet.
Recv(n) ==
    /\ inbuf # << >> \/ (link = "gone" /\ onWay = << >>)
    /\ inbuf' = SubSeq(inbuf, Least(n, Len(inbuf)) + 1, Len(inbuf))
    /\ UNCHANGED onWay

RecvIsShort(n) == Len(inbuf) < n

\* What is received is the header of a message, which is its first unit's.
Header   == Head(inbuf).msg
IsHeader == inbuf[1].part = 1 /\ inbuf[2] = [inbuf[1] EXCEPT !.part = 2]

\* Variant: the answers are to the request whose data were read last.
SendAnswersStale(i, as) ==
    \/ /\ link = "up"
       /\ answers' = answers \o AnswersFor(request, as)
       /\ UNCHANGED exited
    \/ /\ link = "gone"
       /\ exited' \in {FALSE, as # Silence}
       /\ UNCHANGED answers

\* send() of the answers as to message i.  Nobody gets them when the client is
\* gone, and the process may end, of SIGPIPE or of the exit(-1) of send_usb_req.
SendAnswers(i, as) ==
    \/ /\ link = "up"
       /\ answers' = answers \o AnswersFor(i, as)
       /\ UNCHANGED exited
    \/ /\ link = "gone"
       /\ exited' \in {FALSE, as # Silence}
       /\ UNCHANGED answers

\* send() of a reply that takes the client to its next phase.  When it fails the
\* connection is closed, or the process ends of SIGPIPE.
SendReply(next) ==
    \/ /\ link = "up"
       /\ phase' = next
       /\ UNCHANGED <<exited, sent, answers>>
    \/ /\ link = "gone"
       /\ exited' \in BOOLEAN
       /\ UNCHANGED clientVars

Accept ==
    /\ At("accept")
    /\ link # "down"
    /\ pc' = "hello"
    /\ UNCHANGED <<build, request, deviceVars, exited, link, conn, wireVars, clientVars, misread>>

\* A header that is not there in full ends the connection; other bytes in its
\* place may be anything to the server, and the model stops there.
ShortHeader ==
    /\ RecvIsShort(2)
    /\ pc' = "close"
    /\ UNCHANGED <<request, deviceVars, exited, clientVars, misread>>

NoHeader ==
    /\ ~RecvIsShort(2)
    /\ ~IsHeader
    /\ misread' = TRUE
    /\ UNCHANGED <<pc, request, deviceVars, exited, clientVars>>

Receives(kind) ==
    /\ ~RecvIsShort(2)
    /\ IsHeader
    /\ sent[Header].kind = kind
    /\ UNCHANGED misread

\* Before the import.
RecvOp ==
    /\ At("hello")
    /\ Recv(2)
    /\ \/ ShortHeader
       \/ NoHeader
       \/ /\ Receives("devlist")
          /\ IF NoDeviceList(build)
               THEN pc' = "hello" /\ UNCHANGED <<exited, clientVars>>
               ELSE /\ SendReply("listed")
                    /\ pc' \in {"hello"} \cup (IF link = "up" THEN {} ELSE {"close"})
          /\ UNCHANGED <<request, deviceVars>>
       \/ /\ Receives("import")
          /\ pc' = "busid"
          /\ UNCHANGED <<request, deviceVars, exited, clientVars>>
    /\ UNCHANGED <<build, link, conn>>

\* Variant: the bus id is taken for complete only if more than that is there.
RecvBusidInsists ==
    /\ At("busid")
    /\ Recv(2)
    /\ \/ /\ RecvIsShort(3)
          /\ pc' = "close"
          /\ UNCHANGED <<exited, clientVars>>
       \/ /\ ~RecvIsShort(3)
          /\ SendReply("attached")
          /\ pc' = "urb"
    /\ UNCHANGED <<build, request, deviceVars, link, conn, misread>>

\* The bus id, which is not looked at, and OP_REP_IMPORT.
RecvBusid ==
    /\ At("busid")
    /\ Recv(2)
    /\ \/ /\ RecvIsShort(2)
          /\ pc' = "close"
          /\ UNCHANGED <<exited, clientVars>>
       \/ /\ ~RecvIsShort(2)
          /\ SendReply("attached")
          /\ pc' \in {"urb"} \cup (IF link = "up" THEN {} ELSE {"close"})
    /\ UNCHANGED <<build, request, deviceVars, link, conn, misread>>

\* A report is sent; Reports(c) of them have been asked for before.  A keyboard
\* presses a key and releases it, in turn.  (Beyond Limit the count makes no
\* difference.)  Variant: one report more.
SendsReportOneMore(r) == build \in Keyboards \cup Mice /\ r.ep # 0 /\ count <= Limit
SendsReport(r) == build \in Keyboards \cup Mice /\ r.ep # 0 /\ count < Limit

CountReport(r) ==
    /\ count' = IF SendsReport(r) THEN Least(count + 1, Limit) ELSE count
    /\ held' = IF SendsReport(r) /\ build \in Keyboards THEN count % 2 = 0 ELSE held

\* Variant: the bytes stay in the buffer when they are sent.
DeviceStepKeeps(r, got) ==
    /\ CountReport(r)
    /\ bsize' = IF build = "acm" /\ r.ep \in {1, 2} /\ ~r.in THEN got ELSE bsize

\* What handle_data does to the statics, got bytes of data being read.  (On a
\* connection that was reset recv() gives -1 where got is 0 here; the answer that
\* comes next ends the process then, and nobody looks at bsize again.)
DeviceStep(r, got) ==
    /\ CountReport(r)
    /\ bsize' = CASE build = "acm" /\ r.ep \in {1, 2} /\ ~r.in -> got
                  [] build = "acm" /\ r.ep = 2 /\ r.in         -> 0
                  [] OTHER                                     -> bsize

AnswersTo(r, got) ==
    CASE r.ep = 0 /\ build = "bt" /\ Reads(build, r) -> Data(got)
      [] r.ep = 0                                    -> ControlAnswers(build, r)
      [] OTHER -> DataAnswers(build, r, count, Limit, bsize)

\* USBIP_CMD_SUBMIT without data that a handler reads.
Submit ==
    /\ Receives("submit")
    /\ LET m == sent[Header] IN
         /\ ~Reads(build, m.req)
         /\ SendAnswers(Header, AnswersTo(m.req, 0))
         /\ DeviceStep(m.req, 0)
    /\ pc' = "urb"
    /\ UNCHANGED <<request, phase, sent>>

\* Variant: the handler answers and leaves the data in the stream.
SubmitWithDataUnread ==
    /\ Receives("submit")
    /\ LET m == sent[Header] IN
         /\ Reads(build, m.req)
         /\ SendAnswers(Header, AnswersTo(m.req, 0))
         /\ DeviceStep(m.req, 0)
    /\ pc' = "urb"
    /\ UNCHANGED <<request, phase, sent>>

\* USBIP_CMD_SUBMIT with data: they are read next.
SubmitWithData ==
    /\ Receives("submit")
    /\ Reads(build, sent[Header].req)
    /\ request' = Header
    /\ pc' = "data"
    /\ UNCHANGED <<deviceVars, exited, clientVars>>

\* USBIP_CMD_UNLINK: only one of the programs answers it.
Unlink ==
    /\ Receives("unlink")
    /\ SendAnswers(Header, IF build = "bt" THEN Done ELSE Silence)
    /\ pc' = "urb"
    /\ UNCHANGED <<request, deviceVars, phase, sent>>

\* Variant: only an error ends the connection, not its end.
RecvCmdIgnoresEnd ==
    /\ At("urb")
    /\ Recv(2)
    /\ \/ NoHeader \/ Submit \/ SubmitWithData \/ Unlink
       \/ RecvIsShort(2) /\ UNCHANGED <<pc, request, deviceVars, exited, clientVars, misread>>
    /\ UNCHANGED <<build, link, conn>>

RecvCmd ==
    /\ At("urb")
    /\ Recv(2)
    /\ ShortHeader \/ NoHeader \/ Submit \/ SubmitWithData \/ Unlink
    /\ UNCHANGED <<build, link, conn>>

\* The data, or as much of it as recv() gives.
RecvData ==
    LET m   == sent[request]
        n   == DataLength(m)
        got == Least(n, Len(inbuf))
    IN
    /\ At("data")
    /\ Recv(n)
    /\ \/ /\ got < n /\ Short(build, m.req) = "exit"
          /\ exited' = TRUE
          /\ UNCHANGED <<pc, deviceVars, answers>>
       \/ /\ got < n /\ Short(build, m.req) = "drop"
          /\ pc' = "urb"
          /\ UNCHANGED <<deviceVars, exited, answers>>
       \/ /\ got = n \/ Short(build, m.req) = "answer"
          /\ pc' = "urb"
          /\ DeviceStep(m.req, got)
          /\ SendAnswers(request, AnswersTo(m.req, got))
    /\ request' = 0
    /\ UNCHANGED <<build, link, conn, phase, sent, misread>>

\* close().  A client that is still there has lost its connection.
CloseLink ==
    /\ At("close")
    /\ pc' = "accept"
    /\ link' = "down"
    /\ onWay' = << >>
    /\ inbuf' = << >>
    /\ phase' = IF link = "gone" \/ phase = "listed" THEN "away" ELSE "refused"
    /\ sent' = << >>
    /\ answers' = << >>
    /\ UNCHANGED <<build, request, deviceVars, exited, conn, misread>>

Server == Accept \/ RecvOp \/ RecvBusid \/ RecvCmd \/ RecvData \/ CloseLink

-----------------------------------------------------------------------------
(* The client, usbip list or usbip attach with vhci, and the network.      *)

ClientRuns == ~exited /\ ~misread

Connect(m, next) ==
    /\ ClientRuns
    /\ phase = "away"
    /\ link = "down"
    /\ conn < MaxConn
    /\ conn' = conn + 1
    /\ link' = "up"
    /\ sent' = <<m>>
    /\ answers' = << >>
    /\ onWay' = Units(1, m)
    /\ phase' = next
    /\ UNCHANGED <<serverVars, inbuf, misread>>

List   == Connect(DevList, "lists")
Attach == Connect(Import, "imports")

Sends(m) ==
    /\ ClientRuns
    /\ phase = "attached"
    /\ Len(sent) < MaxSent
    /\ sent' = Append(sent, m)
    /\ onWay' = onWay \o Units(Len(sent) + 1, m)
    /\ UNCHANGED <<serverVars, link, conn, inbuf, phase, answers, misread>>

Ask == \E r \in Asks[build] : Sends(Message("submit", r))

\* The client gives up a request that is not answered.
GiveUp ==
    /\ \E i \in DOMAIN sent : /\ sent[i].kind = "submit"
                             /\ \A k \in DOMAIN answers : answers[k].to # i
    /\ Sends(Message("unlink", NoData))

Deliver ==
    /\ ClientRuns
    /\ onWay # << >>
    /\ \E n \in 1 .. Len(onWay) :
         /\ Pieces \/ n = Len(onWay)
         /\ inbuf' = inbuf \o SubSeq(onWay, 1, n)
         /\ onWay' = SubSeq(onWay, n + 1, Len(onWay))
    /\ UNCHANGED <<serverVars, link, conn, clientVars, misread>>

\* The client closes, or dies; of what is on the way any part may arrive yet.
Leave ==
    /\ ClientRuns
    /\ link = "up"
    /\ link' = "gone"
    /\ phase' = "away"
    /\ answers' = << >>
    /\ \E n \in 0 .. Len(onWay) : onWay' = SubSeq(onWay, 1, n)
    /\ UNCHANGED <<serverVars, conn, inbuf, sent, misread>>

\* What the client and the network may do.
Client == List \/ Attach \/ Ask \/ GiveUp \/ Leave
-----------------------------------------------------------------------------
Requests == (UNION {Asks[b] : b \in DOMAIN Asks}) \cup {NoData}

TypeOK ==
    /\ build \in DOMAIN Asks
    /\ pc \in PC
    /\ request \in 0 .. MaxSent
    /\ count \in 0 .. Limit
    /\ held \in BOOLEAN
    /\ bsize \in Nat
    /\ exited \in BOOLEAN
    /\ link \in {"up", "gone", "down"}
    /\ conn \in 0 .. MaxConn
    /\ onWay \in Seq([msg: 1 .. MaxSent, part: Nat])
    /\ inbuf \in Seq([msg: 1 .. MaxSent, part: Nat])
    /\ phase \in Phase
    /\ sent \in Seq([kind: {"devlist", "import", "submit", "unlink"}, req: Requests])
    /\ answers \in Seq([to: 1 .. MaxSent, size: Nat, status: {0, 1}])
    /\ misread \in BOOLEAN

\* Every handler takes from the stream just the data its request has: usbip_run
\* never takes data, or the end of an earlier header, for a header.
Aligned == ~misread

\* usbip_run does not hang up on a client that keeps to the protocol.
NeverRefused == phase # "refused"

\* A request is answered at most once, requests are answered in the order in
\* which they were sent, and no answer is to one of another connection.
InOrder ==
    \A j, k \in DOMAIN answers :
        /\ answers[k].to \in DOMAIN sent
        /\ j < k => answers[j].to < answers[k].to

\* The answer to an IN request is no longer than the client asked for: vhci
\* would give up the connection.  (Of a device or string descriptor clients
\* ask for all; the code sends all of it to one that asks for less.)
AnswersFit ==
    \A k \in DOMAIN answers :
        LET r == sent[answers[k].to].req IN r.in => answers[k].size <= r.length

\* What was written to the serial device comes back once: between two answers
\* with data the client has written again.
EchoOnce ==
    LET Echo(k) == /\ sent[answers[k].to].req.ep = 2
                   /\ sent[answers[k].to].req.in
                   /\ answers[k].size > 0
    IN build = "acm" =>
         \A j, k \in DOMAIN answers :
            j < k /\ Echo(j) /\ Echo(k) =>
              \E i \in answers[j].to .. answers[k].to :
                 sent[i].kind = "submit" /\ sent[i].req.ep = 2 /\ ~sent[i].req.in

\* Every control request of the client's drivers is answered.
ControlServed ==
    \A i \in 1 .. MaxSent :
        (i \in DOMAIN sent /\ sent[i].kind = "submit" /\ sent[i].req.ep = 0)
           ~> (exited \/ link # "up" \/ \E k \in DOMAIN answers : answers[k].to = i)

\* handle_data leaves no key down when it sends its last report.
KeyReleased == count = Limit => ~held

\* No request of the device's driver, and no order of them, ends the process: it
\* ends only when its client has gone.
StaysUp == exited => link = "gone"
=============================================================================
