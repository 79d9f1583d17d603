---------------------------- MODULE UsbIpSession -----------------------------
(***************************************************************************)
(* What a USB/IP server promises its clients, in terms of messages: there  *)
(* is no stream, and no place in a program.  One client at a time connects,*)
(* asks for the list of devices or imports the device, and then submits    *)
(* requests and unlinks them, without waiting, for as long as it likes.    *)
(* Each message is dealt with once, in the order they were sent, with all  *)
(* of its data.  The device answers for itself: two requests meet only in  *)
(* its state, the reports it has sent and the bytes it keeps.              *)
(*                                                                         *)
(* Nothing is promised to a client that has left, but that the device does *)
(* what it does for any request.  That the next message is dealt with at   *)
(* all is not said here either.                                            *)
(***************************************************************************)
EXTENDS UsbRequests

CONSTANTS
    Asks,       \* the requests that the client of each program makes
    Limit       \* reports of a keyboard or a mouse

VARIABLES
    build,      \* which of the programs this is
    count,      \* reports that have been sent
    bsize,      \* bytes that the serial device keeps
    phase,      \* what the client is doing, see Phase of UsbIpServer
    sent,       \* the messages of this connection
    pending,    \* those that have not been dealt with
    answers     \* the answers the client got

device      == <<count, bsize>>
sessionVars == <<build, device, phase, sent, pending, answers>>

Init ==
    /\ build \in DOMAIN Asks
    /\ count = 0
    /\ bsize = 0
    /\ phase = "away"
    /\ sent = << >>
    /\ pending = {}
    /\ answers = << >>

-----------------------------------------------------------------------------
(* The client.                                                             *)

Connect(kind, next) ==
    /\ phase = "away"
    /\ phase' = next
    /\ sent' = <<Message(kind, NoData)>>
    /\ pending' = {1}
    /\ UNCHANGED <<build, device, answers>>

Send(kind, r) ==
    /\ phase = "attached"
    /\ sent' = Append(sent, Message(kind, r))
    /\ pending' = pending \cup {Len(sent) + 1}
    /\ UNCHANGED <<build, device, phase, answers>>

Leave ==
    /\ phase # "away"
    /\ phase' = "away"
    /\ sent' = << >>
    /\ pending' = {}
    /\ answers' = << >>
    /\ UNCHANGED <<build, device>>

Client ==
    \/ Connect("devlist", "lists")
    \/ Connect("import", "imports")
    \/ \E r \in Asks[build] : Send("submit", r)
    \/ Send("unlink", NoData)
    \/ Leave

-----------------------------------------------------------------------------
(* The server and its device.                                              *)

Reply(r) ==
    CASE r.ep # 0                         -> DataAnswers(build, r, count, Limit, bsize)
      [] r.ep = 0 /\ build \in PyBuilds   -> PyControlAnswers(build, r)
      [] r.ep = 0 /\ build \notin PyBuilds -> ControlAnswers(build, r)

\* The device after request r with n bytes of data.
Handles(r, n) ==
    /\ count' = IF build \in Keyboards \cup Mice /\ r.ep # 0
                  THEN Least(count + 1, Limit) ELSE count
    /\ bsize' = CASE build = "acm" /\ r.ep = 2 /\ r.in  -> 0
                  [] build = "acm" /\ r.ep = 2 /\ ~r.in -> n
                  [] build # "acm" \/ r.ep # 2          -> bsize

First(i) == i \in pending /\ \A j \in pending : i <= j

Deals(i, kind) ==
    /\ First(i)
    /\ sent[i].kind = kind
    /\ pending' = pending \ {i}
    /\ UNCHANGED <<build, sent>>

\* A build without a list leaves the client without one.
List(i) ==
    /\ Deals(i, "devlist")
    /\ phase' = IF NoDeviceList(build) THEN phase ELSE "listed"
    /\ UNCHANGED <<device, answers>>

Import(i) ==
    /\ Deals(i, "import")
    /\ phase' = "attached"
    /\ UNCHANGED <<device, answers>>

Submit(i) ==
    /\ Deals(i, "submit")
    /\ answers' = answers \o AnswersFor(i, Reply(sent[i].req))
    /\ Handles(sent[i].req, sent[i].req.length)
    /\ UNCHANGED phase

Unlink(i) ==
    /\ Deals(i, "unlink")
    /\ answers' = answers \o AnswersFor(i, IF build = "bt" THEN Done ELSE Silence)
    /\ UNCHANGED <<device, phase>>

\* A request of a client that has left, of whose data part may be lost.
Leftover ==
    /\ phase = "away"
    /\ \E r \in Asks[build] : \E n \in 0 .. r.length : Handles(r, n)
    /\ UNCHANGED <<build, phase, sent, pending, answers>>

Server ==
    \/ \E i \in pending : List(i) \/ Import(i) \/ Submit(i) \/ Unlink(i)
    \/ Leftover

Next == Client \/ Server

Spec == Init /\ [][Next]_sessionVars
=============================================================================
