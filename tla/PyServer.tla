------------------------------ MODULE PyServer ------------------------------
(***************************************************************************)
(* USBContainer.run of python/USBIP.py with hid-keyboard.py or hid-mouse.py:*)
(* the same protocol as UsbIpServer, with that module's client and stream. *)
(*                                                                         *)
(* One loop reads headers, and attached says which; it is a variable of the*)
(* process and is never reset.  struct.unpack raises when recv() returns   *)
(* less than a header, and nothing catches it.  The command of a request   *)
(* is not looked at.                                                       *)
(*                                                                         *)
(* At the end is the specification of all the programs, these two and the  *)
(* six of c/, since they promise a client the same.                        *)
(***************************************************************************)
EXTENDS UsbIpServer

VARIABLE
    attached    \* a client has imported the device

allVars == <<vars, attached>>

\* A Python program runs.
Python == build \in PyBuilds

-----------------------------------------------------------------------------
(* The requests.                                                           *)

PyAnswers(r) ==
    IF r.ep = 0 THEN PyControlAnswers(build, r)
                ELSE DataAnswers(build, r, count, Limit, bsize)

\* handle_usb_request for message i, whatever its command is: an UNLINK is a
\* control request with an empty setup packet.
Handle(i) ==
    /\ SendAnswers(i, PyAnswers(sent[i].req))
    /\ CountReport(sent[i].req)

\* A handler receives the data of r: in Python only those of SET_REPORT.
Taken(b, r) ==
    IF b \in PyBuilds THEN b = "pykeyboard" /\ r.type = \h21 /\ r.request = 9
                      ELSE Reads(b, r)

\* Some handler takes the data of each request that a client makes.
AllTaken ==
    \A b \in DOMAIN Asks : \A r \in Asks[b] : ~r.in /\ r.length # 0 => Taken(b, r)

\* What the devices send whole, clients ask for whole, and they read from the serial
\* device no less at a time than they have written to it.
AllAskedFor ==
    \A b \in DOMAIN Asks : \A r \in Asks[b] : r.in =>
        /\ r.type = \h80 /\ r.request = 6 /\ r.value = 1 => DeviceSize <= r.length
        /\ r.type = \h80 /\ r.request = 6 /\ r.value = 3 => StringSize <= r.length
        /\ r.type = \h80 /\ r.request = 0 => 2 <= r.length
        /\ r.type = \h81 /\ r.request = 6 /\ r.value = \h22 =>
             /\ b \in Keyboards => \h3F <= r.length
             /\ b \in Mice      => \h34 <= r.length
        /\ r.ep # 0 /\ b \in Keyboards => 8 <= r.length
        /\ r.ep # 0 /\ b \in Mice => 4 <= r.length
        /\ b = "acm" /\ r.ep = 2 =>
             \A w \in Asks[b] : w.ep = 2 /\ ~w.in => w.length <= r.length

-----------------------------------------------------------------------------
(* The loop.  At "hello" it is about to receive a header.                  *)

\* An exception ends the process.
Raise == exited' = TRUE

\* recv() raises too, when the client has gone without reading all it was sent.
ConnectionReset ==
    /\ \E p \in {"hello", "busid", "data"} : At(p)
    /\ link = "gone"
    /\ Raise
    /\ UNCHANGED <<build, pc, request, deviceVars, link, conn, wireVars, clientVars,
                   misread, attached>>

\* Not attached: the end of the connection is looked for, part of a header is not.
PyRecvOp ==
    /\ At("hello")
    /\ ~attached
    /\ Recv(2)
    /\ \/ /\ inbuf = << >>
          /\ pc' = "close"
          /\ UNCHANGED <<exited, clientVars, misread>>
       \/ /\ inbuf # << >> /\ RecvIsShort(2)
          /\ Raise
          /\ UNCHANGED <<pc, clientVars, misread>>
       \/ NoHeader
       \/ /\ Receives("devlist")
          /\ SendReply("listed")
          /\ UNCHANGED pc
       \/ /\ Receives("import")
          /\ pc' = "busid"
          /\ UNCHANGED <<exited, clientVars>>
    /\ UNCHANGED <<build, request, deviceVars, link, conn, attached>>

\* The bus id: how much of it is received makes no difference.
PyRecvBusid ==
    /\ At("busid")
    /\ Recv(2)
    /\ SendReply("attached")
    /\ attached' = ~exited'
    /\ pc' = "hello"
    /\ UNCHANGED <<build, request, deviceVars, link, conn, misread>>

PyRequest ==
    /\ \E kind \in {"submit", "unlink"} : Receives(kind)
    /\ IF Taken(build, sent[Header].req)
         THEN /\ pc' = "data"
              /\ request' = Header
              /\ UNCHANGED <<count, held, exited, answers>>
         ELSE /\ Handle(Header)
              /\ UNCHANGED <<pc, request>>
    /\ UNCHANGED <<phase, sent>>

\* Variant: the end of the connection is seen here too.
PyRecvCmdBreaks ==
    /\ At("hello")
    /\ attached
    /\ Recv(2)
    /\ \/ /\ inbuf = << >>
          /\ pc' = "close"
          /\ UNCHANGED <<request, count, held, exited, clientVars, misread>>
       \/ /\ inbuf # << >> /\ RecvIsShort(2)
          /\ Raise
          /\ UNCHANGED <<pc, request, count, held, clientVars, misread>>
       \/ PyRequest
    /\ UNCHANGED <<build, bsize, link, conn, attached>>

\* Attached: the end of the connection is a header that is too short.
PyRecvCmd ==
    /\ At("hello")
    /\ attached
    /\ Recv(2)
    /\ \/ /\ RecvIsShort(2)
          /\ Raise
          /\ UNCHANGED <<pc, request, count, held, clientVars, misread>>
       \/ NoHeader
       \/ PyRequest
    /\ UNCHANGED <<build, bsize, link, conn, attached>>

\* Variant: a report of the full size is received.
PyRecvDataWhole ==
    /\ At("data")
    /\ Recv(2)
    /\ Handle(request)
    /\ pc' = "hello"
    /\ request' = 0
    /\ UNCHANGED <<build, bsize, link, conn, phase, sent, misread, attached>>

\* The data of SET_REPORT, or as much of it as recv() gives.
PyRecvData ==
    /\ At("data")
    /\ Recv(DataLength(sent[request]))
    /\ Handle(request)
    /\ pc' = "hello"
    /\ request' = 0
    /\ UNCHANGED <<build, bsize, link, conn, phase, sent, misread, attached>>

PyLoop ==
    \/ (Accept \/ CloseLink) /\ UNCHANGED attached
    \/ PyRecvOp
    \/ PyRecvBusid
    \/ PyRecvCmd
    \/ PyRecvData

-----------------------------------------------------------------------------
(* All the programs.  attached stays FALSE in those of c/, which know by   *)
(* their place in usbip_run.                                               *)

AllInit == Init /\ attached = FALSE

Runs ==
    \/ ~Python /\ Server /\ UNCHANGED attached
    \/ Python /\ PyLoop

Delivers == Deliver /\ UNCHANGED attached

AllNext ==
    \/ Runs
    \/ Python /\ ConnectionReset
    \/ Delivers
    \/ Client /\ UNCHANGED attached

\* The process runs, and the network delivers.
AllSpec == AllInit /\ [][AllNext]_allVars /\ WF_allVars(Runs) /\ WF_allVars(Delivers)
-----------------------------------------------------------------------------
\* The types of the process's variables; the answers are to messages of this
\* connection.
AllTypeOK ==
    /\ TypeOK
    /\ Python => pc # "urb"
    /\ attached \in BOOLEAN
    /\ attached => Python

\* run of the Python server keeps attached for good, but no connection is read as
\* one of an attached client that has not imported the device: the process ends
\* first.
OneImport == attached /\ ~exited => sent # << >> /\ sent[1].kind = "import"

\* When its client is gone the process comes back to accept(), not attached, or
\* it ends.
BackToAccept == link = "gone" ~> (exited \/ (pc = "accept" /\ ~attached))

-----------------------------------------------------------------------------
(* What all the programs promise a client that stays, UsbIpSession.        *)

Attended == phase # "away"

\* The messages whose header has not been received, and the one that is being
\* received.
Unserved ==
    LET units == inbuf \o onWay IN
    {units[p].msg : p \in {q \in 1 .. Len(units) : units[q].part = 1}}
      \cup (CASE pc = "busid" -> {1}
              [] pc = "data"  -> {request}
              [] OTHER        -> {})

Sessions == INSTANCE UsbIpSession WITH
    sent    <- IF Attended THEN sent ELSE << >>,
    pending <- IF Attended THEN Unserved ELSE {},
    answers <- IF Attended THEN answers ELSE << >>

\* A client that stays has each of its messages served, once, in order and with all of
\* its data, and gets what the device answers to it; it is not hung up on.
ImplementsSession == Sessions!Spec
=============================================================================
