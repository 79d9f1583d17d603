------------------------------ MODULE EtherRx -------------------------------
(***************************************************************************)
(* The data plane of the CDC Ethernet gadget: c/cdc-ether.c with the       *)
(* server loop of c/usbip.c as that build compiles it (SYNC_DATA_STOP,     *)
(* NO_DEVICE_LIST, no UNLINK_ANSWER).                                      *)
(*                                                                         *)
(* Two threads share one TCP connection and the grant ring of GrantRing.   *)
(* main accepts a connection, serves its requests one by one, and clears   *)
(* the ring when the connection ends; rx (rx_data_thread) takes a frame    *)
(* from the network, waits for a grant, and sends the frame to the client  *)
(* after it has let go of the mutex.  A step is a critical section of the  *)
(* mutex, one send(), or one recv() with what follows it up to the next    *)
(* of these.                                                               *)
(*                                                                         *)
(* rx keeps the number of the socket, not the socket.  accept() returns    *)
(* the lowest free number, so that every connection has the same number,   *)
(* and what rx sends goes to the connection that is open by then: sock and *)
(* conn stand for the number's present meaning.                            *)
(***************************************************************************)
EXTENDS Integers, Sequences

CONSTANTS
    Sizes,          \* lengths of transfers and of frames (bl, num_bytes)
    Window,         \* IN transfers a client keeps submitted at any one time
    ArraySize,      \* RX_DATA_SEND_SEQ_ARRAY_SIZE
    MaxSeqnum,      \* bound: grants over all connections
    MaxConn         \* bound: connections accepted

ASSUME EtherAssumption ==
    /\ ArraySize \in Nat \ {0}
    /\ Window \in Nat
    /\ Sizes \subseteq Nat \ {0}
    /\ MaxSeqnum \in Nat
    /\ MaxConn \in Nat

VARIABLES
    seq_array, size_array, current_pos, next_pos, enable, taken, outstanding,
    main,       \* where the main thread is, see MainPC
    rx,         \* where rx_data_thread is, see RxPC
    frame,      \* num_bytes of the frame rx holds, 0 if none
    sock,       \* the connection's socket: open, gone (by the peer) or closed
    conn,       \* which connection it is: how many have been accepted
    exited,     \* the process has ended
    parser,     \* what the peer of the connection expects next, see Parser
    asked,      \* history: asked[s] is the grant with seqnum s
    answers,    \* history: the headers rx has sent
    filtered    \* history: the last connection that asked for frames

\* A client numbers its transfers upwards, over all its connections.  Only
\* those that become grants are numbered here.
Seqnums == 1 .. MaxSeqnum

Ring == INSTANCE GrantRing

ringVars == <<seq_array, size_array, current_pos, next_pos, enable, taken,
              outstanding>>
sockVars == <<sock, conn>>
sentVars == <<parser, exited>>
history  == <<asked, answers, filtered>>
vars == <<ringVars, main, rx, frame, sockVars, sentVars, history>>

MainPC == {"accept", "hello", "urb", "payload", "network", "start", "stop", "close"}
RxPC   == {"none", "recv", "wait", "header", "payload"}

\* The peer reads headers, each followed by the data it announces.  It expects
\* a header (idle), or the data of the header that main or rx has sent, or it
\* has met something else and takes data for a header or a header for data.
Parser == {"idle", "main", "rx", "torn"}

Init ==
    /\ Ring!Init
    /\ main = "accept"
    /\ rx = "none"
    /\ frame = 0
    /\ sock = "closed"
    /\ conn = 0
    /\ exited = FALSE
    /\ parser = "idle"
    /\ asked = << >>
    /\ answers = << >>
    /\ filtered = 0

-----------------------------------------------------------------------------
(* The socket.                                                             *)

\* send() on the socket's number, after which the peer expects next.  Once the
\* peer is gone the kernel may take the bytes (nobody reads them), or the
\* process ends: of SIGPIPE, or of the exit(-1) that send_usb_req has for a
\* send() that fails.  A closed number fails with EBADF, and the process exits.
Send(next) ==
    \/ /\ sock = "open"
       /\ parser' = next
       /\ UNCHANGED exited
    \/ /\ sock = "gone"
       /\ UNCHANGED sentVars
    \/ /\ sock # "open"
       /\ exited' = TRUE
       /\ UNCHANGED parser

\* What the peer expects after a header, with or without data, and after data.
AfterHeader       == IF parser = "idle" THEN "idle" ELSE "torn"
AfterLoaded(from) == IF parser = "idle" THEN from ELSE "torn"
AfterData(from)   == IF parser = from THEN "idle" ELSE "torn"

\* The client closes its end, or dies.
PeerGone ==
    /\ ~exited
    /\ sock = "open"
    /\ sock' = "gone"
    /\ UNCHANGED <<ringVars, main, rx, frame, conn, sentVars, history>>

-----------------------------------------------------------------------------
(* The main thread: usbip_run and the handlers it calls.  A request may    *)
(* be read after the peer is gone: it was in the socket's buffer.          *)

At(pc) == ~exited /\ main = pc

Accept ==
    /\ At("accept")
    /\ conn < MaxConn
    /\ conn' = conn + 1
    /\ sock' = "open"
    /\ parser' = "idle"
    /\ main' = "hello"
    /\ UNCHANGED <<ringVars, rx, frame, exited, history>>

\* OP_REQ_IMPORT; the bus id is not looked at.  Here a send() that fails is
\* not the end of the process, if only it does not raise SIGPIPE.
Import ==
    /\ At("hello")
    /\ \/ Send(AfterHeader) /\ main' = "urb"
       \/ sock = "gone" /\ main' = "stop" /\ UNCHANGED sentVars
    /\ UNCHANGED <<ringVars, rx, frame, sockVars, history>>

\* Bulk IN, endpoint 1: a grant for rx, in the ring.
GrantIn(bl) ==
    /\ At("urb")
    /\ Len(asked) < MaxSeqnum
    /\ asked' = Append(asked, [conn |-> conn, size |-> bl])
    /\ Ring!Submit(Len(asked) + 1, bl)
    /\ UNCHANGED <<main, rx, frame, sockVars, sentVars, answers, filtered>>

\* Interrupt IN, endpoint 3: answered at once with nothing.
StatusIn ==
    /\ At("urb")
    /\ Send(AfterHeader)
    /\ UNCHANGED <<ringVars, main, rx, frame, sockVars, history>>

\* Bulk OUT, endpoint 2: the frame is read, answered by a header, and then given
\* to the network.  If only part of it is there yet, it is dropped with no answer
\* and nothing changes here (but what follows of it is taken for a request).
TxOut ==
    /\ At("urb")
    /\ Send(AfterHeader)
    /\ main' = "network"
    /\ UNCHANGED <<ringVars, rx, frame, sockVars, history>>

\* send_tx_data: the network takes the frame, or it has another source than the
\* device and is dropped.  A sendto() that fails ends the process.
SendTxData ==
    /\ At("network")
    /\ \/ main' = "urb" /\ UNCHANGED sentVars
       \/ exited' = TRUE /\ UNCHANGED <<main, parser>>
    /\ UNCHANGED <<ringVars, rx, frame, sockVars, history>>

\* A control request answered with data takes two calls of send().
DescriptorIn ==
    /\ At("urb")
    /\ Send(AfterLoaded("main"))
    /\ main' = "payload"
    /\ UNCHANGED <<ringVars, rx, frame, sockVars, history>>

DescriptorPayload ==
    /\ At("payload")
    /\ Send(AfterData("main"))
    /\ main' = "urb"
    /\ UNCHANGED <<ringVars, rx, frame, sockVars, history>>

\* SET_ETHERNET_PACKET_FILTER (0x21/0x43): answered, then start_rx_data.
SetFilter ==
    /\ At("urb")
    /\ Send(AfterHeader)
    /\ filtered' = conn
    /\ main' = "start"
    /\ UNCHANGED <<ringVars, rx, frame, sockVars, asked, answers>>

\* The thread is created once in the life of the process.
StartRx ==
    /\ At("start")
    /\ Ring!Enable
    /\ rx' = IF rx = "none" THEN "recv" ELSE rx
    /\ main' = "urb"
    /\ UNCHANGED <<frame, sockVars, sentVars, history>>

\* Requests that change nothing are no steps of the model: USBIP_CMD_UNLINK,
\* which is only printed, and transfers that no handler answers.  A command
\* above 2 ends usbip_run, and with it main() and the process.
Quit ==
    /\ At("urb")
    /\ sock' = "closed"
    /\ exited' = TRUE
    /\ UNCHANGED <<ringVars, main, rx, frame, conn, parser, history>>

\* recv() returns less than it was asked for: the peer is gone, or the request
\* came in two segments.  The connection is given up either way.
RecvShort ==
    /\ ~exited
    /\ main \in {"hello", "urb"}
    /\ main' = "stop"
    /\ UNCHANGED <<ringVars, rx, frame, sockVars, sentVars, history>>

\* Variants: a build without SYNC_DATA_STOP; one that lets rx use the grants up.
ProcessStopNoSync ==
    /\ At("stop")
    /\ main' = "close"
    /\ UNCHANGED <<ringVars, rx, frame, sockVars, sentVars, history>>

ProcessStopDrains ==
    /\ At("stop")
    /\ outstanding = 0
    /\ Ring!Stop
    /\ main' = "close"
    /\ UNCHANGED <<rx, frame, sockVars, sentVars, history>>

ProcessStop ==
    /\ At("stop")
    /\ Ring!Stop
    /\ main' = "close"
    /\ UNCHANGED <<rx, frame, sockVars, sentVars, history>>

Close ==
    /\ At("close")
    /\ sock' = "closed"
    /\ main' = "accept"
    /\ UNCHANGED <<ringVars, rx, frame, conn, sentVars, history>>

-----------------------------------------------------------------------------
(* The receive thread: rx_data_thread.                                     *)

RxAt(pc) == ~exited /\ rx = pc

\* A frame for the gadget's address, or a broadcast; others are not noticed, nor is
\* one that says it is IPv4 with another version in its header.  Checksum has what
\* is done to the others before a grant is looked for.
ReceiveFrame(len) ==
    /\ RxAt("recv")
    /\ frame' = len
    /\ rx' = "wait"
    /\ UNCHANGED <<ringVars, main, sockVars, sentVars, history>>

\* The frame is lost: the gadget is stopped, or the oldest grant is too small.
\* The grant stays where it is.
DropFrame ==
    /\ RxAt("wait")
    /\ Ring!Disabled \/ Ring!TooSmall(frame)
    /\ frame' = 0
    /\ rx' = "recv"
    /\ UNCHANGED <<ringVars, main, sockVars, sentVars, history>>

\* A grant is taken.  With no grant rx spins, which changes nothing.
TakeGrant ==
    /\ RxAt("wait")
    /\ Ring!Take(frame)
    /\ rx' = "header"
    /\ UNCHANGED <<main, frame, sockVars, sentVars, history>>

\* The mutex is free again when send_usb_req runs.
SendHeader ==
    /\ RxAt("header")
    /\ Send(AfterLoaded("rx"))
    /\ answers' = IF sock = "open"
                    THEN Append(answers, [conn |-> conn, seq |-> taken.seq, len |-> taken.len])
                    ELSE answers
    /\ rx' = "payload"
    /\ UNCHANGED <<ringVars, main, frame, sockVars, asked, filtered>>

SendPayload ==
    /\ RxAt("payload")
    /\ Send(AfterData("rx"))
    /\ frame' = 0
    /\ rx' = "recv"
    /\ UNCHANGED <<ringVars, main, sockVars, history>>

-----------------------------------------------------------------------------
Requests ==
    \/ Import
    \/ \E bl \in Sizes : GrantIn(bl)
    \/ StatusIn
    \/ TxOut
    \/ DescriptorIn
    \/ SetFilter
    \/ Quit

\* What main does next without waiting for anybody.
MainRuns == SendTxData \/ DescriptorPayload \/ StartRx \/ ProcessStop \/ Close

RxRuns == DropFrame \/ TakeGrant \/ SendHeader \/ SendPayload

Next ==
    \/ PeerGone
    \/ Accept
    \/ Requests
    \/ RecvShort
    \/ MainRuns
    \/ \E len \in Sizes : ReceiveFrame(len)
    \/ RxRuns

Spec == Init /\ [][Next]_vars

\* A runnable thread gets to run.  Once the peer is gone the socket's buffer is
\* used up some time.  The network is assumed to bring, again and again, a
\* frame that every transfer has room for.
LeastSize == CHOOSE n \in Sizes : \A m \in Sizes : n <= m

Fairness ==
    /\ WF_vars(MainRuns)
    /\ WF_vars(RxRuns)
    /\ SF_vars(sock = "gone" /\ RecvShort)
    /\ SF_vars(ReceiveFrame(LeastSize))

FairSpec == Spec /\ Fairness
-----------------------------------------------------------------------------
TypeOK ==
    /\ Ring!TypeOK
    /\ main \in MainPC
    /\ rx \in RxPC
    /\ frame \in Sizes \cup {0}
    /\ sock \in {"open", "gone", "closed"}
    /\ conn \in 0 .. MaxConn
    /\ exited \in BOOLEAN
    /\ parser \in Parser
    /\ asked \in Seq([conn: 1 .. MaxConn, size: Sizes])
    /\ answers \in Seq([conn: 1 .. MaxConn, seq: Seqnums, len: Sizes])
    /\ filtered \in 0 .. MaxConn

\* The grants in the ring were all submitted on the present connection: none
\* outlives the connection it came by (usbip.c:644, rx_data_process_stop).
GrantsOfThisConn ==
    \A i \in Ring!Pos : seq_array[i] # Ring!NoSeq =>
        /\ sock # "closed" \/ exited
        /\ asked[seq_array[i]].conn = conn

\* rx answers transfers in the order they were submitted in, each at most once,
\* with a frame that the transfer has room for.
AnswersInOrder ==
    /\ \A i, j \in DOMAIN answers : i < j => answers[i].seq < answers[j].seq
    /\ \A i \in DOMAIN answers : answers[i].len <= asked[answers[i].seq].size

\* A grant that rx took before the connection ended may be answered on the next
\* connection (see AnsweredWhereAsked), but no more than one: of the headers
\* that rx sends on a connection only the first can belong to an earlier one.
\* (The data of a header that rx sent on the earlier connection may come before
\* it; that is one of the ways in which Framed fails.)
Stale(i) == asked[answers[i].seq].conn # answers[i].conn

OnlyFirstIsStale ==
    \A i, j \in DOMAIN answers :
        i < j /\ answers[i].conn = answers[j].conn => ~Stale(j)

\* No frame is taken from the network on behalf of a connection that has not
\* asked for frames: after a restart rx waits for a new SET_ETHERNET_PACKET_FILTER
\* although it is the same thread as before.
GrantsUsedIfAsked == rx # "none" /\ enable => filtered = conn

\* The ring is used as the queue GrantQueue specifies, by both threads together.
ImplementsQueue == Ring!ImplementsQueue

\* A grant in the ring is used, whatever the number of grants before it and of
\* frames that are dropped, or else its connection or the process ends.
InRing(s) == \E i \in Ring!Pos : seq_array[i] = s

GrantsServed ==
    \A s \in Seqnums :
        (InRing(s) /\ enable /\ rx # "none") ~>
            (~InRing(s) \/ ~enable \/ exited)

\* When the peer is gone the server comes back to accept() (usbip.c:649,
\* "Restart ..."), unless the process has ended.
Restarts == (sock = "gone") ~> (main = "accept" \/ exited)
-----------------------------------------------------------------------------
(* What the protocol promises and this code does not keep.                 *)

\* doc/usbip_protocol.txt:314: the data of an answer follow its header at offset
\* 0x30.  A header with data is followed by these data and by nothing else.
Framed == parser # "torn"

\* doc/usbip_protocol.txt:48: USBIP_RET_SUBMIT(seqnum = n) answers the
\* USBIP_CMD_SUBMIT(seqnum = n) of the same TCP connection.
AnsweredWhereAsked == \A i \in DOMAIN answers : ~Stale(i)
=============================================================================
