# USB/IP virtual devices: specifications, checks and proofs

The program emulates USB devices over USB/IP: a TCP server (`c/usbip.c`) linked
with one device (`c/hid-keyboard.c`, `c/hid-mouse.c`, `c/cdc-acm.c`, `c/hso.c`,
`c/cdc-ether.c`, `c/bt.c`), six programs in all, whose differences in the server
are the `-D` flags of `c/Makefile`. The client is `usbip` with the kernel's
`vhci-hcd`. This directory holds TLA+ models of it, the TLC configurations that
check them, and TLAPS proofs of what matters most in them for every size.

Paths below are relative to the repository, `usbip.c:571` is `c/usbip.c` line 571.

## 1. Inventory

| Component | State it keeps | Operations | Talks to |
|---|---|---|---|
| Server loop, `usbip_run` (usbip.c:409) | `attached`, the socket, `cmd`/`usb_req` of the present request | accept, device list, import, submit, unlink, close and restart | the client over TCP; calls the device's handlers |
| Control requests (usbip.c:228-387) | none | get descriptor, get status, set configuration, set interface; all else to the device | `send_usb_req` |
| Wire format (usbip.c:156-226, usbip.h) | none | `pack`, `unpack`, `send_usb_req` (one or two `send()`) | the socket |
| CDC Ethernet, grant ring (cdc-ether.c:366-374) | two arrays of 1000, two positions, a flag, a mutex | main puts IN transfers in, rx takes them out, a restart clears it | two threads |
| CDC Ethernet, receive thread (cdc-ether.c:619-699) | the frame, the socket's *number* | receive a frame, wait for a grant, send header and data | the ring, the socket that main writes to |
| CDC Ethernet, checksums (cdc-ether.c:386-456) | none | the checksum of a received UDP or TCP segment | the receive thread |
| CDC Ethernet, shutdown (cdc-ether.c:779-824) | the two threads' ids | `int_handler`: cancel and join rx, then main | both threads, at any of their steps |
| CDC Ethernet, the rest | tx buffer, raw socket | OUT frames to the network, promiscuous mode, options | the network |
| Bluetooth (bt.c:468-729) | twelve statics: stored command, stored transfer, rest of an event, progress of a scan | command, transfer, unlink | the host's HCI core |
| CDC ACM (cdc-acm.c:203-318) | echo buffer, `bsize`, line coding | bulk out, bulk in, line requests | the client |
| HSO (hso.c:194-211) | none | one vendor request | the client |
| HID keyboard and mouse | `count` of answers | reports, SET_IDLE, SET_REPORT | the client |
| Python server (`python/USBIP.py`) and its two devices | `attached`, `count` of answers | device list, import, requests; an exception ends it | the client |

What is hard in it:

- **Two threads, one socket** (cdc-ether). Main answers requests while rx answers
  older transfers. The mutex covers the ring and nothing else: rx has let go of
  it when it sends, and no lock covers the socket.
- **Restart** (all). When a client goes, the server takes the next one in the same
  process; statics, the receive thread and a grant in its hands stay.
- **Shutdown** (cdc-ether). A signal's handler joins a thread from wherever main was
  interrupted, its critical sections included.
- **Rendezvous** (bt). Commands and interrupt transfers come in any order, one of
  them is stored until the other comes; events and scan reports are cut to pieces
  of 16 bytes that go out one transfer at a time.
- **A byte stream** (all). What follows a header belongs to its request only if
  its handler reads it, and `recv()` may return less than it was asked for.
- **No answer** (all). A request that no branch handles is silently not answered.

`PROJECT.json` lists each of these at its line under "hazards", with the
properties below that cover it, or why none does.

What makes each component correct: the ring is a bounded queue (each grant used
once, in order, with its own size) and nothing in it outlives its connection; rx
answers in order and only with frames that fit; the server comes back to `accept()`; an
event reaches the Bluetooth host whole and every command gets one; no piece is sent from
outside its array; every handler takes just its request's data; control requests
are answered, once, in order, and not longer than asked; a checksum is one that the
receiver takes; SIGTERM ends the process.

## 2. Modules

| Module | Models | Uses |
|---|---|---|
| `GrantQueue` | abstract: a bounded queue of grants | |
| `GrantRing` | the ring, one action per critical section of `rx_data_send_mutex` | refines `GrantQueue` |
| `EtherRx` | `usbip_run` as cdc-ether compiles it, `rx_data_thread`, a client | `Ring == INSTANCE GrantRing` |
| `EtherShutdown` | `int_handler` on either thread, the two locks | |
| `Checksum` | the first half of `send_usb_req_data` | |
| `HciController` | abstract: a controller as its host sees it | |
| `BtControl` | `process_bt_control`, `handle_unlink`, the host, the connection | refines `HciController` |
| `UsbRequests` | which request gets which answers in each build, in C and in Python (operators only) | |
| `UsbIpSession` | abstract: what a server promises its clients, without a stream | `UsbRequests` |
| `UsbIpServer` | `usbip_run` of all six builds over a stream of units, a client | `UsbRequests` |
| `PyServer` | `USBContainer.run`; the specification of all eight programs | extends `UsbIpServer` for its client and stream; refines `UsbIpSession` |
| `Wire` | `pack`, `unpack`, the setup packet in both servers, the two replies (operators only) | |
| `MC*` | instances for TLC | |
| `GrantRingProofs`, `EtherRxProofs`, `EtherShutdownProofs`, `ChecksumProofs`, `BtControlProofs`, `BtHostProofs`, `ServerProofs`, `WireProofs` | theorems | the module they name; `BtHostProofs` extends `BtControlProofs`, `ServerProofs` extends `PyServer` |

**GrantRing / GrantQueue.** `seq_array`, `size_array`, `current_pos`, `next_pos`
and `enable` are the code's variables without their prefix. `Submit` is
cdc-ether.c:737-743, `Take`, `TooSmall`, `Disabled` the three outcomes of a pass
through cdc-ether.c:458-485, `Enable` and `Stop` start_rx_data and rx_data_process_stop.
`outstanding` counts the client's transfers: the code writes the next slot without
a look at it (line 740), so that the queue depends on the client keeping at most
`ArraySize` transfers out: `Window <= ArraySize`, the assumption of the theorems.
The array has 1000 slots; a network driver keeps some tens of transfers submitted.
`GrantQueue` says what the ring promises; the refinement
mapping reads the queue off the two arrays from `current_pos` on.

**EtherRx.** A step is a critical section, one `send()` or `sendto()`, or one `recv()` with what
follows it up to the next of these. `main` and `rx` are the two threads' places.
rx keeps the socket's number; `accept()` gives the lowest free number, so what it
sends goes to whichever connection is open by then (`sock`, `conn`). `parser` is
what the client expects next on the stream. `asked`, `answers` and `filtered` are history.

**EtherShutdown.** Of the two threads only what counts here is kept: which of
`rx_data_send_mutex` and stdio's lock of stdout they hold or wait for, and which of
their calls act on a cancellation. `Deliver` puts `int_handler` on a thread, over
whatever that was doing; `HandlerPrints`, `JoinsRx`, `JoinRefused` and `Dies` are its
steps. A thread that is cancelled with the mutex locked leaves it locked (there is no
cleanup handler), and stdio unlocks stdout. The process's other end, a command
that `usbip_run` does not know, is `Quit` in `EtherRx`.

**Checksum.** A byte per step, added to a `uint32_t`; `Fold` is a pass of
`net_checksum_finish`. `Byte` stands for 256: the types have the widths `Word`
and `Width` that follow from it. `total` is a history variable, the same sum as a number
without a width. `Dispatch` chooses the frames that get a checksum, and `Length` wraps as
its `uint16_t` does for a frame whose total length is below its header's. Payload and
addresses are added to one sum, in the code to two that are added up then.

**BtControl.** One action for each way through `process_bt_control`, named in the
module; the twelve statics have the code's names. A byte is its event and its
place in it; a piece on the way is `[seq, event, from, size]`. `careful` is a host
that waits for the end of a scan before it sends a command, and goes away only between whole
events; it is chosen at the begin and never changes, so that one run has both kinds. `btusb` is
careful as long as its user is. `HciController` is what such a host is promised, without transfers, stores
or statics: the event of its command, and after that of a scan every device once, in the order of the table.
Of another host nothing is promised, as the two violations show: the mapping `Seen` is constant for it.

**UsbRequests and UsbIpServer.** A message is units in a stream, two for a header
and one for each byte of data; `Recv` takes what is there of what it is asked for.
`pc` is where `usbip_run` is. `misread` is set when other units than a header's are taken for a header;
the model stops there, since the server could do anything. `Pieces` says whether
the network may deliver part of a message. The client is `usbip list` or `usbip attach` and makes the
requests that the device's driver makes (`MCAsks`), pipelined, and gives up those
that stay unanswered.

**PyServer.** The same client and stream, another server: `pc = "hello"` is the one
`recv()` loop of USBIP.py:423-465, and `attached` decides what a header is there.
`Raise` is an exception, which nothing catches: `struct.unpack` wants all bytes of a
header, `sendall` and `recv` a connection. The interpreter is Python 2:
`int_to_hex_string` and the strings given to `struct.pack` need it. `AllSpec` is the
specification of the six programs and these two: they promise a client the same, so that the
same properties and theorems are about all of them. `held` is a history variable, the key
that the last report left down, of the C keyboard too. `AllTaken` is the condition under which
client and server stay in step, that some handler receives the data of every request that is made.
`AllAskedFor` is the one under which no answer is longer than asked: what the devices send whole,
descriptors and reports, clients ask for whole.

**UsbIpSession.** A message is one thing here, there is no stream and no place in a program: the
client connects, sends and leaves, and the server deals with the first message that is pending, all
of it, in one step. `Reply` is what the device answers in its present state. The mapping, at the end of
`PyServer`, reads `pending` off the stream (`Unserved`): the messages whose first unit has not
been received, and the one whose bus id or data are being received. So a message is dealt with in the step
that answers it, and receiving a header with data is a stutter. A client that has left is seen as
having sent nothing; what the server still does with its requests shows in the device's state
only (`Leftover`), which the next client finds as it is.

**Wire.** A message is a sequence of words of four bytes, in the order of their addresses or
of the wire. `setup` is the host's long long in the last two words; `SetupByte` is what a mask
and a shift of `handle_usb_control` give of it. `SentRequest` is the setup packet as
USB defines it. `DeviceList` and `ImportReply` are the fields of the two replies that name the
device. `MCUsbIpServer` evaluates `AllTaken` and `AllAskedFor` for its requests (`MCTaken`), the equations on 6561 messages (`MCWire`), and on some
devices in which builds the two replies agree (`MCReplies`): the import reply leaves `idVendor`,
`idProduct` and `bcdDevice` in the host's byte order in all builds but cdc-ether
(usbip.c:139), where doc/usbip_protocol.txt:87 has network order and `handle_device_list`
converts them; and hso names the bus of its option `-b` only there.

## 3. Runs

| Run | Question | Result |
|---|---|---|
| `grant_ring` | is the ring a queue, full, empty and wrapping? `Shape`, `SizesMatch`, `ImplementsQueue` | holds |
| `ether_rx` | two threads, two connections: `GrantsOfThisConn`, `AnswersInOrder`, `OnlyFirstIsStale`, `GrantsUsedIfAsked`, `ImplementsQueue` | holds |
| `ether_live` | `GrantsServed`, `Restarts` | holds |
| `ether_framing` | are header and data of an answer together? `Framed` | **violated** |
| `ether_stale` | is a transfer answered on its own connection? `AnsweredWhereAsked` | **violated** |
| `ether_shutdown` | SIGTERM at any place, up to three times: `NoWaitForTheDead`, `EndsUnlessStuck`, `SecondSignalEnds` | holds |
| `checksum` | all segments of small bytes: `NoOverflow`, `Accepted`, `Finishes` | holds |
| `bt` | any host: `Rendezvous`, `PiecesInside`, `ExpectedOnly`; a careful one: `WholeEvents`, `CommandsServed`, `ScansEnd`, `ImplementsController` | holds |
| `bt_tear` | any host: `AnyHostWholeEvents` | **violated** |
| `bt_wedge` | any host: `AnyHostCommandsServed` | **violated** |
| `server` | eight programs, their drivers' requests: `Aligned`, `NeverRefused`, `InOrder`, `AnswersFit`, `EchoOnce`, `KeyReleased`, `StaysUp`, `OneImport`, `ControlServed`, `BackToAccept`, `ImplementsSession` | holds |
| `server_pieces` | a message in two segments: `NeverRefused` | **violated** |

Each passing run but `ether_live` also checks its module's type invariant (`TypeOK`,
`AllTypeOK` in `server`). Every property has a variant
of one definition (marked "Variant" beside it, listed under "mutants") that
breaks it under the same configuration.

The five violations are where the code and what is written about it part:

1. `ether_framing`: an answer of main lands between header and data of an answer
   of rx. The client reads data as a header.
2. `ether_stale`: rx takes a grant, the client goes, the next one is accepted, and
   gets the answer to a transfer it never submitted. `OnlyFirstIsStale` says that
   at most one header on a connection is of this kind, the first that rx sends; the data of an answer
   whose header went to the last client may land on the connection too, which is for `Framed` to see.
3. `bt_tear`: a command during a scan gets its event in the middle of a report.
4. `bt_wedge`: a stored command that is unknown, or cut off by a disconnection, stays
   stored; every later command is dropped, also on later connections.
5. `server_pieces`: a message that arrives in two segments ends its connection.

`ether_shutdown` holds with a reservation that the property names: SIGTERM ends the process
unless main was interrupted with a lock in its hands, the mutex or stdout's, that rx waits
for (`Stuck`). Then `pthread_join` waits for rx and rx for main. A second signal runs the handler on
rx, which cancels main, and so resolves the deadlock over the mutex (`SecondSignalEnds`); the one
over stdout it does not, since the handler itself begins with `printf`. Nothing in the repository
promises that a signal ends the program, so this is a property and not a finding.

**Bounds.** `grant_ring`: three slots and three transfers, so that the ring is full,
empty and wraps at every position. With four transfers `Shape` fails: that the window is no larger than the
ring (the theorems' `Window <= ArraySize`) is what the code relies on and nowhere looks after. `ether_rx`: two connections (what outlives the first
meets the second), two slots, three grants (one more than the ring holds), two
sizes (one frame fits, one does not). `ether_live`: two grants, because the graph is searched for
cycles. `ether_shutdown`: three signals; the second one goes to rx, and the
third finds both threads in the handler and stays pending. `checksum`: bytes of 5 values (the least for which what is
added at the end is less than two words), words of 25, total lengths of 2, 3, 6 and 9 and headers of 3 and 4 bytes, so that there are odd and
even payloads, an empty one, and a length below 0, which makes the longest segment there is; the theorems hold for
every size. `bt*`: nothing is counted, so the state space is finite without a bound: one command
for each kind of event (fits, does not fit, scan, unknown), four devices (three long ones of
different lengths, one short), pieces of two bytes, three sequence numbers that are
used again. `server`: two connections, since what is left over needs one to leave it
and one to find it; four messages, which is the import and three requests, so
that a request waits behind one with data and behind one with no answer; `Limit = 2`
so that a device runs out of answers inside that
(the code's 20 and 100 are even as well, which `KeyReleased` needs). Sizes stand for more or
less than asked, one byte or two. Messages arrive whole (`Pieces` is FALSE) but in
`server_pieces`, which needs one connection only.

**Fairness.** `WF` of a thread's own steps: a runnable thread runs. `SF` of
`RecvShort` once the peer is gone: what is left in the socket's buffer is used up,
then `recv()` returns 0. `SF` of `ReceiveFrame(LeastSize)`: the network goes on
bringing a frame that fits; without it a grant is rightly never used. In `EtherShutdown`
a signal that no thread masks is delivered, rx runs, and `SF` of `MainEnds`: a thread that waits for stdout
gets it when rx lets go of it again and again, as a futex's queue sees to; what
main serves, and what frames arrive, is not assumed. In `Checksum` the thread runs. In `BtControl` the server
reads on, a host that is there submits its transfer again, as `btusb` does in its
completion handler, and takes what has arrived. In `UsbIpServer` and `PyServer` the server
runs and the network delivers; that a connection is reset is possible, never assumed. No
client is assumed to send anything else, to stay or to leave.

## 4. Proofs

TLAPS checks these for every value of the constants that meets the assumptions
named in the modules.

- `GrantRingProofs`: `RingTypeCorrect`, `RingSound` (`Shape`), `RingSizesMatch` and
  `RingImplementsQueue`, for any `ArraySize` and `Window <= ArraySize`. `Shape`
  is what makes the three inductive: `next_pos` is `outstanding` slots ahead of
  `current_pos`, and just these slots are taken. Equal positions alone
  do not tell an empty ring from a full one.
- `EtherRxProofs`: `EtherImplementsQueue`, `EtherTypeCorrect`,
  `EtherRestartIsClean` (`GrantsOfThisConn`), `EtherSilentUnlessAsked`
  (`GrantsUsedIfAsked`), `EtherAnswers` (`AnswersInOrder`) and `EtherOneStaleAnswer`
  (`OnlyFirstIsStale`), for any number of transfers and
  connections. The steps of both threads are steps of the ring (`StepsOfRing`), so
  that its invariant is used as it stands. The invariant of the threads adds that the
  grants in the ring are all of this connection, grow in the order the reader
  comes to them, and are later than the one rx has in its hands and than all it
  has answered: this gives the order, and that only the one in rx's hands can be
  of an older connection.
- `EtherShutdownProofs`: `ShutdownTypeCorrect` and `NobodyWaitsForTheDead`
  (`NoWaitForTheDead`), for any number of signals. The invariant (`OnlyHandlersCancel`) says that a
  thread dies only of a cancellation, that main is in `int_handler`, for good, before anybody is
  cancelled or rx runs it, and that main is cancelled only when rx has ended or runs it too.
  `ShutdownEnds`: when main is in `pthread_join` there is a number (`Left`), at most 14, that each step but
  another signal makes less: the calls of `int_handler` that are left on both threads, and how far rx is from a
  call that acts on its cancellation. It counts down because rx has been cancelled before main joins it (`JoinInv`).
- `ChecksumProofs`: `ChecksumTypeCorrect`, `ChecksumNoOverflow`, `ChecksumAccepted`,
  for bytes of any number of values from 5 on, so also for 256, any frame and any content. `Bound` is
  that two bytes add at most `Word - 1`, so that a segment of less than `Word` bytes
  adds less than `Width`; each fold takes a multiple of `Word - 1` away and leaves more than 0.
  That the sum is not 0 comes from the protocol's number, which is added to it.
  `ChecksumEnds` has a measure for the loops (`StepsLeft`), a natural number that each step makes
  less: the bytes to come, and in the folding loop the sum itself.
- `ServerProofs`: `ServerTypeCorrect` (`AllTypeOK`), `AnswersInOrder` (`InOrder`),
  `AttachedHasImported` (`OneImport`) and `LastReportReleases` (`KeyReleased`), for
  all eight programs, any requests, pieces of any length, any number of
  connections. The argument is about the stream, that is what the server has still to receive: a message's first
  unit comes in it after all units of earlier messages (`StreamInv`), and after those
  of every message that has been answered (`AnswersInv`). So each header that is read is of a later
  message than all that have been answered. It holds whether the server is in step with the
  messages or not. `ServerAssumption` has what it needs of the
  requests: that they are requests, with the direction of a control request in the first bit of its
  type as USB defines it, and that no driver writes to endpoint 1 of the
  serial device, which would be answered twice; and that `Limit` is even.
  `WrittenComesBackOnce` (`EchoOnce`) needs no more: while there are bytes in the buffer, a
  request has been dealt with that wrote them, and none that sent them back since (`EchoInv`).
  `WholeMessagesAlign` (`Aligned`), `WholeMessagesServed` (`NeverRefused`) and
  `ProcessStaysUp` (`StaysUp`) have two conditions more, that messages arrive whole (`~Pieces`) and
  `AllTaken`; the run `server_pieces` shows what happens without the first. In the
  stream each unit is followed by the next one of its message, or the first of the next
  (`FramedIn`). While the client is there, what has arrived ends with a
  message's end (`WholeIn`), so that `recv()` of what is due gets all of it and what comes then is a
  header, which is there in full (`FirstInv`). So nothing ends a connection, or the process, but a client that goes.
  `SessionsServed` (`ImplementsSession`), under the same two conditions: a step that receives a
  header or data takes just the first of the pending messages out of the stream, or leaves
  all pending, and answers what the session's device answers.
  What it needs besides is that a connection begins with its list or its import, that the client's phase
  tells which, and that only messages of the right kind come after it (`SessionInv`).
  `AnswersFitAsked` (`AnswersFit`) has one condition, `AllAskedFor`, and none on the network: every answer
  is to a request of the client's, and each way through the handlers is followed to a length that fits; of the serial
  device's buffer, that the bytes in it were once written by some request of the client's.
  `ServerRests` has no condition. A natural number (`Work`: what is on its way, what has arrived,
  and how much of a message is begun) grows with the client's steps only; each step of the
  server or the network makes it less, unless it ends the connection or the process. So no loop
  goes round for nothing, also where `recv()` returns at once at the end of the stream.
- `BtControlProofs`: `BtTypeCorrect`, `BtRendezvous`, `BtPiecesInside`, for any
  host. `frag_message_pos` is below `frag_message_length` while that is not 0, and the latter is the
  size of an event of the table (not always of the one in `buffer`). It is kept in a byte, so
  `BtAssumption` bounds the events by `MaxLength`; bt.c:385 comes to 254, two short of what would be lost;
  `scanning_frag_device_pos` is a multiple of `MaxControl` inside the long device
  that comes next, in this scan and in one that starts again. A scan that
  starts again in the middle of another needs this; it is no property of the
  algorithm but of the table, and stands as `DevicesAssumption`. It holds for bt.c:450-464
  (the first device has 32 bytes, and positions in the others are 16 and 32); with the
  device of 24 bytes in the first place the length computed at bt.c:583 could be negative.
  `BtAdvances`: each transfer that meets no command takes the event in `buffer` on, or else the scan, and
  only a scan command takes a scan back. A piece may be empty, where a scan has been started again at the end of its
  first long device, but that piece goes on to the next device.
- `BtHostProofs`: `BtExpectedOnly`, for any host. The host's transfer is in one place at a
  time: on the way, stored, or answered (`OnePlace`). A stored transfer outlives the unlink and the
  connection that end it, so that a stale one may be there besides; but a host that opens the device
  sends its transfer before any command, and that takes the stale one's place before a command
  meets it. And nothing comes behind an unlink and its answer (`UnlinkLast`).
  `BtWholeEvents`, for a careful host: what it has read of an event is what the statics say has been sent of
  it, but for the one piece that may be on the way (`InStep`). The pieces of two events never mix, because the
  command the host waits for is in one place at a time as well (`CommandPlace`), and nothing that
  could start another event is on the way while one is half sent. The exception is the default event,
  which the controller sends unasked and which may stand for the answer of a command that is still on the
  way (`Unasked`): it must fit one transfer (`BtAssumption`), as the 14 bytes of bt.c:379 do.
  `BtImplementsController`: a careful host sees an `HciController`. Only its own steps show: a command
  sent, a piece read, a command given up; all that the server does with what it stores is a stutter. What the
  host expects next of a scan is the device of the piece on the way, or `scanning_device_pos` (`NextDevice`);
  `ScanPlace` relates the two.
- `WireProofs`: `UnpackUndoesPack`, `FieldsAreSent` and `ServersAgree`, for messages of
  any length and all bytes. `htonl` turns each word round, and the two words of
  `setup` change places: together the eight bytes are turned round, which is the order
  that the masks count in (`SetupBytes`).

Only model-checked: the liveness properties (`GrantsServed`, `Restarts`, `EndsUnlessStuck`,
`SecondSignalEnds`, `Finishes`, `CommandsServed`, `ScansEnd`, `ControlServed`, `BackToAccept`), which
need fairness and `ENABLED`, that TLAPS does not treat. Of five of them the part that is safety is proved: that
`Finishes`, `BackToAccept`, `EndsUnlessStuck` and `SecondSignalEnds` do not fail in a loop (`ChecksumEnds`,
`ServerRests`, `ShutdownEnds`), nor `ScansEnd` in a scan that stands still (`BtAdvances`). That a
thread which can take a step takes it, and is not left waiting, stays with TLC.

## 5. Not modelled

- **Raw sockets and options** of cdc-ether: opening, binding, the promiscuous mode, option
  parsing. System calls in a fixed order, whose failures end the program before it serves.
- Contents: descriptors, reports, event bytes; of the two replies all but
  the device's bus and numbers.
- Memory outside what a property names: array bounds of the buffers of cdc-acm and
  the keyboard, uninitialised bytes on the wire.
- In `EtherShutdown`: other ends of the process (`exit` in a thread), other signals than
  SIGTERM, and a system that gives a signal to any thread (Linux prefers main).
- In `Checksum`: frames that are IP but shorter than their headers, where the code reads what
  the buffer held before.
- In `UsbIpServer`: a command above 2 (which ends the process, `EtherRx` has it); an
  unknown operation before the import, which is read and ignored, here and in `PyServer`; a second client that
  waits in the backlog; the data of an OUT transfer that nobody reads (hso, bt endpoint 2), since `Aligned` is
  about the requests in `MCAsks`.
- Ends of the process that no property forbids, as the code has them in so many words (`exit(-1)`, an exception
  that nothing catches): a frame the network does not take, a SET_REPORT or SET_LINE_CODING cut off by the client's
  end, any client that leaves the Python server. The models have these steps; `Restarts`, `BackToAccept` and
  `StaysUp` say what may happen besides.
- What a host that is not careful does to events that are half sent, when it unlinks or leaves in the middle of
  one: `WholeEvents` and `ImplementsController` are about a careful host, `bt_tear` and `bt_wedge` about any.
- Lengths below 0: a transfer with `bl < 0`, which cdc-ether.c:468 would compare as unsigned and no
  driver submits, and the -1 of a failing `recv()` in `bsize` (cdc-acm.c:239), which nobody reads because the
  `send()` after it ends the process.
- In `PyServer`: the delay between reports, a Python 3 interpreter.
- In `EtherRx`: `USBIP_CMD_UNLINK`, which this build only prints. The unlinked transfer stays
  in the ring, so `Window` counts it: a client that unlinks has one more out than it thinks.
- The Windows build, the packaging and the robot tests, which have no behaviour of their own.

## 6. Plan

Done, in this order: the grant ring and its queue; the two threads of cdc-ether;
the Bluetooth controller; the proofs of these three; the server loop with all devices' requests; the Python server; the
wire format and the replies; the shutdown; the checksums; the proofs of these and of the servers;
what the Bluetooth controller promises a careful host, and the proof that it does; the proofs about the servers when
messages arrive whole; the lengths of answers; the session that all servers implement, and the proof that they do;
measures for the loops of the server, of the checksum, of the shutdown and of a scan.

Next: the place of a grant in the ring, which no step but `Stop` moves away from the reader (`GrantsServed`); when
header and data of an answer are together in spite of the two threads, that is what a client must refrain from for
`Framed` to hold on its connection.
