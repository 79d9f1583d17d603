-------------------------------- MODULE Wire --------------------------------
(***************************************************************************)
(* The byte order of requests and their answers: pack and unpack of        *)
(* c/usbip.c, the setup packet as handle_usb_control of c/usbip.c reads it, *)
(* and as python/USBIP.py does.  Also the replies that name the device.     *)
(*                                                                         *)
(* A message is a sequence of words, a word its bytes in the order of their*)
(* addresses or, on the wire, in the order in which they are sent.  The    *)
(* last two words are the setup packet, a long long of the host, which is  *)
(* little-endian.                                                          *)
(***************************************************************************)
EXTENDS Naturals, Sequences

Byte    == 0 .. 255
Word    == [1 .. 4 -> Byte]

\* USBIP_CMD_SUBMIT and USBIP_RET_SUBMIT have 12 words; what follows holds for
\* all lengths that have a setup packet.
Messages == {d \in Seq(Word) : Len(d) >= 2}

\* htonl and ntohl, which are the same.
Swapped(w) == [k \in 1 .. 4 |-> w[5 - k]]

Converted(d) == [i \in DOMAIN d |-> Swapped(d[i])]

\* The last two words change places.
SwapSetup(d) ==
    LET n == Len(d) IN [d EXCEPT ![n] = d[n - 1], ![n - 1] = d[n]]

\* From memory to the wire, and back.
Pack(d)   == SwapSetup(Converted(d))
Unpack(d) == SwapSetup(Converted(d))

\* The k-th byte of setup, from the most significant on: what the masks and
\* shifts of handle_usb_control give.
SetupByte(d, k) ==
    IF k <= 4 THEN d[Len(d)][5 - k] ELSE d[Len(d) - 1][9 - k]

\* ntohs of a number of 16 bits.
Exchanged(x) == 256 * (x % 256) + x \div 256

\* control_req.
ControlRequest(d) ==
    [bmRequestType |-> SetupByte(d, 1),
     bRequest      |-> SetupByte(d, 2),
     wValue0       |-> SetupByte(d, 3),
     wValue1       |-> SetupByte(d, 4),
     wIndex0       |-> SetupByte(d, 5),
     wIndex1       |-> SetupByte(d, 6),
     wLength       |-> Exchanged(256 * SetupByte(d, 7) + SetupByte(d, 8))]

\* The k-th byte of the setup packet on the wire.
SentByte(w, k) ==
    IF k <= 4 THEN w[Len(w) - 1][k] ELSE w[Len(w)][k - 4]

\* What a USB host puts there: numbers with the least significant byte first.
SentRequest(w) ==
    [bmRequestType |-> SentByte(w, 1),
     bRequest      |-> SentByte(w, 2),
     wValue0       |-> SentByte(w, 3),
     wValue1       |-> SentByte(w, 4),
     wIndex0       |-> SentByte(w, 5),
     wIndex1       |-> SentByte(w, 6),
     wLength       |-> SentByte(w, 7) + 256 * SentByte(w, 8)]

\* StandardDeviceRequest of the Python server.  The setup packet is read as one
\* number, most significant byte first, and turned into 16 digits again: its
\* bytes are those on the wire.  All fields are big-endian but wLength, which is
\* read like them and then exchanged.
PyControlRequest(w) ==
    [bmRequestType |-> SentByte(w, 1),
     bRequest      |-> SentByte(w, 2),
     wValue        |-> 256 * SentByte(w, 3) + SentByte(w, 4),
     wIndex        |-> 256 * SentByte(w, 5) + SentByte(w, 6),
     wLength       |-> Exchanged(256 * SentByte(w, 7) + SentByte(w, 8))]

-----------------------------------------------------------------------------
(* The replies to OP_REQ_DEVLIST and OP_REQ_IMPORT: what names the device.  *)

\* A number of 16 bits, as its bytes in the order of their addresses.
Half == [1 .. 2 -> Byte]

\* htons.
SwappedHalf(h) == <<h[2], h[1]>>

\* What they take from the device descriptor.
Numbers == {"idVendor", "idProduct", "bcdDevice"}
Devices == [Numbers -> Half]

DefaultBus == "1-1"

\* handle_device_list.
DeviceList(dev) ==
    [busID |-> DefaultBus, numbers |-> [f \in Numbers |-> SwappedHalf(dev[f])]]

\* handle_attach: three programs give the bus of their option -b, and one of
\* these has the numbers in network byte order.
ImportReply(b, dev, bus) ==
    [busID |-> IF b \in {"hso", "ether", "bt"} THEN bus ELSE DefaultBus,
     numbers |-> IF b = "ether" THEN [f \in Numbers |-> SwappedHalf(dev[f])] ELSE dev]
=============================================================================
