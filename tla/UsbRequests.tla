---------------------------- MODULE UsbRequests -----------------------------
(***************************************************************************)
(* What the emulated devices answer to a request: handle_usb_control of    *)
(* c/usbip.c with handle_unknown_control and handle_data of each device.   *)
(* A build is one of the six programs of c/Makefile; the -D flags it is    *)
(* compiled with are in the operators below.                               *)
(*                                                                         *)
(* Of an answer only actual_length and status matter here, of a request    *)
(* only what the code branches on.  A request without an answer is one     *)
(* that its host waits for until it gives up.                              *)
(***************************************************************************)
EXTENDS Naturals, Sequences

CONSTANT
    StringSize      \* bLength of a string descriptor

Builds == {"keyboard", "mouse", "acm", "hso", "ether", "bt"}

\* The two programs of python/, which are one device each as well.
PyBuilds == {"pykeyboard", "pymouse"}

Keyboards == {"keyboard", "pykeyboard"}
Mice      == {"mouse", "pymouse"}

\* The flags that decide what usbip_run and the control requests do.
NoDeviceList(b) == b \in {"ether", "bt"}
NoQualifier(b)  == b \in {"ether", "bt"}
Bos(b)          == b = "ether"

\* A control request: bmRequestType, bRequest, wValue1, wLength.
Control(type, request, value, length) ==
    [ep |-> 0, in |-> type >= \h80,
     type |-> type, request |-> request, value |-> value, length |-> length]

\* A transfer on another endpoint.
Transfer(ep, in, length) ==
    [ep |-> ep, in |-> in,
     type |-> 0, request |-> 0, value |-> 0, length |-> length]

\* A message of a client, with a request if it is a submit.
NoData == [ep |-> 0, in |-> TRUE, type |-> 0, request |-> 0, value |-> 0, length |-> 0]
Message(kind, r) == [kind |-> kind, req |-> r]

Least(m, n) == IF m < n THEN m ELSE n

\* The answers to one request: none, one without data, one with n bytes, one
\* with a status that is not 0.
Silence == << >>
Done    == <<[size |-> 0, status |-> 0]>>
Data(n) == <<[size |-> n, status |-> 0]>>
Failed  == <<[size |-> 0, status |-> 1]>>

\* The answers as the client gets them, as to message i.
AnswersFor(i, as) ==
    [k \in 1 .. Len(as) |-> [to |-> i, size |-> as[k].size, status |-> as[k].status]]

\* sizeof of the structures that are sent whole.
DeviceSize         == 18
BosSize            == 5
BosCapabilitySize  == 12

\* Variant: wLength is not looked at.
GetDescriptorWhole(b, r) ==
    CASE r.value = 1              -> Data(DeviceSize)
      [] r.value = 2              -> Data(32)
      [] r.value = 3              -> Data(StringSize)
      [] r.value = 6              -> IF NoQualifier(b) THEN Done ELSE Data(r.length)
      [] r.value = \hA            -> Failed
      [] r.value = \hF /\ Bos(b) /\ r.length \in {BosSize, BosCapabilitySize}
                                  -> Data(r.length)
      [] OTHER                    -> Silence

\* handle_get_descriptor.  The device and the strings are sent whole, what is
\* asked of a configuration is sent, however long that is.
GetDescriptor(b, r) ==
    CASE r.value = 1              -> Data(DeviceSize)
      [] r.value = 2              -> Data(r.length)
      [] r.value = 3              -> Data(StringSize)
      [] r.value = 6              -> IF NoQualifier(b) THEN Done ELSE Data(r.length)
      [] r.value = \hA            -> Failed
      [] r.value = \hF /\ Bos(b) /\ r.length \in {BosSize, BosCapabilitySize}
                                  -> Data(r.length)
      [] OTHER                    -> Silence

(* handle_unknown_control of each device. *)

\* SET_IDLE and SET_REPORT, beside the report descriptor.
KeyboardControl(r) ==
    CASE r.type = \h81 /\ r.request = 6 /\ r.value = \h22 -> Data(\h3F)
      [] r.type = \h21 /\ r.request \in {\hA, 9}          -> Done
      [] OTHER                                            -> Silence

MouseControl(r) ==
    CASE r.type = \h81 /\ r.request = 6 /\ r.value = \h22 -> Data(\h34)
      [] r.type = \h21 /\ r.request = \hA                 -> Done
      [] OTHER                                            -> Silence

\* Variant: SET_LINE_CODING falls through to the next answer.
AcmControlTwice(r) ==
    CASE r.type = \h21 /\ r.request = \h20          -> Done \o Done
      [] r.type = \h21 /\ r.request \in {\h22, \h23} -> Done
      [] OTHER                                      -> Silence

\* The line coding is read at \h21, beside the requests that set it.
AcmControl(r) ==
    CASE r.type = \h21 /\ r.request = \h21                 -> Data(7)
      [] r.type = \h21 /\ r.request \in {\h20, \h22, \h23} -> Done
      [] OTHER                                            -> Silence

HsoControl(r)   == IF r.type = \h40 /\ r.request = \h82 THEN Done ELSE Silence
EtherControl(r) == IF r.type = \h21 /\ r.request = \h43 THEN Done ELSE Silence

HciControl(r) ==
    IF r.type = \h20 /\ r.request = 0 /\ r.length # 0
      THEN Data(r.length) ELSE Silence

ClassAnswers(b, r) ==
    CASE b = "keyboard" -> KeyboardControl(r)
      [] b = "mouse"    -> MouseControl(r)
      [] b = "acm"      -> AcmControl(r)
      [] b = "hso"      -> HsoControl(r)
      [] b = "ether"    -> EtherControl(r)
      [] b = "bt"       -> HciControl(r)

\* handle_usb_control: what no branch has handled goes to the device.
ControlAnswers(b, r) ==
    LET standard ==
          CASE r.type = \h80 /\ r.request = 6 -> GetDescriptor(b, r)
            [] r.type = \h80 /\ r.request = 0 -> Data(2)
            [] r.type = 0 /\ r.request = 9    -> Done
            [] r.type = 1 /\ r.request = \hB  -> IF b = "ether" THEN Done ELSE Failed
            [] OTHER                          -> Silence
    IN IF standard = Silence THEN ClassAnswers(b, r) ELSE standard

\* The requests whose data a handler takes from the connection, device by device:
\* SET_REPORT, SET_LINE_CODING, what is written to the serial line, a frame for
\* the network, an HCI command.
ReportIn(r)     == r.type = \h21 /\ r.request = 9
LineCodingIn(r) == r.type = \h21 /\ r.request = \h20
SerialIn(r)     == r.ep \in {1, 2} /\ ~r.in
FrameIn(r)      == r.ep = 2 /\ ~r.in /\ r.length # 0
CommandIn(r)    == r.type = \h20 /\ r.request = 0 /\ r.length # 0

\* Nobody takes the data of any other request: it stays in the stream.
Reads(b, r) ==
    \/ b = "keyboard" /\ ReportIn(r)
    \/ b = "acm" /\ (LineCodingIn(r) \/ SerialIn(r))
    \/ b = "ether" /\ FrameIn(r)
    \/ b = "bt" /\ CommandIn(r)

\* What a handler does that gets less than that: the process ends (a report, a
\* line coding), the request is forgotten (a frame), or it goes on with what it
\* has (what is written to the serial line, a command).
ShortExits(b, r) == b \in {"keyboard", "acm"} /\ r.ep = 0
ShortDrops(b)    == b = "ether"

Short(b, r) ==
    CASE ShortExits(b, r) -> "exit"
      [] ShortDrops(b)    -> "drop"
      [] OTHER            -> "answer"

(* handle_data of each device.  The IN transfers on endpoint 1 of "ether"    *)
(* and "bt" are answered later, as EtherRx and BtControl say.               *)

\* count is a static, limit the answers that are given in all.
KeyboardData(count, limit) == IF count < limit THEN Data(8) ELSE Silence
MouseData(count, limit)    == IF count < limit THEN Data(4) ELSE Silence

\* bsize bytes wait in the buffer.
AcmData(r, bsize) ==
    CASE r.ep = 1 /\ ~r.in              -> Done \o Done
      [] r.ep = 2 /\ r.in /\ bsize > 0  -> Data(bsize)
      [] r.ep \in {1, 2}                -> Done
      [] OTHER                          -> Silence

EtherData(r) ==
    CASE r.ep = 3 /\ r.in                   -> Done
      [] r.ep = 2 /\ ~r.in /\ r.length # 0  -> Data(r.length)
      [] OTHER                              -> Silence

DataAnswers(b, r, count, limit, bsize) ==
    CASE b \in Keyboards -> KeyboardData(count, limit)
      [] b \in Mice      -> MouseData(count, limit)
      [] b = "acm"       -> AcmData(r, bsize)
      [] b = "ether"     -> EtherData(r)
      [] OTHER           -> Silence

(* The devices of python/: handle_usb_control of USBIP.py, and              *)
(* handle_unknown_control of hid-keyboard.py and hid-mouse.py.              *)

\* The configuration with its interface, HID descriptor and endpoint.
ConfigurationSize == 9 + 9 + 9 + 7

\* Variant: wValue is read in the host's byte order, in which no value is below
\* 256.
PyGetDescriptorSwapped(r) == Silence

\* handle_get_descriptor.  wValue is read with its bytes exchanged, so that the
\* type of the descriptor is what counts for one whose index is 0.
PyGetDescriptor(r) ==
    CASE r.value = 1   -> Data(DeviceSize)
      [] r.value = 2   -> Data(Least(ConfigurationSize, r.length))
      [] r.value = \hA -> Failed
      [] OTHER         -> Silence

\* handle_unknown_control.
HidControl(b, r) ==
    CASE r.type = \h81 /\ r.request = 6 /\ r.value = \h22 ->
            Data(IF b = "pykeyboard" THEN \h3F ELSE \h34)
      [] r.type = \h21 /\ r.request = \hA                       -> Done
      [] b = "pykeyboard" /\ r.type = \h21 /\ r.request = 9     -> Done
      [] OTHER                                                 -> Silence

\* handle_usb_control: what is not handled goes to the device.
PyControlAnswers(b, r) ==
    LET standard ==
          CASE r.type = \h80 /\ r.request = 6 -> PyGetDescriptor(r)
            [] r.type = \h80 /\ r.request = 0 -> Data(2)
            [] r.type = 0 /\ r.request = 9    -> Done
            [] OTHER                          -> Silence
    IN IF standard = Silence THEN HidControl(b, r) ELSE standard
=============================================================================
