--------------------------- MODULE MCUsbIpServer ----------------------------
(* The servers with what the kernel's drivers ask of each device: usbhid,    *)
(* cdc_acm, hso, cdc_ether and btusb.                                        *)
EXTENDS PyServer, Wire

\* The standard requests, which the same code answers for all the devices of a
\* server, are shared out.  SET_REPORT carries the lights of a keyboard, in one
\* byte.
MCAsks == [b \in Builds \cup PyBuilds |->
    CASE b = "keyboard" -> {Control(\h81, 6, \h22, \h3F), Control(\h80, 6, 3, 255),
                            Control(\h21, 9, 2, 1), Transfer(1, TRUE, 8)}
      [] b = "mouse"    -> {Control(\h81, 6, \h22, \h34), Control(\h21, \hA, 0, 0),
                            Control(\h80, 6, 1, 18), Transfer(1, TRUE, 4)}
      [] b = "acm"      -> {Control(\h21, \h20, 0, 2), Control(\h80, 6, 2, 9),
                            Transfer(2, TRUE, 64), Transfer(2, FALSE, 2)}
      [] b = "hso"      -> {Control(\h80, 6, 6, 10), Control(0, 9, 0, 0),
                            Control(\h40, \h82, 0, 0), Transfer(1, TRUE, 64)}
      [] b = "ether"    -> {Control(\h80, 6, \hF, 5), Control(1, \hB, 0, 0),
                            Control(\h21, \h43, 0, 0), Transfer(2, FALSE, 2)}
      [] b = "bt"       -> {Control(\h80, 6, 2, 9), Control(1, \hB, 0, 0),
                            Control(\h20, 0, 0, 2)}
      [] b = "pykeyboard" -> {Control(\h81, 6, \h22, \h3F), Control(\h21, 9, 2, 1),
                              Control(\h80, 6, 2, 9), Transfer(1, TRUE, 8)}
      [] b = "pymouse"  -> {Control(\h81, 6, \h22, \h34), Control(\h21, \hA, 0, 0),
                            Control(\h80, 6, 1, 18), Transfer(1, TRUE, 4)}]

\* The theorems of ServerProofs are about these requests too.
ASSUME MCTaken == AllTaken /\ AllAskedFor

\* The theorems about Wire on some messages of two words.
MCWords == [1 .. 4 -> {0, 1, 255}]

ASSUME MCWire ==
    \A first, last \in MCWords :
        LET w == <<first, last>> IN
        /\ Unpack(Pack(w)) = w
        /\ ControlRequest(Unpack(w)) = SentRequest(w)
        /\ PyControlRequest(w).wLength = SentRequest(w).wLength

\* The list gives a device's numbers in network byte order.  The import reply
\* agrees with it in a program that lists its device, unless hso has been given
\* another bus; and in the numbers only in cdc-ether, or if they read the same
\* both ways.
ASSUME MCReplies ==
    \A b \in Builds, bus \in {"1-1", "2-1"}, dev \in [Numbers -> {<<1, 1>>, <<1, 2>>}] :
        LET list  == DeviceList(dev)
            reply == ImportReply(b, dev, bus)
        IN
        /\ \A f \in Numbers : list.numbers[f] = <<dev[f][2], dev[f][1]>>
        /\ ~NoDeviceList(b) =>
             (reply.busID = list.busID <=> b # "hso" \/ bus = "1-1")
        /\ reply.numbers = list.numbers <=>
             b = "ether" \/ \A f \in Numbers : dev[f][1] = dev[f][2]
=============================================================================
