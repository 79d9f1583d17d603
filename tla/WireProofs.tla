----------------------------- MODULE WireProofs -----------------------------
(* Theorems about Wire, for messages of every length.                      *)
EXTENDS Wire, TLAPS

\* The network order of the network order is the host's.
LEMMA SwappedTwice ==
  ASSUME NEW w \in Word
  PROVE  /\ Swapped(w) \in Word
         /\ Swapped(Swapped(w)) = w
<1>1. Swapped(w) \in Word
  BY DEF Word, Swapped
<1>2. \A k \in 1 .. 4 : 5 - k \in 1 .. 4 /\ 5 - (5 - k) = k
  OBVIOUS
<1>3. Swapped(Swapped(w)) = [k \in 1 .. 4 |-> w[k]]
  BY <1>2, SMTT(30) DEF Swapped
<1>4. w = [k \in 1 .. 4 |-> w[k]]
  BY DEF Word
<1> QED
  BY <1>1, <1>3, <1>4

\* The words of a packed message: each converted, the last two exchanged.
LEMMA PackedWords ==
  ASSUME NEW d \in Messages
  PROVE  /\ Unpack(d) \in Messages
         /\ Len(Unpack(d)) = Len(d)
         /\ Unpack(d)[Len(d)] = Swapped(d[Len(d) - 1])
         /\ Unpack(d)[Len(d) - 1] = Swapped(d[Len(d)])
         /\ \A i \in 1 .. Len(d) - 2 : Unpack(d)[i] = Swapped(d[i])
<1> DEFINE n == Len(d)
           c == Converted(d)
<1>1. n \in Nat /\ n >= 2 /\ DOMAIN d = 1 .. n /\ \A i \in 1 .. n : d[i] \in Word
  BY DEF Messages
<1>2. c \in Seq(Word) /\ Len(c) = n /\ DOMAIN c = 1 .. n
  <2>1. c = [i \in 1 .. n |-> Swapped(d[i])]
    BY <1>1 DEF Converted
  <2>2. \A i \in 1 .. n : Swapped(d[i]) \in Word
    BY <1>1, SwappedTwice
  <2> QED
    BY <1>1, <2>1, <2>2
<1>3. \A i \in 1 .. n : c[i] = Swapped(d[i]) /\ c[i] \in Word
  BY <1>1, SwappedTwice DEF Converted
<1> HIDE DEF c
<1>4. Unpack(d) = [c EXCEPT ![n] = c[n - 1], ![n - 1] = c[n]]
  BY <1>2 DEF Unpack, SwapSetup, c
<1>5. n \in 1 .. n /\ n - 1 \in 1 .. n /\ n - 1 # n
  <2>1. n \in Nat /\ n >= 2
    BY <1>1
  <2> HIDE DEF n
  <2> QED
    BY <2>1
<1>6. Unpack(d) \in Seq(Word) /\ Len(Unpack(d)) = n
  <2>1. c \in [1 .. n -> Word]
    BY <1>2
  <2>2. c[n] \in Word /\ c[n - 1] \in Word
    BY <1>3, <1>5
  <2>3. Unpack(d) \in [1 .. n -> Word]
    BY <1>4, <2>1, <2>2
  <2>4. n \in Nat
    BY <1>1
  <2> QED
    BY <2>3, <2>4
<1>7. Unpack(d)[n] = c[n - 1] /\ Unpack(d)[n - 1] = c[n]
  BY <1>2, <1>4, <1>5
<1>8. \A i \in 1 .. n - 2 : Unpack(d)[i] = c[i]
  BY <1>1, <1>2, <1>4
<1>9. 1 .. n - 2 \subseteq 1 .. n
  BY <1>1
<1> QED
  BY <1>1, <1>3, <1>5, <1>6, <1>7, <1>8, <1>9 DEF Messages

\* unpack of c/usbip.c undoes pack, for a message of any length: the client
\* reads the words that send_usb_req has put there.
THEOREM UnpackUndoesPack ==
  \A d \in Messages : Unpack(Pack(d)) = d
<1> SUFFICES ASSUME NEW d \in Messages PROVE Unpack(Unpack(d)) = d
  BY DEF Pack, Unpack
<1> DEFINE n == Len(d)
           e == Unpack(d)
           f == Unpack(e)
<1>1. n \in Nat /\ n >= 2 /\ d \in Seq(Word) /\ \A i \in 1 .. n : d[i] \in Word
  BY DEF Messages
<1>2. /\ e \in Messages
      /\ Len(e) = n
      /\ e[n] = Swapped(d[n - 1])
      /\ e[n - 1] = Swapped(d[n])
      /\ \A i \in 1 .. n - 2 : e[i] = Swapped(d[i])
  BY PackedWords
<1> HIDE DEF e
<1>3. /\ f \in Seq(Word)
      /\ Len(f) = n
      /\ f[n] = Swapped(e[n - 1])
      /\ f[n - 1] = Swapped(e[n])
      /\ \A i \in 1 .. n - 2 : f[i] = Swapped(e[i])
  BY <1>2, PackedWords DEF Messages
<1> HIDE DEF f
<1>4. ASSUME NEW i \in 1 .. n
      PROVE  f[i] = d[i]
  <2>1. CASE i = n
    BY <1>1, <1>2, <1>3, <2>1, SwappedTwice
  <2>2. CASE i = n - 1
    BY <1>1, <1>2, <1>3, <2>2, SwappedTwice
  <2>3. CASE i \in 1 .. n - 2
    BY <1>1, <1>2, <1>3, <2>3, SwappedTwice
  <2> QED
    BY <1>1, <2>1, <2>2, <2>3
<1>5. f = d
  BY <1>1, <1>3, <1>4
<1> QED
  BY <1>5 DEF e, f

\* ntohs of a number that was put together in the wrong order is the number.
LEMMA ExchangedBytes ==
  ASSUME NEW a \in Byte, NEW b \in Byte
  PROVE  Exchanged(256 * a + b) = a + 256 * b
<1>1. (256 * a + b) % 256 = b /\ (256 * a + b) \div 256 = a
  BY DEF Byte
<1> QED
  BY <1>1 DEF Exchanged, Byte

\* The bytes of the setup packet on the wire.
LEMMA SentBytes ==
  ASSUME NEW w \in Messages, NEW k \in 1 .. 8
  PROVE  SentByte(w, k) \in Byte
<1>1. w[Len(w)] \in Word /\ w[Len(w) - 1] \in Word
  BY DEF Messages
<1> QED
  BY <1>1 DEF SentByte, Word

\* unpack converts the words of the setup packet and exchanges them, so that the
\* masks of handle_usb_control find its bytes in the order they were sent in.
LEMMA SetupBytes ==
  ASSUME NEW w \in Messages, NEW k \in 1 .. 8
  PROVE  SetupByte(Unpack(w), k) = SentByte(w, k)
<1>1. /\ Len(Unpack(w)) = Len(w)
      /\ Unpack(w)[Len(w)] = Swapped(w[Len(w) - 1])
      /\ Unpack(w)[Len(w) - 1] = Swapped(w[Len(w)])
  BY PackedWords
<1>2. CASE k <= 4
  <2>1. 5 - k \in 1 .. 4 /\ 5 - (5 - k) = k
    BY <1>2
  <2> QED
    BY <1>1, <1>2, <2>1 DEF SetupByte, SentByte, Swapped
<1>3. CASE ~(k <= 4)
  <2>1. 9 - k \in 1 .. 4 /\ 5 - (9 - k) = k - 4
    BY <1>3
  <2> QED
    BY <1>1, <1>3, <2>1 DEF SetupByte, SentByte, Swapped
<1> QED
  BY <1>2, <1>3

\* control_req has the fields that the client sent, wLength as a number of the
\* host, whatever the request is (handle_usb_control, c/usbip.c).
THEOREM FieldsAreSent ==
  \A w \in Messages : ControlRequest(Unpack(w)) = SentRequest(w)
<1> SUFFICES ASSUME NEW w \in Messages
             PROVE  ControlRequest(Unpack(w)) = SentRequest(w)
  OBVIOUS
<1>1. \A k \in 1 .. 8 : SetupByte(Unpack(w), k) = SentByte(w, k)
  BY SetupBytes
<1>2. Exchanged(256 * SentByte(w, 7) + SentByte(w, 8)) = SentByte(w, 7) + 256 * SentByte(w, 8)
  BY SentBytes, ExchangedBytes
<1> QED
  BY <1>1, <1>2 DEF ControlRequest, SentRequest

\* The two servers see the same request, but for wValue: the Python server sees
\* its bytes exchanged, so that its comparison of wValue with the type of a
\* descriptor (wValue1 in the C server) finds those whose index is 0, no others.
THEOREM ServersAgree ==
  ASSUME NEW w \in Messages
  PROVE  LET c == ControlRequest(Unpack(w))
             p == PyControlRequest(w)
         IN /\ p.bmRequestType = c.bmRequestType
            /\ p.bRequest = c.bRequest
            /\ p.wLength = c.wLength
            /\ \A type \in Byte : p.wValue = type <=> (c.wValue1 = type /\ c.wValue0 = 0)
<1>1. \A k \in 1 .. 8 : SetupByte(Unpack(w), k) = SentByte(w, k) /\ SentByte(w, k) \in Byte
  BY SetupBytes, SentBytes
<1>2. \A a, b, type \in Byte : 256 * a + b = type <=> (b = type /\ a = 0)
  BY DEF Byte
<1> QED
  BY <1>1, <1>2 DEF ControlRequest, PyControlRequest
=============================================================================
