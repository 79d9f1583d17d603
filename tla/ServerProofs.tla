---------------------------- MODULE ServerProofs ----------------------------
(***************************************************************************)
(* Theorems about the servers, UsbIpServer and PyServer, for any requests  *)
(* of their clients, however they are cut into pieces and cut off; and, in *)
(* their own sections: messages that arrive whole; the serial device,      *)
(* which sends back what it has been sent; the lengths of answers; the     *)
(* session that a client which stays is promised; how the server comes to  *)
(* rest.                                                                   *)
(*                                                                         *)
(* The argument is about the stream, what the server has still to receive: *)
(* a message's first unit comes after all units of earlier messages.  So   *)
(* each header that is read is of a later message than all that have been  *)
(* answered.                                                               *)
(***************************************************************************)
EXTENDS PyServer, SequenceTheorems, TLAPS

Unit   == [msg: 1 .. MaxSent, part: Nat]
Answer == [to: 1 .. MaxSent, size: Nat, status: {0, 1}]

stream == inbuf \o onWay

\* No import but as the first message, and no request that the driver of another
\* device makes.
SentInv ==
    /\ Len(sent) <= MaxSent
    /\ \A k \in 1 .. Len(sent) : sent[k].req \in Asks[build] \cup {NoData}
    /\ \A k \in 2 .. Len(sent) : sent[k].kind \in {"submit", "unlink"}
    /\ link = "down" => sent = << >> /\ inbuf = << >> /\ onWay = << >> /\ pc = "accept"
    /\ phase = "attached" => link = "up"

StreamInv ==
    /\ \A p \in 1 .. Len(stream) : stream[p].msg <= Len(sent)
    /\ \A p, q \in 1 .. Len(stream) :
          p < q /\ stream[q].part = 1 => stream[p].msg < stream[q].msg

\* i is behind every message whose header is still to come.
Before(i) == \A p \in 1 .. Len(stream) : stream[p].part = 1 => i < stream[p].msg

Reading == pc = "data" /\ ~exited

AnswersInv ==
    /\ Reading => request \in 1 .. Len(sent) /\ Before(request)
    /\ \A k \in 1 .. Len(answers) :
          /\ answers[k].to <= Len(sent)
          /\ Before(answers[k].to)
          /\ Reading => answers[k].to < request
          /\ \A j \in 1 .. k - 1 : answers[j].to < answers[k].to

\* Who is attached, or about to be, has imported the device.
ImportInv ==
    /\ pc = "busid" \/ (attached /\ ~exited) => sent # << >> /\ sent[1].kind = "import"
    /\ pc = "close" => ~attached

\* A keyboard's key is down between an odd report and the next.
KeyInv == held => build \in Keyboards /\ count % 2 = 1

IInv ==
    /\ AllTypeOK
    /\ SentInv
    /\ StreamInv
    /\ AnswersInv
    /\ ImportInv
    /\ KeyInv

-----------------------------------------------------------------------------
(* The answers to a request: none or one.                                  *)

AnswerBodies == {Silence} \cup {<<a>> : a \in [size: Nat, status: {0, 1}]}

LEMMA OneAnswerEach ==
    /\ Silence \in AnswerBodies /\ Done \in AnswerBodies /\ Failed \in AnswerBodies
    /\ \A n \in Nat : Data(n) \in AnswerBodies
BY DEF AnswerBodies, Silence, Done, Failed, Data

\* handle_usb_control of the C server.
LEMMA ControlAnswersOne ==
    ASSUME NEW b, NEW r \in Request
    PROVE  b \in Builds => ControlAnswers(b, r) \in AnswerBodies
<1> USE OneAnswerEach
<1>1. r.length \in Nat /\ StringSize \in Nat
  BY ServerAssumption DEF Request
<1>2. GetDescriptor(b, r) \in AnswerBodies
  BY <1>1 DEF GetDescriptor, DeviceSize
<1>3. /\ KeyboardControl(r) \in AnswerBodies /\ MouseControl(r) \in AnswerBodies
      /\ AcmControl(r) \in AnswerBodies /\ HsoControl(r) \in AnswerBodies
      /\ EtherControl(r) \in AnswerBodies /\ HciControl(r) \in AnswerBodies
  BY <1>1 DEF KeyboardControl, MouseControl, AcmControl, HsoControl, EtherControl,
     HciControl
<1>4. b \in Builds => ClassAnswers(b, r) \in AnswerBodies
  BY <1>3 DEF ClassAnswers, Builds
<1> QED BY <1>2, <1>4 DEF ControlAnswers

\* handle_data, for the endpoints to which a driver writes.
LEMMA DataAnswersOne ==
    ASSUME NEW b, NEW r \in Request, NEW c, NEW n \in Nat,
           b = "acm" /\ r.ep = 1 => r.in
    PROVE  DataAnswers(b, r, c, Limit, n) \in AnswerBodies
<1> USE OneAnswerEach
<1>1. r.length \in Nat
  BY DEF Request
<1>2. KeyboardData(c, Limit) \in AnswerBodies /\ MouseData(c, Limit) \in AnswerBodies
  BY DEF KeyboardData, MouseData
<1>3. b = "acm" => AcmData(r, n) \in AnswerBodies
  BY DEF AcmData
<1>4. EtherData(r) \in AnswerBodies
  BY <1>1 DEF EtherData
<1> QED BY <1>2, <1>3, <1>4 DEF DataAnswers

\* Both servers' answers to what is asked.
LEMMA AnswersOne ==
    ASSUME NEW r \in Request, NEW got \in Nat, build \in Builds \cup PyBuilds,
           bsize \in Nat, build = "acm" /\ r.ep = 1 => r.in
    PROVE  /\ ~Python => AnswersTo(r, got) \in AnswerBodies
           /\ PyAnswers(r) \in AnswerBodies
<1> USE OneAnswerEach
<1>1. ~Python => AnswersTo(r, got) \in AnswerBodies
  BY ControlAnswersOne, DataAnswersOne DEF AnswersTo, Python
<1>2. r.length \in Nat
  BY DEF Request
<1>3. PyGetDescriptor(r) \in AnswerBodies
  BY <1>2 DEF PyGetDescriptor, Least, ConfigurationSize, DeviceSize
<1>4. HidControl(build, r) \in AnswerBodies
  BY DEF HidControl
<1>5. PyAnswers(r) \in AnswerBodies
  BY <1>3, <1>4, DataAnswersOne DEF PyAnswers, PyControlAnswers
<1> QED BY <1>1, <1>5

-----------------------------------------------------------------------------
(* The stream.                                                             *)

LEMMA ConcatUnits ==
    ASSUME NEW r \in Seq(Unit), NEW s \in Seq(Unit), NEW t \in Seq(Unit)
    PROVE  (r \o s) \o t = r \o (s \o t)
BY ConcatAssociative

\* Its units are those of the buffer and then those under way.
LEMMA StreamUnits ==
    ASSUME TypeOK
    PROVE  /\ inbuf \in Seq(Unit) /\ onWay \in Seq(Unit) /\ stream \in Seq(Unit)
           /\ Len(inbuf) \in Nat /\ Len(onWay) \in Nat
           /\ Len(stream) = Len(inbuf) + Len(onWay)
           /\ \A p \in 1 .. Len(stream) :
                /\ stream[p] \in Unit
                /\ stream[p] = IF p <= Len(inbuf) THEN inbuf[p] ELSE onWay[p - Len(inbuf)]
<1>1. inbuf \in Seq(Unit) /\ onWay \in Seq(Unit)
  BY DEF TypeOK, Unit
<1>2. Len(inbuf) \in Nat /\ Len(onWay) \in Nat
  BY <1>1, LenProperties
<1>3. stream \in Seq(Unit)
  BY <1>1, ConcatProperties DEF stream
<1>4. Len(stream) = Len(inbuf) + Len(onWay)
  BY <1>1, ConcatProperties DEF stream
<1>5. \A p \in 1 .. Len(stream) :
         stream[p] = IF p <= Len(inbuf) THEN inbuf[p] ELSE onWay[p - Len(inbuf)]
  BY <1>1, <1>4, ConcatProperties DEF stream
<1>6. \A p \in 1 .. Len(stream) : stream[p] \in Unit
  BY <1>3, ElementOfSeq
<1> QED BY <1>1, <1>2, <1>3, <1>4, <1>5, <1>6

\* The same for the next state, which has the types already.
LEMMA StreamUnitsNext ==
    ASSUME inbuf' \in Seq(Unit), onWay' \in Seq(Unit)
    PROVE  /\ stream' \in Seq(Unit)
           /\ Len(inbuf') \in Nat /\ Len(onWay') \in Nat
           /\ Len(stream') = Len(inbuf') + Len(onWay')
           /\ \A p \in 1 .. Len(stream') :
                stream'[p] = IF p <= Len(inbuf') THEN inbuf'[p] ELSE onWay'[p - Len(inbuf')]
<1>1. stream' = inbuf' \o onWay'
  BY DEF stream
<1>2. stream' \in Seq(Unit) /\ Len(stream') = Len(inbuf') + Len(onWay')
  BY <1>1, ConcatProperties
<1>3. Len(inbuf') \in Nat /\ Len(onWay') \in Nat
  BY LenProperties
<1>4. \A p \in 1 .. Len(inbuf') + Len(onWay') : (inbuf' \o onWay')[p] =
          IF p <= Len(inbuf') THEN inbuf'[p] ELSE onWay'[p - Len(inbuf')]
  BY ConcatProperties
<1> QED BY <1>1, <1>2, <1>3, <1>4

\* A part of a sequence.
LEMMA PartOfSeq ==
    ASSUME NEW S, NEW s \in Seq(S), NEW m \in 1 .. Len(s) + 1, NEW n \in 0 .. Len(s),
           m <= n + 1
    PROVE  /\ SubSeq(s, m, n) \in Seq(S)
           /\ Len(SubSeq(s, m, n)) = n - m + 1
           /\ \A p \in 1 .. n - m + 1 : SubSeq(s, m, n)[p] = s[m + p - 1]
<1>1. Len(s) \in Nat
  BY LenProperties
<1>2. \A p \in m .. n : s[p] \in S
  BY <1>1, ElementOfSeq
<1> QED BY <1>1, <1>2, SubSeqProperties

LEMMA LeastOf ==
    ASSUME NEW m \in Nat, NEW n \in Nat
    PROVE  Least(m, n) \in 0 .. n /\ (n >= m => Least(m, n) = m)
BY DEF Least

\* recv() of up to n units takes them from the front of the stream.
LEMMA RecvTakes ==
    ASSUME TypeOK, NEW n \in Nat, Recv(n)
    PROVE  LET k == Least(n, Len(inbuf)) IN
           /\ k \in 0 .. Len(inbuf)
           /\ inbuf' \in Seq(Unit) /\ onWay' \in Seq(Unit) /\ onWay' = onWay
           /\ Len(inbuf') = Len(inbuf) - k
           /\ \A p \in 1 .. Len(inbuf') : inbuf'[p] = inbuf[p + k]
           /\ Len(stream') = Len(stream) - k
           /\ \A p \in 1 .. Len(stream') : stream'[p] = stream[p + k]
<1> DEFINE k == Least(n, Len(inbuf))
<1>1. k \in 0 .. Len(inbuf)
  BY StreamUnits DEF Least
<1>2. inbuf' = SubSeq(inbuf, k + 1, Len(inbuf)) /\ onWay' = onWay
  BY DEF Recv
<1> HIDE DEF k
<1>3. /\ inbuf' \in Seq(Unit) /\ Len(inbuf') = Len(inbuf) - k
      /\ \A p \in 1 .. Len(inbuf') : inbuf'[p] = inbuf[p + k]
  <2>1. k + 1 \in 1 .. Len(inbuf) + 1 /\ Len(inbuf) \in 0 .. Len(inbuf)
    BY <1>1, StreamUnits
  <2>2. /\ SubSeq(inbuf, k + 1, Len(inbuf)) \in Seq(Unit)
        /\ Len(SubSeq(inbuf, k + 1, Len(inbuf))) = Len(inbuf) - (k + 1) + 1
        /\ \A p \in 1 .. Len(inbuf) - (k + 1) + 1 :
              SubSeq(inbuf, k + 1, Len(inbuf))[p] = inbuf[k + 1 + p - 1]
    BY <1>1, <2>1, PartOfSeq, StreamUnits
  <2> QED BY <1>1, <1>2, <2>2, StreamUnits
<1>4. onWay' \in Seq(Unit)
  BY <1>2, StreamUnits
<1>5. Len(stream') = Len(stream) - k
  BY <1>1, <1>2, <1>3, <1>4, StreamUnits, StreamUnitsNext
<1>6. ASSUME NEW p \in 1 .. Len(stream') PROVE stream'[p] = stream[p + k]
  <2>1. p \in Nat /\ p + k \in 1 .. Len(stream)
    BY <1>1, <1>5, StreamUnits
  <2>2. stream'[p] = IF p <= Len(inbuf') THEN inbuf'[p] ELSE onWay'[p - Len(inbuf')]
    BY <1>3, <1>4, StreamUnitsNext
  <2>3. stream[p + k] = IF p + k <= Len(inbuf) THEN inbuf[p + k]
                                              ELSE onWay[(p + k) - Len(inbuf)]
    BY <2>1, StreamUnits
  <2>4. (p + k) - Len(inbuf) = p - Len(inbuf')
    BY <1>1, <1>3, <2>1, StreamUnits
  <2> QED BY <1>1, <1>2, <1>3, <2>1, <2>2, <2>3, <2>4, StreamUnits
<1> QED BY <1>1, <1>2, <1>3, <1>4, <1>5, <1>6 DEF k

\* So what is read is not in the stream any more, and what holds of all that is
\* still to come is kept.
LEMMA RecvKeeps ==
    ASSUME TypeOK, StreamInv, NEW n \in Nat, Recv(n), sent' = sent
    PROVE  /\ inbuf' \in Seq(Unit) /\ onWay' \in Seq(Unit)
           /\ StreamInv'
           /\ \A i : Before(i) => Before(i)'
<1> DEFINE k == Least(n, Len(inbuf))
<1>1. /\ k \in 0 .. Len(inbuf)
      /\ inbuf' \in Seq(Unit) /\ onWay' \in Seq(Unit)
      /\ Len(stream') = Len(stream) - k
      /\ \A p \in 1 .. Len(stream') : stream'[p] = stream[p + k]
  BY RecvTakes
<1>2. Len(inbuf) \in Nat /\ Len(stream) \in Nat /\ k \in Nat
  BY <1>1, StreamUnits
<1> HIDE DEF k
<1>3. \A p \in 1 .. Len(stream') : p + k \in 1 .. Len(stream)
  BY <1>1, <1>2
<1>4. StreamInv'
  <2>1. \A p \in 1 .. Len(stream') : stream'[p].msg <= Len(sent')
    BY <1>1, <1>3 DEF StreamInv
  <2>2. ASSUME NEW p \in 1 .. Len(stream'), NEW q \in 1 .. Len(stream'),
               p < q, stream'[q].part = 1
        PROVE  stream'[p].msg < stream'[q].msg
    <3>1. p + k < q + k
      BY <1>2, <2>2
    <3> QED BY <1>1, <1>3, <2>2, <3>1 DEF StreamInv
  <2> QED BY <2>1, <2>2 DEF StreamInv
<1>5. ASSUME NEW i, Before(i) PROVE Before(i)'
  BY <1>1, <1>3, <1>5 DEF Before
<1> QED BY <1>1, <1>4, <1>5

\* A header that is read is of a message behind which everything is that comes,
\* and which comes after all that have been answered.
LEMMA HeaderIsNext ==
    ASSUME TypeOK, SentInv, StreamInv, AnswersInv, Recv(2), ~RecvIsShort(2), IsHeader,
           sent' = sent
    PROVE  /\ Header \in 1 .. Len(sent) /\ Header \in 1 .. MaxSent
           /\ \A h : h = Header => Before(h)'
           /\ \A k \in 1 .. Len(answers) : answers[k].to < Header
<1>0. Len(inbuf) \in Nat /\ Len(onWay) \in Nat /\ Len(stream) = Len(inbuf) + Len(onWay)
  BY StreamUnits
<1>1. Len(inbuf) >= 2 /\ Len(stream) >= 2
  BY <1>0 DEF RecvIsShort
<1>2. Header = stream[1].msg /\ stream[1].part = 1 /\ stream[1] \in Unit
  <2>1. 1 \in 1 .. Len(stream) /\ 1 <= Len(inbuf)
    BY <1>1, <1>0
  <2>2. stream[1] = inbuf[1] /\ stream[1] \in Unit
    BY <2>1, StreamUnits
  <2>3. Head(inbuf) = inbuf[1]
    BY <1>0, <1>1, StreamUnits
  <2> QED BY <2>2, <2>3 DEF Header, IsHeader
<1>3. Header \in 1 .. MaxSent /\ Header <= Len(sent)
  BY <1>0, <1>1, <1>2 DEF StreamInv, Unit
<1>4. ASSUME NEW h, h = Header PROVE Before(h)'
  <2>1. Least(2, Len(inbuf)) = 2
    BY <1>0, <1>1, LeastOf
  <2>2. /\ Len(stream') = Len(stream) - 2
        /\ \A p \in 1 .. Len(stream') : stream'[p] = stream[p + 2]
    BY <2>1, RecvTakes
  <2>3. ASSUME NEW p \in 1 .. Len(stream'), stream'[p].part = 1
        PROVE  stream[1].msg < stream'[p].msg
    <3>1. p + 2 \in 1 .. Len(stream) /\ 1 \in 1 .. Len(stream) /\ 1 < p + 2
      BY <1>0, <1>1, <2>2
    <3> QED BY <2>2, <2>3, <3>1 DEF StreamInv
  <2> QED BY <1>2, <1>4, <2>3 DEF Before
<1>5. \A k \in 1 .. Len(answers) : answers[k].to < Header
  BY <1>0, <1>1, <1>2 DEF AnswersInv, Before
<1>6. Len(sent) \in Nat
  BY LenProperties DEF TypeOK
<1> QED BY <1>3, <1>4, <1>5, <1>6, ServerAssumption

-----------------------------------------------------------------------------
(* What the server's actions have in common.                               *)

\* A message's request is one of the driver's of this device.
LEMMA SentRequest ==
    ASSUME TypeOK, SentInv, NEW i \in 1 .. Len(sent)
    PROVE  /\ sent[i].req \in Request
           /\ build = "acm" /\ sent[i].req.ep = 1 => sent[i].req.in
           /\ sent[i].kind \in {"devlist", "import", "submit", "unlink"}
           /\ DataLength(sent[i]) \in Nat
           /\ i \in 1 .. MaxSent
           /\ build \in Builds \cup PyBuilds /\ bsize \in Nat
<1>1. NoData \in Request /\ NoData.in
  BY DEF NoData, Request
<1>2. sent[i].req \in Asks[build] \cup {NoData} /\ build \in DOMAIN Asks
  BY DEF SentInv, TypeOK
<1>3. sent[i].req \in Request /\ (build = "acm" /\ sent[i].req.ep = 1 => sent[i].req.in)
  BY <1>1, <1>2, ServerAssumption
<1>4. Len(sent) \in Nat
  BY LenProperties DEF TypeOK
<1>5. sent[i].kind \in {"devlist", "import", "submit", "unlink"}
  <2>1. sent \in Seq([kind: {"devlist", "import", "submit", "unlink"}, req: Requests])
    BY DEF TypeOK
  <2>2. sent[i] \in [kind: {"devlist", "import", "submit", "unlink"}, req: Requests]
    BY <2>1, ElementOfSeq
  <2> QED BY <2>2
<1>6. sent[i].req.length \in Nat
  BY <1>3 DEF Request
<1>7. DataLength(sent[i]) \in Nat
  BY <1>6 DEF DataLength
<1>8. i \in 1 .. MaxSent
  BY <1>4, ServerAssumption DEF SentInv
<1>9. build \in Builds \cup PyBuilds /\ bsize \in Nat
  BY <1>2, ServerAssumption DEF TypeOK
<1> QED BY <1>3, <1>5, <1>7, <1>8, <1>9

\* An action that answers nothing keeps what holds of the answers.
LEMMA AnswersKept ==
    ASSUME AnswersInv, sent' = sent, answers' = answers, pc' # "data" \/ exited',
           \A i : Before(i) => Before(i)'
    PROVE  AnswersInv'
BY DEF AnswersInv, Reading

\* Nor does one that reads a header, the data of which come next.
LEMMA AnswersKeptForData ==
    ASSUME AnswersInv, sent' = sent, answers' = answers,
           NEW h \in 1 .. Len(sent), request' = h,
           \A i : Before(i) => Before(i)', Before(h)',
           \A k \in 1 .. Len(answers) : answers[k].to < h
    PROVE  AnswersInv'
BY DEF AnswersInv, Reading

\* What the client gets of the answers.
LEMMA AnswerSent ==
    ASSUME NEW h \in 1 .. MaxSent, NEW as \in AnswerBodies
    PROVE  /\ AnswersFor(h, as) \in Seq(Answer) /\ Len(AnswersFor(h, as)) \in {0, 1}
           /\ \A k \in 1 .. Len(AnswersFor(h, as)) : AnswersFor(h, as)[k].to = h
<1> DEFINE new == AnswersFor(h, as)
<1>1. as = << >> \/ \E a \in [size: Nat, status: {0, 1}] : as = <<a>>
  BY DEF AnswerBodies, Silence
<1>2. as = << >> => new = << >>
  BY DEF AnswersFor
<1>3. ASSUME NEW a \in [size: Nat, status: {0, 1}], as = <<a>>
      PROVE  new = <<[to |-> h, size |-> a.size, status |-> a.status]>>
  BY <1>3 DEF AnswersFor
<1> HIDE DEF new
<1>4. new = << >> \/ \E e \in Answer : e.to = h /\ new = <<e>>
  <2>1. \A a \in [size: Nat, status: {0, 1}] :
            /\ [to |-> h, size |-> a.size, status |-> a.status] \in Answer
            /\ [to |-> h, size |-> a.size, status |-> a.status].to = h
    BY DEF Answer
  <2> QED BY <1>1, <1>2, <1>3, <2>1
<1>5. ASSUME new = << >>
      PROVE  new \in Seq(Answer) /\ Len(new) = 0
  BY <1>5, EmptySeq
<1>6. ASSUME \E e \in Answer : e.to = h /\ new = <<e>>
      PROVE  /\ new \in Seq(Answer) /\ Len(new) \in {0, 1}
             /\ \A k \in 1 .. Len(new) : new[k].to = h
  <2>1. PICK e \in Answer : e.to = h /\ new = <<e>>
    BY <1>6
  <2>2. new \in Seq(Answer) /\ Len(new) = 1 /\ new[1] = e
    BY <2>1
  <2>3. Len(new) \in {0, 1} /\ \A k \in 1 .. Len(new) : new[k].to = h
    BY <2>1, <2>2
  <2> QED BY <2>2, <2>3
<1>7. new \in Seq(Answer) /\ Len(new) \in {0, 1} /\ \A k \in 1 .. Len(new) : new[k].to = h
  BY <1>4, <1>5, <1>6
<1> QED BY <1>7 DEF new

\* What is answered comes after all that has been, and before all headers that
\* are still to come.
LEMMA AnswersSent ==
    ASSUME TypeOK, AnswersInv, sent' = sent, pc' # "data",
           NEW h \in 1 .. Len(sent), h \in 1 .. MaxSent,
           NEW as \in AnswerBodies, SendAnswers(h, as),
           \A i : Before(i) => Before(i)', Before(h)',
           \A k \in 1 .. Len(answers) : answers[k].to < h
    PROVE  /\ answers' \in Seq(Answer)
           /\ exited' \in BOOLEAN \/ exited' = exited
           /\ AnswersInv'
<1> DEFINE new == AnswersFor(h, as)
<1>1. CASE answers' = answers
  BY <1>1, AnswersKept DEF SendAnswers, TypeOK, Answer
<1>2. CASE answers' = answers \o new /\ exited' = exited
  <2>1. answers \in Seq(Answer) /\ Len(answers) \in Nat
    BY LenProperties DEF TypeOK, Answer
  <2>2. new \in Seq(Answer) /\ Len(new) \in {0, 1} /\ \A k \in 1 .. Len(new) : new[k].to = h
    BY AnswerSent
  <2> HIDE DEF new
  <2>4. /\ answers' \in Seq(Answer) /\ Len(answers') = Len(answers) + Len(new)
        /\ \A k \in 1 .. Len(answers) + Len(new) :
             answers'[k] = IF k <= Len(answers) THEN answers[k] ELSE new[k - Len(answers)]
    BY <1>2, <2>1, <2>2, ConcatProperties
  <2>5. /\ \A k \in 1 .. Len(answers) : answers'[k] = answers[k]
        /\ \A k \in 1 .. Len(answers') :
             k \in 1 .. Len(answers) \/ (k = Len(answers) + 1 /\ answers'[k].to = h)
    <3>1. ASSUME NEW k \in 1 .. Len(answers'), k \notin 1 .. Len(answers)
          PROVE  k = Len(answers) + 1 /\ answers'[k].to = h
      <4>1. k = Len(answers) + 1 /\ Len(new) = 1
        BY <2>1, <2>2, <2>4, <3>1
      <4>2. answers'[k] = new[1]
        BY <2>1, <2>2, <2>4, <4>1
      <4> QED BY <2>2, <4>1, <4>2
    <3> QED BY <2>1, <2>2, <2>4, <3>1
  <2>6. AnswersInv'
    <3>1. ASSUME NEW k \in 1 .. Len(answers')
          PROVE  /\ answers'[k].to <= Len(sent)
                 /\ \A t : t = answers'[k].to => Before(t)'
                 /\ \A j \in 1 .. k - 1 : answers'[j].to < answers'[k].to
      <4>1. CASE k \in 1 .. Len(answers)
        <5>1. \A j \in 1 .. k - 1 : j \in 1 .. Len(answers)
          BY <2>1, <4>1
        <5>2. answers[k].to <= Len(sent) /\ \A j \in 1 .. k - 1 : answers[j].to < answers[k].to
          BY <4>1 DEF AnswersInv
        <5>3. ASSUME NEW t, t = answers[k].to PROVE Before(t)'
          BY <4>1, <5>3 DEF AnswersInv
        <5> QED BY <2>5, <4>1, <5>1, <5>2, <5>3
      <4>2. CASE k = Len(answers) + 1 /\ answers'[k].to = h
        <5>1. \A j \in 1 .. k - 1 : j \in 1 .. Len(answers)
          BY <2>1, <4>2
        <5> QED BY <2>5, <4>2, <5>1
      <4> QED BY <2>5, <3>1, <4>1, <4>2
    <3> QED BY <3>1 DEF AnswersInv, Reading
  <2> QED BY <1>2, <2>4, <2>6
<1> QED BY <1>1, <1>2 DEF SendAnswers

LEMMA Parity == \A n \in Nat : n % 2 = 0 => (n + 1) % 2 = 1
OBVIOUS

\* What a report does to the count and the key.
LEMMA ReportCounted ==
    ASSUME TypeOK, KeyInv, NEW r, CountReport(r), build' = build
    PROVE  count' \in 0 .. Limit /\ held' \in BOOLEAN /\ KeyInv'
<1>1. count \in Nat /\ Limit \in Nat /\ count <= Limit /\ held \in BOOLEAN
  BY ServerAssumption DEF TypeOK
<1>2. CASE SendsReport(r)
  <2>1. count < Limit /\ build \in Keyboards \cup Mice
    BY <1>2 DEF SendsReport
  <2>2. Least(count + 1, Limit) = count + 1
    BY <1>1, <2>1 DEF Least
  <2>3. build \in Keyboards => held' = (count % 2 = 0)
    BY <1>2 DEF CountReport
  <2>4. build \notin Keyboards => held' = held
    BY <1>2 DEF CountReport
  <2>5. count' = count + 1
    BY <1>2, <2>2 DEF CountReport
  <2>6. count' \in 0 .. Limit /\ held' \in BOOLEAN
    <3>1. count' \in 0 .. Limit
      BY <1>1, <2>1, <2>5
    <3>2. held' \in BOOLEAN
      BY <1>1, <2>3, <2>4
    <3> QED BY <3>1, <3>2
  <2>7. held' => build \in Keyboards /\ count' % 2 = 1
    BY <1>1, <2>3, <2>4, <2>5, Parity DEF KeyInv
  <2> QED BY <2>6, <2>7 DEF KeyInv
<1>3. CASE ~SendsReport(r)
  BY <1>1, <1>3 DEF CountReport, KeyInv
<1> QED BY <1>2, <1>3

\* The rest of the invariant, for an action that receives.
LEMMA Received ==
    ASSUME IInv, NEW n \in Nat, Recv(n), pc # "accept",
           UNCHANGED <<build, link, conn, sent>>,
           pc' \in PC, Python => pc' # "urb", request' \in 0 .. MaxSent,
           count' \in 0 .. Limit, held' \in BOOLEAN, bsize' \in Nat,
           exited' \in BOOLEAN, misread' \in BOOLEAN,
           phase' \in Phase, phase' = "attached" => link = "up",
           answers' \in Seq(Answer), attached' \in BOOLEAN, attached' => Python,
           AnswersInv', ImportInv', KeyInv'
    PROVE  IInv'
<1>1. inbuf' \in Seq(Unit) /\ onWay' \in Seq(Unit) /\ StreamInv'
  BY RecvKeeps DEF IInv, AllTypeOK
<1>2. TypeOK'
  BY <1>1 DEF IInv, AllTypeOK, TypeOK, Unit, Answer
<1>3. AllTypeOK'
  BY <1>2 DEF AllTypeOK, Python
<1>4. SentInv'
  BY DEF IInv, SentInv
<1> QED BY <1>1, <1>3, <1>4 DEF IInv

\* What the invariant gives to an action that receives a header.
LEMMA ReceivesHeader ==
    ASSUME IInv, Recv(2), sent' = sent
    PROVE  /\ \A i : Before(i) => Before(i)'
           /\ ~RecvIsShort(2) /\ IsHeader =>
                \E h \in 1 .. Len(sent) :
                    /\ h = Header /\ h \in 1 .. MaxSent /\ Before(h)'
                    /\ \A k \in 1 .. Len(answers) : answers[k].to < h
                    /\ sent[h].kind = "import" => sent # << >> /\ sent[1].kind = "import"
<1>1. \A i : Before(i) => Before(i)'
  BY RecvKeeps DEF IInv, AllTypeOK
<1>2. ASSUME ~RecvIsShort(2), IsHeader
      PROVE  \E h \in 1 .. Len(sent) :
                /\ h = Header /\ h \in 1 .. MaxSent /\ Before(h)'
                /\ \A k \in 1 .. Len(answers) : answers[k].to < h
                /\ sent[h].kind = "import" => sent # << >> /\ sent[1].kind = "import"
  <2>1. PICK h : h = Header
    OBVIOUS
  <2>2. /\ h \in 1 .. Len(sent) /\ h \in 1 .. MaxSent /\ Before(h)'
        /\ \A k \in 1 .. Len(answers) : answers[k].to < h
    BY <1>2, <2>1, HeaderIsNext DEF IInv, AllTypeOK
  <2>3. Len(sent) \in Nat
    BY LenProperties DEF IInv, AllTypeOK, TypeOK
  <2>4. sent[h].kind = "import" => h = 1
    BY <2>2, <2>3 DEF IInv, SentInv
  <2>5. sent # << >>
    BY <2>2, <2>3
  <2> QED BY <2>1, <2>2, <2>4, <2>5
<1> QED BY <1>1, <1>2

\* The types of what most actions leave alone.
LEMMA Types ==
    ASSUME IInv
    PROVE  /\ request \in 0 .. MaxSent /\ count \in 0 .. Limit /\ held \in BOOLEAN
           /\ bsize \in Nat /\ exited \in BOOLEAN /\ phase \in Phase /\ misread \in BOOLEAN
           /\ answers \in Seq(Answer) /\ attached \in BOOLEAN /\ (attached => Python)
           /\ pc \in PC /\ (Python => pc # "urb") /\ (phase = "attached" => link = "up")
BY DEF IInv, AllTypeOK, TypeOK, Answer, SentInv

-----------------------------------------------------------------------------
(* The server in C.                                                        *)

\* Before the import.
LEMMA RecvOpKeeps ==
    ASSUME IInv, RecvOp, ~Python, UNCHANGED attached
    PROVE  IInv'
<1>1. /\ Recv(2) /\ At("hello") /\ UNCHANGED <<build, link, conn, sent, answers>>
      /\ UNCHANGED <<request, count, held, bsize, attached>>
  BY DEF RecvOp, ShortHeader, NoHeader, Receives, SendReply, deviceVars, clientVars
<1>2. pc # "accept" /\ ~exited /\ ~attached
  BY <1>1, Types DEF At
<1>3. /\ pc' \in {"hello", "busid", "close"}
      /\ exited' \in BOOLEAN /\ phase' \in Phase /\ misread' \in BOOLEAN
      /\ phase' = "attached" => link = "up"
  BY <1>1, <1>2, Types DEF RecvOp, ShortHeader, NoHeader, Receives, SendReply, deviceVars, clientVars, At, Phase
<1>4. pc' = "busid" => sent # << >> /\ sent[1].kind = "import"
  BY <1>1, <1>2, ReceivesHeader DEF RecvOp, ShortHeader, NoHeader, Receives, At
<1>5. AnswersInv'
  BY <1>1, <1>3, ReceivesHeader, AnswersKept DEF IInv
<1>6. ImportInv' /\ KeyInv'
  BY <1>1, <1>2, <1>4 DEF IInv, ImportInv, KeyInv
<1>7. pc' \in PC /\ (Python => pc' # "urb")
  BY <1>3 DEF PC
<1> QED BY <1>1, <1>2, <1>3, <1>5, <1>6, <1>7, Types, Received

LEMMA RecvBusidKeeps ==
    ASSUME IInv, RecvBusid, ~Python, UNCHANGED attached
    PROVE  IInv'
<1>1. /\ Recv(2) /\ At("busid") /\ UNCHANGED <<build, link, conn, sent, answers>>
      /\ UNCHANGED <<request, count, held, bsize, attached, misread>>
  BY DEF RecvBusid, SendReply, deviceVars, clientVars
<1>2. pc # "accept" /\ ~exited /\ ~attached
  BY <1>1, Types DEF At
<1>3. /\ pc' \in {"urb", "close"} /\ exited' \in BOOLEAN /\ phase' \in Phase
      /\ phase' = "attached" => link = "up"
  BY <1>1, Types DEF RecvBusid, SendReply, clientVars, Phase
<1>4. AnswersInv'
  BY <1>1, <1>3, ReceivesHeader, AnswersKept DEF IInv
<1>5. ImportInv' /\ KeyInv'
  BY <1>1, <1>2, <1>3 DEF IInv, ImportInv, KeyInv
<1>6. pc' \in PC
  BY <1>3 DEF PC
<1> QED BY <1>1, <1>2, <1>3, <1>4, <1>5, <1>6, Types, Received

\* USBIP_CMD_SUBMIT and USBIP_CMD_UNLINK.
LEMMA RecvCmdKeeps ==
    ASSUME IInv, RecvCmd, ~Python, UNCHANGED attached
    PROVE  IInv'
<1>1. Recv(2) /\ At("urb") /\ UNCHANGED <<build, link, conn, sent, phase, attached>>
  BY DEF RecvCmd, ShortHeader, NoHeader, Submit, SubmitWithData, Unlink, clientVars
<1>2. pc # "accept" /\ ~exited /\ ~attached
  BY <1>1, Types DEF At
<1>3. TypeOK /\ SentInv /\ AnswersInv /\ KeyInv
  BY DEF IInv, AllTypeOK
<1>4. ASSUME /\ pc' \in {"urb", "data", "close"} /\ request' \in 0 .. MaxSent
             /\ count' \in 0 .. Limit /\ held' \in BOOLEAN /\ bsize' \in Nat
             /\ exited' \in BOOLEAN /\ misread' \in BOOLEAN
             /\ answers' \in Seq(Answer) /\ AnswersInv' /\ KeyInv'
      PROVE  IInv'
  <2>1. ImportInv'
    BY <1>1, <1>2, <1>4 DEF ImportInv
  <2>2. pc' \in PC
    BY <1>4 DEF PC
  <2> QED BY <1>1, <1>2, <1>4, <2>1, <2>2, Types, Received
<1>5. CASE ShortHeader \/ NoHeader
  <2>1. UNCHANGED <<request, count, held, bsize, exited, answers>>
    BY <1>5 DEF ShortHeader, NoHeader, deviceVars, clientVars
  <2>2. pc' \in {"urb", "close"} /\ misread' \in BOOLEAN
    BY <1>1, <1>5, Types DEF ShortHeader, NoHeader, At
  <2>3. AnswersInv'
    BY <1>1, <1>3, <2>1, <2>2, ReceivesHeader, AnswersKept
  <2>4. KeyInv'
    BY <1>1, <1>3, <2>1 DEF KeyInv
  <2> QED BY <1>4, <2>1, <2>2, <2>3, <2>4, Types
<1>6. CASE Submit
  <2>1. ~RecvIsShort(2) /\ IsHeader /\ UNCHANGED <<misread, request>> /\ pc' = "urb"
    BY <1>6 DEF Submit, Receives
  <2>2. PICK h \in 1 .. Len(sent) :
            /\ h = Header /\ h \in 1 .. MaxSent /\ Before(h)'
            /\ \A k \in 1 .. Len(answers) : answers[k].to < h
    BY <1>1, <2>1, ReceivesHeader
  <2>3. /\ SendAnswers(h, AnswersTo(sent[h].req, 0))
        /\ CountReport(sent[h].req) /\ bsize' \in {0, bsize}
    BY <1>6, <2>2 DEF Submit, DeviceStep
  <2>4. AnswersTo(sent[h].req, 0) \in AnswerBodies
    BY <1>3, SentRequest, AnswersOne
  <2>5. answers' \in Seq(Answer) /\ (exited' \in BOOLEAN \/ exited' = exited) /\ AnswersInv'
    BY <1>1, <1>3, <2>1, <2>2, <2>3, <2>4, ReceivesHeader, AnswersSent
  <2>6. count' \in 0 .. Limit /\ held' \in BOOLEAN /\ KeyInv'
    BY <1>1, <1>3, <2>3, ReportCounted
  <2> QED BY <1>4, <2>1, <2>3, <2>5, <2>6, Types
<1>7. CASE SubmitWithData
  <2>1. /\ ~RecvIsShort(2) /\ IsHeader /\ request' = Header /\ pc' = "data"
        /\ UNCHANGED <<misread, count, held, bsize, exited, answers>>
    BY <1>7 DEF SubmitWithData, Receives, deviceVars, clientVars
  <2>2. PICK h \in 1 .. Len(sent) :
            /\ h = Header /\ h \in 1 .. MaxSent /\ Before(h)'
            /\ \A k \in 1 .. Len(answers) : answers[k].to < h
    BY <1>1, <2>1, ReceivesHeader
  <2>3. AnswersInv'
    BY <1>1, <1>3, <2>1, <2>2, ReceivesHeader, AnswersKeptForData
  <2>4. KeyInv'
    BY <1>1, <1>3, <2>1 DEF KeyInv
  <2>5. request' \in 0 .. MaxSent
    BY <2>1, <2>2
  <2> QED BY <1>4, <2>1, <2>3, <2>4, <2>5, Types
<1>8. CASE Unlink
  <2>1. /\ ~RecvIsShort(2) /\ IsHeader /\ pc' = "urb"
        /\ UNCHANGED <<misread, request, count, held, bsize>>
    BY <1>8 DEF Unlink, Receives, deviceVars
  <2>2. PICK h \in 1 .. Len(sent) :
            /\ h = Header /\ h \in 1 .. MaxSent /\ Before(h)'
            /\ \A k \in 1 .. Len(answers) : answers[k].to < h
    BY <1>1, <2>1, ReceivesHeader
  <2>3. PICK as \in AnswerBodies : SendAnswers(h, as)
    BY <1>8, <2>2, OneAnswerEach DEF Unlink
  <2>4. answers' \in Seq(Answer) /\ (exited' \in BOOLEAN \/ exited' = exited) /\ AnswersInv'
    BY <1>1, <1>3, <2>1, <2>2, <2>3, ReceivesHeader, AnswersSent
  <2>5. KeyInv'
    BY <1>1, <1>3, <2>1 DEF KeyInv
  <2> QED BY <1>4, <2>1, <2>4, <2>5, Types
<1> QED BY <1>5, <1>6, <1>7, <1>8 DEF RecvCmd

\* What the invariant gives to an action that receives data.
LEMMA ReceivesData ==
    ASSUME IInv, At("data")
    PROVE  \E h \in 1 .. Len(sent) :
              /\ h = request /\ h \in 1 .. MaxSent /\ Before(h)
              /\ \A k \in 1 .. Len(answers) : answers[k].to < h
BY SentRequest DEF IInv, AllTypeOK, AnswersInv, Reading, At

\* The data.
LEMMA RecvDataKeeps ==
    ASSUME IInv, RecvData, ~Python, UNCHANGED attached
    PROVE  IInv'
<1> DEFINE len == DataLength(sent[request])
           got == Least(len, Len(inbuf))
           r   == sent[request].req
<1>1. /\ Recv(len) /\ At("data")
      /\ UNCHANGED <<build, link, conn, sent, phase, misread, attached>> /\ request' = 0
      /\ \/ /\ UNCHANGED <<deviceVars, answers>> /\ exited' \in BOOLEAN
            /\ (pc' = pc /\ exited') \/ (pc' = "urb" /\ exited' = exited)
         \/ /\ pc' = "urb" /\ DeviceStep(r, got)
            /\ SendAnswers(request, AnswersTo(r, got))
  BY Types DEF RecvData
<1>2. pc # "accept" /\ ~exited /\ ~attached
  BY <1>1, Types DEF At
<1>3. TypeOK /\ SentInv /\ StreamInv /\ AnswersInv /\ KeyInv
  BY DEF IInv, AllTypeOK
<1>4. PICK h \in 1 .. Len(sent) :
            /\ h = request /\ h \in 1 .. MaxSent /\ Before(h)
            /\ \A k \in 1 .. Len(answers) : answers[k].to < h
  BY <1>1, ReceivesData
<1>5. len \in Nat /\ got \in Nat
  <2>1. len \in Nat
    BY <1>3, <1>4, SentRequest
  <2>2. Len(inbuf) \in Nat
    BY <1>3, StreamUnits
  <2>3. \A l \in Nat : Least(l, Len(inbuf)) \in Nat
    BY <2>2 DEF Least
  <2> QED BY <2>1, <2>3
<1> HIDE DEF len, got
<1>6. \A i : Before(i) => Before(i)'
  BY <1>1, <1>3, <1>5, RecvKeeps
<1>7. /\ pc' \in {"urb", "data"} /\ (pc' # "data" \/ exited') /\ count' \in 0 .. Limit
      /\ held' \in BOOLEAN /\ bsize' \in Nat
      /\ exited' \in BOOLEAN /\ answers' \in Seq(Answer) /\ AnswersInv' /\ KeyInv'
  <2>1. CASE /\ UNCHANGED <<deviceVars, answers>> /\ exited' \in BOOLEAN
             /\ (pc' = pc /\ exited') \/ (pc' = "urb" /\ exited' = exited)
    <3>1. /\ UNCHANGED <<count, held, bsize, answers>>
          /\ (pc' # "data" \/ exited') /\ pc' \in {"urb", "data"}
      BY <1>1, <2>1 DEF deviceVars, At
    <3>2. AnswersInv'
      BY <1>1, <1>3, <1>6, <3>1, AnswersKept
    <3>3. KeyInv'
      BY <1>1, <1>3, <3>1 DEF KeyInv
    <3> QED BY <2>1, <3>1, <3>2, <3>3, Types
  <2>2. CASE /\ pc' = "urb" /\ DeviceStep(r, got)
             /\ SendAnswers(request, AnswersTo(r, got))
    <3>1. AnswersTo(sent[h].req, got) \in AnswerBodies
      BY <1>3, <1>5, SentRequest, AnswersOne
    <3>2. SendAnswers(h, AnswersTo(sent[h].req, got)) /\ Before(h)' /\ pc' # "data"
      BY <1>4, <1>6, <2>2
    <3>3. answers' \in Seq(Answer) /\ (exited' \in BOOLEAN \/ exited' = exited) /\ AnswersInv'
      BY <1>1, <1>3, <1>4, <1>6, <3>1, <3>2, AnswersSent
    <3>4. CountReport(r) /\ bsize' \in {0, bsize, got}
      BY <2>2 DEF DeviceStep
    <3>5. count' \in 0 .. Limit /\ held' \in BOOLEAN /\ KeyInv'
      BY <1>1, <1>3, <3>4, ReportCounted
    <3>6. bsize' \in Nat
      BY <1>5, <3>4, Types
    <3> QED BY <2>2, <3>3, <3>5, <3>6, Types
  <2> QED BY <1>1, <2>1, <2>2
<1>8. ImportInv' /\ pc' \in PC
  BY <1>1, <1>2, <1>7 DEF ImportInv, PC
<1> QED BY <1>1, <1>2, <1>5, <1>7, <1>8, Types, Received, ServerAssumption

\* accept() and close(), in C and in Python.
LEMMA AcceptKeeps ==
    ASSUME IInv, Accept, UNCHANGED attached
    PROVE  IInv'
<1>1. /\ pc = "accept" /\ pc' = "hello" /\ link # "down" /\ ~exited
      /\ UNCHANGED <<build, request, count, held, bsize, exited, link, conn, onWay, inbuf,
                     phase, sent, answers, misread, attached>>
  BY DEF Accept, At, deviceVars, wireVars, clientVars
<1>2. \A i : Before(i) => Before(i)'
  BY <1>1 DEF Before, stream
<1>3. AnswersInv'
  BY <1>1, <1>2, AnswersKept DEF IInv
<1>4. AllTypeOK'
  BY <1>1 DEF IInv, AllTypeOK, TypeOK, Python, PC
<1>5. SentInv' /\ StreamInv' /\ ImportInv' /\ KeyInv'
  BY <1>1 DEF IInv, SentInv, StreamInv, stream, ImportInv, KeyInv
<1> QED BY <1>3, <1>4, <1>5 DEF IInv

LEMMA CloseLinkKeeps ==
    ASSUME IInv, CloseLink, UNCHANGED attached
    PROVE  IInv'
<1>1. /\ pc = "close" /\ pc' = "accept" /\ link' = "down" /\ ~exited
      /\ onWay' = << >> /\ inbuf' = << >> /\ sent' = << >> /\ answers' = << >>
      /\ phase' \in {"away", "refused"}
      /\ UNCHANGED <<build, request, count, held, bsize, exited, conn, misread, attached>>
  BY DEF CloseLink, At, deviceVars
<1>2. \A S : << >> \in Seq(S)
  BY EmptySeq
<1>3. Len(sent') = 0 /\ Len(answers') = 0 /\ Len(stream') = 0
  BY <1>1 DEF stream
<1>4. AllTypeOK'
  BY <1>1, <1>2 DEF IInv, AllTypeOK, TypeOK, Python, PC, Phase
<1>5. SentInv' /\ StreamInv'
  BY <1>1, <1>3, ServerAssumption DEF SentInv, StreamInv
<1>6. AnswersInv'
  BY <1>1, <1>3 DEF AnswersInv, Reading
<1>7. ImportInv' /\ KeyInv'
  BY <1>1 DEF IInv, ImportInv, KeyInv
<1> QED BY <1>4, <1>5, <1>6, <1>7 DEF IInv

-----------------------------------------------------------------------------
(* The server in Python.                                                   *)

LEMMA ConnectionResetKeeps ==
    ASSUME IInv, ConnectionReset
    PROVE  IInv'
<1>1. /\ exited' = TRUE /\ link = "gone"
      /\ UNCHANGED <<build, pc, request, count, held, bsize, link, conn, onWay, inbuf,
                     phase, sent, answers, misread, attached>>
  BY DEF ConnectionReset, Raise, deviceVars, wireVars, clientVars
<1>2. \A i : Before(i) => Before(i)'
  BY <1>1 DEF Before, stream
<1>3. AnswersInv'
  BY <1>1, <1>2, AnswersKept DEF IInv
<1>4. AllTypeOK'
  BY <1>1 DEF IInv, AllTypeOK, TypeOK, Python
<1>5. SentInv' /\ StreamInv' /\ ImportInv' /\ KeyInv'
  BY <1>1 DEF IInv, SentInv, StreamInv, stream, ImportInv, KeyInv
<1> QED BY <1>3, <1>4, <1>5 DEF IInv

LEMMA PyRecvOpKeeps ==
    ASSUME IInv, PyRecvOp, Python
    PROVE  IInv'
<1>1. /\ Recv(2) /\ At("hello") /\ ~attached
      /\ UNCHANGED <<build, link, conn, sent, answers, request, count, held, bsize, attached>>
  BY DEF PyRecvOp, NoHeader, Receives, SendReply, deviceVars, clientVars
<1>2. pc # "accept" /\ ~exited
  BY <1>1 DEF At
<1>3. /\ pc' \in {"hello", "busid", "close"}
      /\ exited' \in BOOLEAN /\ phase' \in Phase /\ misread' \in BOOLEAN
      /\ phase' = "attached" => link = "up"
  BY <1>1, <1>2, Types DEF PyRecvOp, Raise, NoHeader, Receives, SendReply, deviceVars, clientVars, At, Phase
<1>4. pc' = "busid" => sent # << >> /\ sent[1].kind = "import"
  BY <1>1, <1>2, ReceivesHeader DEF PyRecvOp, NoHeader, Receives, At
<1>5. AnswersInv'
  BY <1>1, <1>3, ReceivesHeader, AnswersKept DEF IInv
<1>6. ImportInv' /\ KeyInv'
  BY <1>1, <1>4 DEF IInv, ImportInv, KeyInv
<1>7. pc' \in PC /\ pc' # "urb"
  BY <1>3 DEF PC
<1> QED BY <1>1, <1>2, <1>3, <1>5, <1>6, <1>7, Types, Received

LEMMA PyRecvBusidKeeps ==
    ASSUME IInv, PyRecvBusid, Python
    PROVE  IInv'
<1>1. /\ Recv(2) /\ At("busid") /\ pc' = "hello" /\ attached' = ~exited'
      /\ UNCHANGED <<build, link, conn, sent, answers, request, count, held, bsize, misread>>
  BY DEF PyRecvBusid, SendReply, deviceVars, clientVars
<1>2. pc # "accept" /\ ~exited /\ pc = "busid"
  BY <1>1 DEF At
<1>3. /\ exited' \in BOOLEAN /\ phase' \in Phase /\ attached' \in BOOLEAN
      /\ phase' = "attached" => link = "up"
  BY <1>1, Types DEF PyRecvBusid, SendReply, clientVars, Phase
<1>4. AnswersInv'
  BY <1>1, ReceivesHeader, AnswersKept DEF IInv
<1>5. ImportInv' /\ KeyInv'
  BY <1>1, <1>2 DEF IInv, ImportInv, KeyInv
<1>6. pc' \in PC
  BY <1>1 DEF PC
<1> QED BY <1>1, <1>2, <1>3, <1>4, <1>5, <1>6, Types, Received

\* A request is handled, the header or the data of which have been read.
LEMMA PyHandles ==
    ASSUME IInv, NEW h \in 1 .. Len(sent), h \in 1 .. MaxSent, Handle(h),
           UNCHANGED <<build, sent>>, pc' # "data",
           \A i : Before(i) => Before(i)', Before(h)',
           \A k \in 1 .. Len(answers) : answers[k].to < h
    PROVE  /\ answers' \in Seq(Answer) /\ exited' \in BOOLEAN /\ AnswersInv'
           /\ count' \in 0 .. Limit /\ held' \in BOOLEAN /\ KeyInv'
<1>1. TypeOK /\ SentInv /\ AnswersInv /\ KeyInv
  BY DEF IInv, AllTypeOK
<1>2. SendAnswers(h, PyAnswers(sent[h].req)) /\ CountReport(sent[h].req)
  BY DEF Handle
<1>3. PyAnswers(sent[h].req) \in AnswerBodies
  <2>1. 0 \in Nat
    OBVIOUS
  <2> QED BY <1>1, <2>1, SentRequest, AnswersOne
<1>4. answers' \in Seq(Answer) /\ (exited' \in BOOLEAN \/ exited' = exited) /\ AnswersInv'
  BY <1>1, <1>2, <1>3, AnswersSent
<1>5. count' \in 0 .. Limit /\ held' \in BOOLEAN /\ KeyInv'
  BY <1>1, <1>2, ReportCounted
<1> QED BY <1>4, <1>5, Types

LEMMA PyRecvCmdKeeps ==
    ASSUME IInv, PyRecvCmd, Python
    PROVE  IInv'
<1>1. /\ Recv(2) /\ At("hello") /\ UNCHANGED <<build, link, conn, sent, phase, attached, bsize>>
  BY DEF PyRecvCmd, NoHeader, PyRequest, clientVars
<1>2. pc = "hello" /\ ~exited
  BY <1>1 DEF At
<1>3. AnswersInv /\ KeyInv /\ attached \in BOOLEAN /\ (attached => Python)
  BY Types DEF IInv
<1>4. ASSUME /\ pc' \in {"hello", "data"} /\ request' \in 0 .. MaxSent
             /\ count' \in 0 .. Limit /\ held' \in BOOLEAN
             /\ exited' \in BOOLEAN /\ misread' \in BOOLEAN
             /\ answers' \in Seq(Answer) /\ AnswersInv' /\ KeyInv'
      PROVE  IInv'
  <2>1. ImportInv'
    BY <1>1, <1>2, <1>4 DEF IInv, ImportInv
  <2>2. pc' \in PC /\ pc' # "urb"
    BY <1>4 DEF PC
  <2> QED BY <1>1, <1>2, <1>3, <1>4, <2>1, <2>2, Types, Received
<1>5. CASE UNCHANGED <<pc, request, count, held, answers>>
           /\ exited' \in BOOLEAN /\ misread' \in BOOLEAN
  <2>1. AnswersInv'
    BY <1>1, <1>2, <1>3, <1>5, ReceivesHeader, AnswersKept
  <2>2. KeyInv'
    BY <1>1, <1>3, <1>5 DEF KeyInv
  <2> QED BY <1>2, <1>4, <1>5, <2>1, <2>2, Types
<1>6. CASE PyRequest
  <2>1. ~RecvIsShort(2) /\ IsHeader /\ UNCHANGED misread
    BY <1>6 DEF PyRequest, Receives
  <2>2. PICK h \in 1 .. Len(sent) :
            /\ h = Header /\ h \in 1 .. MaxSent /\ Before(h)'
            /\ \A k \in 1 .. Len(answers) : answers[k].to < h
    BY <1>1, <2>1, ReceivesHeader
  <2>3. CASE /\ pc' = "data" /\ request' = h /\ UNCHANGED <<count, held, exited, answers>>
    <3>1. AnswersInv'
      BY <1>1, <1>3, <2>2, <2>3, ReceivesHeader, AnswersKeptForData
    <3>2. KeyInv'
      BY <1>1, <1>3, <2>3 DEF KeyInv
    <3>3. request' \in 0 .. MaxSent
      BY <2>2, <2>3
    <3> QED BY <1>4, <2>1, <2>3, <3>1, <3>2, <3>3, Types
  <2>4. CASE Handle(h) /\ UNCHANGED <<pc, request>>
    <3>1. /\ answers' \in Seq(Answer) /\ exited' \in BOOLEAN /\ AnswersInv'
          /\ count' \in 0 .. Limit /\ held' \in BOOLEAN /\ KeyInv'
      BY <1>1, <1>2, <2>2, <2>4, ReceivesHeader, PyHandles
    <3> QED BY <1>2, <1>4, <2>1, <2>4, <3>1, Types
  <2> QED BY <1>6, <2>2, <2>3, <2>4 DEF PyRequest
<1> QED BY <1>2, <1>5, <1>6, Types DEF PyRecvCmd, Raise, NoHeader, clientVars, deviceVars

LEMMA PyRecvDataKeeps ==
    ASSUME IInv, PyRecvData, Python
    PROVE  IInv'
<1> DEFINE len == DataLength(sent[request])
<1>1. /\ Recv(len) /\ At("data") /\ Handle(request) /\ pc' = "hello" /\ request' = 0
      /\ UNCHANGED <<build, bsize, link, conn, phase, sent, misread, attached>>
  BY DEF PyRecvData
<1>2. pc = "data" /\ ~exited
  BY <1>1 DEF At
<1>3. PICK h \in 1 .. Len(sent) :
            /\ h = request /\ h \in 1 .. MaxSent /\ Before(h)
            /\ \A k \in 1 .. Len(answers) : answers[k].to < h
  BY <1>1, ReceivesData
<1>4. len \in Nat
  BY <1>3, SentRequest DEF IInv, AllTypeOK
<1> HIDE DEF len
<1>5. \A i : Before(i) => Before(i)'
  BY <1>1, <1>4, RecvKeeps DEF IInv, AllTypeOK
<1>6. /\ answers' \in Seq(Answer) /\ exited' \in BOOLEAN /\ AnswersInv'
      /\ count' \in 0 .. Limit /\ held' \in BOOLEAN /\ KeyInv'
  BY <1>1, <1>3, <1>5, PyHandles
<1>7. ImportInv'
  BY <1>1, <1>2 DEF IInv, ImportInv
<1>8. pc' \in PC /\ pc' # "urb" /\ request' \in 0 .. MaxSent
  BY <1>1, ServerAssumption DEF PC
<1> QED BY <1>1, <1>2, <1>4, <1>6, <1>7, <1>8, Types, Received

-----------------------------------------------------------------------------
(* The client and the network.                                             *)

\* The units of a message.
LEMMA UnitsOf ==
    ASSUME NEW i \in 1 .. MaxSent, NEW m, DataLength(m) \in Nat
    PROVE  /\ Units(i, m) \in Seq(Unit)
           /\ Len(Units(i, m)) \in Nat /\ Len(Units(i, m)) = 2 + DataLength(m)
           /\ \A k \in 1 .. Len(Units(i, m)) :
                 Units(i, m)[k].msg = i /\ Units(i, m)[k].part = k
<1> DEFINE n == 2 + DataLength(m)
<1>1. n \in Nat
  OBVIOUS
<1>2. Units(i, m) = [k \in 1 .. n |-> [msg |-> i, part |-> k]]
  BY DEF Units
<1> HIDE DEF n
<1>3. \A k \in 1 .. n : [msg |-> i, part |-> k] \in Unit
  BY <1>1 DEF Unit
<1>4. Units(i, m) \in Seq(Unit) /\ Len(Units(i, m)) = n
  BY <1>1, <1>2, <1>3
<1> QED BY <1>1, <1>2, <1>4 DEF n

LEMMA ConnectKeeps ==
    ASSUME IInv, NEW m \in {DevList, Import}, NEW next \in Phase \ {"attached"}, Connect(m, next),
           UNCHANGED attached
    PROVE  IInv'
<1>1. /\ ~exited /\ link = "down" /\ conn < MaxConn /\ conn' = conn + 1 /\ link' = "up"
      /\ sent' = <<m>> /\ answers' = << >> /\ onWay' = Units(1, m) /\ phase' = next
      /\ UNCHANGED <<build, pc, request, count, held, bsize, exited, inbuf, misread, attached>>
  BY DEF Connect, ClientRuns, serverVars, deviceVars
<1>2. pc = "accept" /\ sent = << >> /\ ~attached
  BY <1>1 DEF IInv, SentInv, ImportInv
<1>3. /\ onWay' \in Seq(Unit) /\ Len(onWay') \in Nat
      /\ \A k \in 1 .. Len(onWay') : onWay'[k].msg = 1 /\ onWay'[k].part = k
  <2>1. DataLength(m) \in Nat
    BY DEF DevList, Import, Message, DataLength
  <2>2. 1 \in 1 .. MaxSent
    BY ServerAssumption
  <2> QED BY <1>1, <2>1, <2>2, UnitsOf
<1>4. inbuf' = << >> /\ stream' = onWay'
  <2>1. inbuf' = << >>
    BY <1>1 DEF IInv, SentInv
  <2> QED BY <2>1, <1>3, ConcatEmptySeq DEF stream
<1>5. Len(sent') = 1 /\ sent'[1] = m /\ Len(answers') = 0
  BY <1>1
<1>6. m.req = NoData /\ m.kind \in {"devlist", "import"}
  BY DEF DevList, Import, Message
<1>7. TypeOK'
  <2>1. sent' \in Seq([kind: {"devlist", "import", "submit", "unlink"}, req: Requests])
    <3>1. m \in [kind: {"devlist", "import", "submit", "unlink"}, req: Requests]
      <4>1. NoData \in Requests
        BY DEF Requests
      <4> QED BY <4>1 DEF DevList, Import, Message
    <3> QED BY <1>1, <3>1
  <2>2. /\ << >> \in Seq([msg: 1 .. MaxSent, part: Nat])
        /\ << >> \in Seq([to: 1 .. MaxSent, size: Nat, status: {0, 1}])
    BY EmptySeq
  <2>3. conn' \in 0 .. MaxConn
    BY <1>1, ServerAssumption DEF IInv, AllTypeOK, TypeOK
  <2> QED BY <1>1, <1>3, <1>4, <2>1, <2>2, <2>3 DEF IInv, AllTypeOK, TypeOK, Unit
<1>8. AllTypeOK'
  BY <1>1, <1>7 DEF IInv, AllTypeOK, Python
<1>9. SentInv' /\ StreamInv'
  BY <1>1, <1>3, <1>4, <1>5, <1>6, ServerAssumption DEF SentInv, StreamInv
<1>10. AnswersInv' /\ ImportInv' /\ KeyInv'
  BY <1>1, <1>2, <1>5 DEF IInv, AnswersInv, Reading, ImportInv, KeyInv
<1> QED BY <1>8, <1>9, <1>10 DEF IInv

MessageType == [kind: {"devlist", "import", "submit", "unlink"}, req: Requests]

LEMMA MessageSent ==
    ASSUME IInv, NEW kind \in {"submit", "unlink"}, NEW r \in Asks[build] \cup {NoData}
    PROVE  /\ Message(kind, r) \in MessageType /\ DataLength(Message(kind, r)) \in Nat
           /\ Message(kind, r).kind = kind /\ Message(kind, r).req = r
<1> DEFINE m == Message(kind, r)
<1>3. m.kind = kind /\ m.req = r
  BY DEF Message
<1>4. m \in MessageType
  <2>1. build \in DOMAIN Asks
    BY DEF IInv, AllTypeOK, TypeOK
  <2>2. r \in Requests
    BY <2>1 DEF Requests
  <2> QED BY <2>2 DEF Message, MessageType
<1>5. DataLength(m) \in Nat
  <2>1. NoData \in Request /\ build \in DOMAIN Asks
    BY DEF NoData, Request, IInv, AllTypeOK, TypeOK
  <2>2. r.length \in Nat
    BY <2>1, ServerAssumption DEF Request
  <2> QED BY <1>3, <2>2 DEF DataLength
<1> QED BY <1>3, <1>4, <1>5

\* A message's units are added to the stream.
LEMMA SendsAppends ==
    ASSUME IInv, NEW m \in MessageType, DataLength(m) \in Nat,
           NEW new, new = Units(Len(sent) + 1, m), Sends(m)
    PROVE  /\ new \in Seq(Unit) /\ Len(new) \in Nat /\ Len(new) = 2 + DataLength(m)
           /\ \A k \in 1 .. Len(new) : new[k].msg = Len(sent) + 1 /\ new[k].part = k
           /\ sent' \in Seq(MessageType)
           /\ Len(sent') = Len(sent) + 1 /\ sent'[Len(sent) + 1] = m
           /\ \A k \in 1 .. Len(sent) : sent'[k] = sent[k]
           /\ Len(stream) \in Nat /\ Len(stream') = Len(stream) + Len(new)
           /\ \A p \in 1 .. Len(stream) : stream'[p] = stream[p]
           /\ \A p \in Len(stream) + 1 .. Len(stream') :
                stream'[p].msg = Len(sent) + 1 /\ stream'[p].part = p - Len(stream)
           /\ onWay' \in Seq(Unit)
<1>1. /\ Len(sent) < MaxSent /\ sent' = Append(sent, m) /\ onWay' = onWay \o new
      /\ UNCHANGED inbuf
  BY DEF Sends, ClientRuns
<1>2. Len(sent) \in Nat /\ MaxSent \in Nat
  BY LenProperties, ServerAssumption DEF IInv, AllTypeOK, TypeOK
<1>6. /\ new \in Seq(Unit) /\ Len(new) \in Nat /\ Len(new) = 2 + DataLength(m)
      /\ \A k \in 1 .. Len(new) : new[k].msg = Len(sent) + 1 /\ new[k].part = k
  <2>1. Len(sent) + 1 \in 1 .. MaxSent
    BY <1>1, <1>2
  <2> QED BY <2>1, UnitsOf
<1>7. /\ sent' \in Seq(MessageType)
      /\ Len(sent') = Len(sent) + 1 /\ sent'[Len(sent) + 1] = m
      /\ \A k \in 1 .. Len(sent) : sent'[k] = sent[k]
  BY <1>1, AppendProperties DEF IInv, AllTypeOK, TypeOK, MessageType
<1>8. /\ inbuf \in Seq(Unit) /\ onWay \in Seq(Unit) /\ stream \in Seq(Unit)
      /\ Len(stream) \in Nat
  BY StreamUnits, LenProperties DEF IInv, AllTypeOK
<1>9. stream' = stream \o new
  <2>1. inbuf \in Seq(Unit) /\ onWay \in Seq(Unit) /\ new \in Seq(Unit)
    BY <1>6, <1>8
  <2>2. inbuf \o (onWay \o new) = (inbuf \o onWay) \o new
    BY <2>1, ConcatUnits
  <2>3. stream' = inbuf' \o onWay' /\ stream = inbuf \o onWay
    BY DEF stream
  <2>4. inbuf' = inbuf /\ onWay' = onWay \o new
    BY <1>1
  <2> QED BY <2>2, <2>3, <2>4
<1>10. /\ Len(stream') = Len(stream) + Len(new)
       /\ \A p \in 1 .. Len(stream) + Len(new) :
            stream'[p] = IF p <= Len(stream) THEN stream[p] ELSE new[p - Len(stream)]
  BY <1>6, <1>8, <1>9, ConcatProperties
<1>11. onWay' \in Seq(Unit)
  BY <1>1, <1>6, <1>8, ConcatProperties
<1>12. \A p \in 1 .. Len(stream) : stream'[p] = stream[p]
  BY <1>6, <1>8, <1>10
<1>13. ASSUME NEW p \in Len(stream) + 1 .. Len(stream')
       PROVE  stream'[p].msg = Len(sent) + 1 /\ stream'[p].part = p - Len(stream)
  <2>1. /\ p - Len(stream) \in 1 .. Len(new) /\ ~(p <= Len(stream))
        /\ p \in 1 .. Len(stream) + Len(new)
    <3>1. Len(new) \in Nat /\ Len(stream') = Len(stream) + Len(new)
      BY <1>6, <1>10
    <3> QED BY <1>8, <3>1
  <2>2. stream'[p] = new[p - Len(stream)]
    BY <1>10, <2>1
  <2> QED BY <1>6, <2>1, <2>2
<1> QED BY <1>6, <1>7, <1>8, <1>10, <1>11, <1>12, <1>13

\* A request that is sent comes after all that has been sent.
LEMMA SendsKeeps ==
    ASSUME IInv, NEW kind \in {"submit", "unlink"}, NEW r \in Asks[build] \cup {NoData},
           Sends(Message(kind, r)), UNCHANGED attached
    PROVE  IInv'
<1>3. PICK m : /\ m = Message(kind, r) /\ m \in MessageType /\ DataLength(m) \in Nat
               /\ m.kind = kind /\ m.req = r
  BY MessageSent
<1>4. PICK new : new = Units(Len(sent) + 1, m)
  OBVIOUS
<1>1. /\ ~exited /\ Len(sent) < MaxSent /\ phase = "attached"
      /\ sent' = Append(sent, m) /\ onWay' = onWay \o new
      /\ UNCHANGED <<build, pc, request, count, held, bsize, exited, link, conn, inbuf,
                     phase, answers, misread, attached>>
  BY <1>3, <1>4 DEF Sends, ClientRuns, serverVars, deviceVars
<1>2. Len(sent) \in Nat /\ MaxSent \in Nat
  BY LenProperties, ServerAssumption DEF IInv, AllTypeOK, TypeOK
<1>5. Sends(m)
  BY <1>3
<1>6. /\ new \in Seq(Unit) /\ Len(new) \in Nat
      /\ \A k \in 1 .. Len(new) : new[k].msg = Len(sent) + 1 /\ new[k].part = k
  BY <1>3, <1>4, <1>5, SendsAppends
<1>7. /\ sent' \in Seq(MessageType)
      /\ Len(sent') = Len(sent) + 1 /\ sent'[Len(sent) + 1] = m
      /\ \A k \in 1 .. Len(sent) : sent'[k] = sent[k]
  BY <1>3, <1>4, <1>5, SendsAppends
<1>8. Len(stream) \in Nat /\ onWay' \in Seq(Unit)
  BY <1>3, <1>4, <1>5, SendsAppends
<1>10. Len(stream') = Len(stream) + Len(new)
  BY <1>3, <1>4, <1>5, SendsAppends
<1>11. \A p \in 1 .. Len(stream') :
          \/ p \in 1 .. Len(stream) /\ stream'[p] = stream[p]
          \/ /\ p \in Len(stream) + 1 .. Len(stream')
             /\ stream'[p].msg = Len(sent) + 1 /\ stream'[p].part = p - Len(stream)
  <2>1. \A p \in 1 .. Len(stream) : stream'[p] = stream[p]
    BY <1>3, <1>4, <1>5, SendsAppends
  <2>2. \A p \in Len(stream) + 1 .. Len(stream') :
            stream'[p].msg = Len(sent) + 1 /\ stream'[p].part = p - Len(stream)
    BY <1>3, <1>4, <1>5, SendsAppends
  <2> QED BY <1>6, <1>8, <1>10, <2>1, <2>2
<1>12. AllTypeOK'
  BY <1>1, <1>7, <1>8 DEF IInv, AllTypeOK, TypeOK, Python, Unit, MessageType
<1>13. SentInv'
  <2>1. /\ Len(sent') <= MaxSent
        /\ \A k \in 1 .. Len(sent') : sent'[k].req \in Asks[build'] \cup {NoData}
    BY <1>1, <1>2, <1>3, <1>7 DEF IInv, SentInv
  <2>2. \A k \in 2 .. Len(sent') : sent'[k].kind \in {"submit", "unlink"}
    <3>1. \A k \in 2 .. Len(sent) : sent[k].kind \in {"submit", "unlink"}
      BY DEF IInv, SentInv
    <3>2. \A k \in 2 .. Len(sent') : k \in 2 .. Len(sent) \/ k = Len(sent) + 1
      BY <1>2, <1>7
    <3>3. \A k \in 2 .. Len(sent) : sent'[k] = sent[k]
      BY <1>2, <1>7
    <3>4. sent'[Len(sent) + 1].kind \in {"submit", "unlink"}
      BY <1>3, <1>7
    <3> QED BY <3>1, <3>2, <3>3, <3>4
  <2>3. link' = "up"
    BY <1>1 DEF IInv, SentInv
  <2> QED BY <2>1, <2>2, <2>3 DEF SentInv
<1>14. StreamInv'
  <2>1. \A p \in 1 .. Len(stream') : stream'[p].msg <= Len(sent')
    <3>1. \A p \in 1 .. Len(stream) : stream[p].msg <= Len(sent) /\ stream[p].msg \in Nat
      BY StreamUnits, ServerAssumption DEF IInv, AllTypeOK, StreamInv, Unit
    <3>2. Len(sent') = Len(sent) + 1
      BY <1>7
    <3>3. \A p \in 1 .. Len(stream') :
             (p \in 1 .. Len(stream) /\ stream'[p] = stream[p]) \/ stream'[p].msg = Len(sent) + 1
      BY <1>11
    <3>4. ASSUME NEW p \in 1 .. Len(stream') PROVE stream'[p].msg <= Len(sent) + 1
      BY <1>2, <3>1, <3>3
    <3> QED BY <3>2, <3>4
  <2>2. ASSUME NEW p \in 1 .. Len(stream'), NEW q \in 1 .. Len(stream'),
               p < q, stream'[q].part = 1
        PROVE  stream'[p].msg < stream'[q].msg
    <3>1. p \in 1 .. Len(stream)
      BY <1>6, <1>8, <1>10, <1>11, <2>2
    <3>2. stream'[p] = stream[p] /\ stream[p].msg <= Len(sent) /\ stream[p].msg \in Nat
      BY <1>8, <1>11, <3>1, StreamUnits, SMTT(20) DEF IInv, AllTypeOK, StreamInv, Unit
    <3>3. CASE q \in 1 .. Len(stream) /\ stream'[q] = stream[q]
      BY <2>2, <3>1, <3>2, <3>3 DEF IInv, StreamInv
    <3>4. CASE stream'[q].msg = Len(sent) + 1
      BY <1>2, <3>2, <3>4
    <3> QED BY <1>11, <3>3, <3>4
  <2> QED BY <2>1, <2>2 DEF StreamInv
<1>15. AnswersInv'
  <2>1. ASSUME NEW i \in Int, i <= Len(sent), Before(i) PROVE Before(i)'
    BY <1>2, <1>11, <2>1 DEF Before
  <2>2. \A k \in 1 .. Len(answers) : answers[k].to \in Int
    <3>1. \A k \in 1 .. Len(answers) : answers[k] \in Answer
      BY Types, ElementOfSeq
    <3> QED BY <3>1, ServerAssumption DEF Answer
  <2>3. Reading' => request' \in 1 .. Len(sent') /\ \A i : i = request' => Before(i)'
    BY <1>1, <1>2, <1>7, <2>1 DEF IInv, AnswersInv, Reading
  <2> QED BY <1>1, <1>2, <1>7, <2>1, <2>2, <2>3 DEF IInv, AnswersInv, Reading
<1>16. ImportInv' /\ KeyInv'
  <2>1. sent # << >> => sent' # << >> /\ sent'[1] = sent[1]
    BY <1>2, <1>7
  <2> QED BY <1>1, <2>1 DEF IInv, ImportInv, KeyInv
<1> QED BY <1>12, <1>13, <1>14, <1>15, <1>16 DEF IInv

\* A client that leaves cuts off the end of the stream.
LEMMA LeaveCuts ==
    ASSUME TypeOK, Leave
    PROVE  /\ onWay' \in Seq(Unit) /\ (onWay' # << >> => onWay # << >>)
           /\ Len(stream') \in Nat /\ Len(stream') <= Len(stream)
           /\ \A p \in 1 .. Len(stream') : p \in 1 .. Len(stream) /\ stream'[p] = stream[p]
<1>1. inbuf' = inbuf
  BY DEF Leave
<1>2. PICK n \in 0 .. Len(onWay) : onWay' = SubSeq(onWay, 1, n)
  BY DEF Leave
<1>3. /\ onWay' \in Seq(Unit) /\ Len(onWay') = n
      /\ \A p \in 1 .. n : onWay'[p] = onWay[p]
  <2>1. Len(onWay) \in Nat /\ 1 \in 1 .. Len(onWay) + 1 /\ 1 <= n + 1 /\ onWay \in Seq(Unit)
    BY StreamUnits
  <2>2. /\ SubSeq(onWay, 1, n) \in Seq(Unit)
        /\ Len(SubSeq(onWay, 1, n)) = n - 1 + 1
        /\ \A p \in 1 .. n - 1 + 1 : SubSeq(onWay, 1, n)[p] = onWay[1 + p - 1]
    BY <2>1, PartOfSeq
  <2> QED BY <1>2, <2>2
<1>4. /\ Len(stream') \in Nat /\ Len(stream') <= Len(stream)
      /\ \A p \in 1 .. Len(stream') : p \in 1 .. Len(stream) /\ stream'[p] = stream[p]
  <2>1. inbuf' \in Seq(Unit) /\ Len(inbuf) \in Nat /\ Len(onWay) \in Nat
    BY <1>1, StreamUnits
  <2>2. Len(stream') = Len(inbuf) + n /\ Len(stream) = Len(inbuf) + Len(onWay)
    BY <1>1, <1>3, <2>1, StreamUnits, StreamUnitsNext
  <2>3. ASSUME NEW p \in 1 .. Len(stream')
        PROVE  p \in 1 .. Len(stream) /\ stream'[p] = stream[p]
    <3>1. p \in 1 .. Len(stream)
      BY <2>1, <2>2
    <3>2. stream'[p] = IF p <= Len(inbuf) THEN inbuf[p] ELSE onWay'[p - Len(inbuf)]
      BY <1>1, <1>3, <2>1, StreamUnitsNext
    <3>3. stream[p] = IF p <= Len(inbuf) THEN inbuf[p] ELSE onWay[p - Len(inbuf)]
      BY <3>1, StreamUnits
    <3>4. ~(p <= Len(inbuf)) => p - Len(inbuf) \in 1 .. n
      BY <2>1, <2>2
    <3> QED BY <1>3, <3>1, <3>2, <3>3, <3>4
  <2> QED BY <2>1, <2>2, <2>3
<1>5. onWay' # << >> => onWay # << >>
  BY <1>2, <1>3, EmptySeq
<1> QED BY <1>3, <1>4, <1>5

LEMMA LeaveKeeps ==
    ASSUME IInv, Leave, UNCHANGED attached
    PROVE  IInv'
<1>1. /\ ~exited /\ link = "up" /\ link' = "gone" /\ phase' = "away" /\ answers' = << >>
      /\ UNCHANGED <<build, pc, request, count, held, bsize, exited, conn, inbuf, sent,
                     misread, attached>>
  BY DEF Leave, ClientRuns, serverVars, deviceVars
<1>4. /\ onWay' \in Seq(Unit)
      /\ Len(stream') \in Nat /\ Len(stream') <= Len(stream)
      /\ \A p \in 1 .. Len(stream') : p \in 1 .. Len(stream) /\ stream'[p] = stream[p]
  BY LeaveCuts DEF IInv, AllTypeOK
<1>6. \A i : Before(i) => Before(i)'
  BY <1>4 DEF Before
<1>7. StreamInv'
  BY <1>1, <1>4 DEF IInv, StreamInv
<1>8. AnswersInv'
  <2>1. Len(answers') = 0
    BY <1>1
  <2> QED BY <1>1, <1>6, <2>1 DEF IInv, AnswersInv, Reading
<1>9. AllTypeOK'
  <2>1. << >> \in Seq([to: 1 .. MaxSent, size: Nat, status: {0, 1}])
    BY EmptySeq
  <2> QED BY <1>1, <1>4, <2>1 DEF IInv, AllTypeOK, TypeOK, Python, Unit, Phase
<1>10. SentInv' /\ ImportInv' /\ KeyInv'
  BY <1>1 DEF IInv, SentInv, ImportInv, KeyInv
<1> QED BY <1>7, <1>8, <1>9, <1>10 DEF IInv

\* The network moves the border between what is there and what is on the way.
LEMMA DeliverMoves ==
    ASSUME TypeOK, Deliver
    PROVE  /\ onWay # << >> /\ inbuf' \in Seq(Unit) /\ onWay' \in Seq(Unit)
           /\ stream' = stream /\ (~Pieces => onWay' = << >>)
<1>2. onWay # << >>
  BY DEF Deliver
<1>3. PICK n \in 1 .. Len(onWay) : /\ Pieces \/ n = Len(onWay)
                                  /\ inbuf' = inbuf \o SubSeq(onWay, 1, n)
                                  /\ onWay' = SubSeq(onWay, n + 1, Len(onWay))
  BY DEF Deliver
<1>4. /\ inbuf \in Seq(Unit) /\ onWay \in Seq(Unit)
      /\ Len(onWay) \in Nat
  BY StreamUnits
<1>5. SubSeq(onWay, 1, n) \in Seq(Unit) /\ SubSeq(onWay, n + 1, Len(onWay)) \in Seq(Unit)
  <2>1. /\ 1 \in 1 .. Len(onWay) + 1 /\ n \in 0 .. Len(onWay) /\ 1 <= n + 1
        /\ n + 1 \in 1 .. Len(onWay) + 1 /\ Len(onWay) \in 0 .. Len(onWay)
        /\ n + 1 <= Len(onWay) + 1
    BY <1>4
  <2> QED BY <1>4, <2>1, PartOfSeq
<1>6. inbuf' \in Seq(Unit) /\ onWay' \in Seq(Unit)
  BY <1>3, <1>4, <1>5, ConcatProperties
<1>7. stream' = stream
  <2>1. SubSeq(onWay, 1, n) \o SubSeq(onWay, n + 1, Len(onWay)) = SubSeq(onWay, 1, Len(onWay))
    <3>1. 1 \in 1 .. Len(onWay) + 1 /\ n \in 1 - 1 .. Len(onWay) /\ Len(onWay) \in n .. Len(onWay)
      BY <1>4
    <3> QED BY <1>4, <3>1, ConcatAdjacentSubSeq
  <2>2. SubSeq(onWay, 1, Len(onWay)) = onWay
    BY <1>4, SubSeqFull
  <2>3. inbuf \in Seq(Unit)
    BY <1>4
  <2> DEFINE first == SubSeq(onWay, 1, n)
             rest  == SubSeq(onWay, n + 1, Len(onWay))
  <2>4. first \in Seq(Unit) /\ rest \in Seq(Unit) /\ first \o rest = onWay
    <3>1. first \in Seq(Unit) /\ rest \in Seq(Unit)
      BY <1>5, Zenon
    <3>2. first \o rest = onWay
      BY <2>1, <2>2, Zenon
    <3> QED BY <3>1, <3>2, Zenon
  <2>5. inbuf' = inbuf \o first /\ onWay' = rest
    BY <1>3, Zenon
  <2> HIDE DEF first, rest
  <2>6. (inbuf \o first) \o rest = inbuf \o (first \o rest)
    BY <2>3, <2>4, ConcatUnits
  <2> QED BY <2>4, <2>5, <2>6 DEF stream
<1>8. ~Pieces => onWay' = << >>
  <2>1. SubSeq(onWay, Len(onWay) + 1, Len(onWay)) = << >>
    BY <1>4, SubSeqEmpty
  <2> QED BY <1>3, <2>1
<1> QED BY <1>2, <1>6, <1>7, <1>8

LEMMA DeliverKeeps ==
    ASSUME IInv, Deliver, UNCHANGED attached
    PROVE  IInv'
<1>1. UNCHANGED <<build, pc, request, count, held, bsize, exited, link, conn, phase, sent,
                  answers, misread, attached>>
  BY DEF Deliver, serverVars, deviceVars, clientVars
<1>2. onWay # << >> /\ inbuf' \in Seq(Unit) /\ onWay' \in Seq(Unit) /\ stream' = stream
  BY DeliverMoves DEF IInv, AllTypeOK
<1>8. \A i : Before(i) => Before(i)'
  BY <1>2 DEF Before
<1>9. AnswersInv'
  <2>1. \A i : i = request => (Before(i) => Before(i)')
    BY <1>8
  <2> QED BY <1>1, <1>8, <2>1 DEF IInv, AnswersInv, Reading
<1>10. AllTypeOK'
  BY <1>1, <1>2 DEF IInv, AllTypeOK, TypeOK, Python, Unit
<1>11. SentInv'
  BY <1>1, <1>2 DEF IInv, SentInv
<1>12. StreamInv'
  BY <1>1, <1>2 DEF IInv, StreamInv
<1>13. ImportInv' /\ KeyInv'
  BY <1>1 DEF IInv, ImportInv, KeyInv
<1> QED BY <1>9, <1>10, <1>11, <1>12, <1>13 DEF IInv

-----------------------------------------------------------------------------
(* The invariant and the theorems.                                         *)

LEMMA InitHolds == AllInit => IInv
<1> SUFFICES ASSUME AllInit PROVE IInv
  OBVIOUS
<1>1. /\ build \in DOMAIN Asks /\ pc = "accept" /\ request = 0 /\ count = 0 /\ held = FALSE
      /\ bsize = 0 /\ exited = FALSE /\ link = "down" /\ conn = 0 /\ onWay = << >>
      /\ inbuf = << >> /\ phase = "away" /\ sent = << >> /\ answers = << >>
      /\ misread = FALSE /\ attached = FALSE
  BY DEF AllInit, Init
<1>2. \A S : << >> \in Seq(S)
  BY EmptySeq
<1>3. Len(sent) = 0 /\ Len(answers) = 0 /\ Len(stream) = 0
  BY <1>1 DEF stream
<1>4. AllTypeOK
  <2>1. /\ onWay \in Seq([msg: 1 .. MaxSent, part: Nat])
        /\ inbuf \in Seq([msg: 1 .. MaxSent, part: Nat])
        /\ sent \in Seq([kind: {"devlist", "import", "submit", "unlink"}, req: Requests])
        /\ answers \in Seq([to: 1 .. MaxSent, size: Nat, status: {0, 1}])
    BY <1>1, <1>2
  <2>2. request \in 0 .. MaxSent /\ count \in 0 .. Limit /\ conn \in 0 .. MaxConn
    BY <1>1, ServerAssumption
  <2>3. pc \in PC /\ phase \in Phase
    BY <1>1 DEF PC, Phase
  <2> QED BY <1>1, <2>1, <2>2, <2>3 DEF AllTypeOK, TypeOK
<1>5. SentInv /\ StreamInv /\ AnswersInv /\ ImportInv /\ KeyInv
  BY <1>1, <1>3, ServerAssumption DEF SentInv, StreamInv, AnswersInv, Reading, ImportInv, KeyInv
<1> QED BY <1>4, <1>5 DEF IInv

LEMMA StepKeeps ==
    ASSUME IInv, [AllNext]_allVars
    PROVE  IInv'
<1>1. CASE UNCHANGED allVars
  <2>1. UNCHANGED <<build, pc, request, count, held, bsize, exited, link, conn, onWay, inbuf,
                    phase, sent, answers, misread, attached>>
    BY <1>1 DEF allVars, vars, serverVars, deviceVars, wireVars, clientVars
  <2>2. \A i : Before(i) => Before(i)'
    BY <2>1 DEF Before, stream
  <2>3. AnswersInv'
    BY <2>1, <2>2 DEF IInv, AnswersInv, Reading
  <2> QED BY <2>1, <2>3, ZenonT(40) DEF IInv, AllTypeOK, TypeOK, Python, SentInv, StreamInv, stream,
          ImportInv, KeyInv
<1>2. CASE Runs
  <2>1. CASE ~Python /\ Server /\ UNCHANGED attached
    BY <2>1, AcceptKeeps, RecvOpKeeps, RecvBusidKeeps, RecvCmdKeeps, RecvDataKeeps,
       CloseLinkKeeps DEF Server
  <2>2. CASE Python /\ PyLoop
    BY <2>2, AcceptKeeps, CloseLinkKeeps, PyRecvOpKeeps, PyRecvBusidKeeps, PyRecvCmdKeeps,
       PyRecvDataKeeps DEF PyLoop
  <2> QED BY <1>2, <2>1, <2>2 DEF Runs
<1>3. CASE Python /\ ConnectionReset
  BY <1>3, ConnectionResetKeeps
<1>4. CASE Delivers
  BY <1>4, DeliverKeeps DEF Delivers
<1>5. CASE Client /\ UNCHANGED attached
  <2>1. CASE List \/ Attach
    BY <1>5, <2>1, ConnectKeeps DEF List, Attach, Phase
  <2>2. CASE Ask
    BY <1>5, <2>2, SendsKeeps DEF Ask
  <2>3. CASE GiveUp
    BY <1>5, <2>3, SendsKeeps DEF GiveUp
  <2>4. CASE Leave
    BY <1>5, <2>4, LeaveKeeps
  <2> QED BY <1>5, <2>1, <2>2, <2>3, <2>4 DEF Client
<1> QED BY <1>1, <1>2, <1>3, <1>4, <1>5 DEF AllNext

LEMMA Invariant == AllSpec => []IInv
<1>1. IInv /\ [AllNext]_allVars => IInv'
  BY StepKeeps
<1> QED BY InitHolds, <1>1, PTL DEF AllSpec

\* The types of both servers' variables.
THEOREM ServerTypeCorrect == AllSpec => []AllTypeOK
<1>1. IInv => AllTypeOK
  BY DEF IInv
<1> QED BY Invariant, <1>1, PTL

\* usbip_run and run answer the requests of a connection in the order in which
\* they were sent, each at most once, and no others.
THEOREM AnswersInOrder == AllSpec => []InOrder
<1>1. IInv => InOrder
  <2> SUFFICES ASSUME IInv PROVE InOrder
    OBVIOUS
  <2>1. DOMAIN answers = 1 .. Len(answers) /\ Len(answers) \in Nat
    BY Types, LenProperties
  <2>2. DOMAIN sent = 1 .. Len(sent) /\ Len(sent) \in Nat
    BY LenProperties DEF IInv, AllTypeOK, TypeOK
  <2>3. \A k \in 1 .. Len(answers) : answers[k].to \in 1 .. MaxSent
    <3>1. \A k \in 1 .. Len(answers) : answers[k] \in Answer
      BY Types, ElementOfSeq
    <3> QED BY <3>1 DEF Answer
  <2>4. ASSUME NEW j \in DOMAIN answers, NEW k \in DOMAIN answers
        PROVE  /\ answers[k].to \in DOMAIN sent
               /\ j < k => answers[j].to < answers[k].to
    <3>1. answers[k].to \in DOMAIN sent
      BY <2>1, <2>2, <2>3, ServerAssumption DEF IInv, AnswersInv
    <3>2. j < k => j \in 1 .. k - 1
      BY <2>1
    <3> QED BY <2>1, <3>1, <3>2 DEF IInv, AnswersInv
  <2> QED BY <2>4 DEF InOrder
<1> QED BY Invariant, <1>1, PTL

\* run of USBIP.py never takes a connection for that of an attached client when
\* that has not imported the device, though it keeps attached for good.
THEOREM AttachedHasImported == AllSpec => []OneImport
<1>1. IInv => OneImport
  BY DEF IInv, ImportInv, OneImport
<1> QED BY Invariant, <1>1, PTL

\* The last of a keyboard's reports releases the key.
THEOREM LastReportReleases == AllSpec => []KeyReleased
<1>1. IInv => KeyReleased
  BY ServerAssumption DEF IInv, KeyInv, KeyReleased
<1> QED BY Invariant, <1>1, PTL

-----------------------------------------------------------------------------
(* Messages that arrive whole, and of which all data are read.             *)

Parts(m, i) == 2 + DataLength(m[i])

\* What unit v may be that comes d units after u.
Follows(m, u, v, d) ==
    /\ u.part + d <= Parts(m, u.msg) => v.msg = u.msg /\ v.part = u.part + d
    /\ u.part + d = Parts(m, u.msg) + 1 => v.part = 1

\* A unit is followed by the next of its message, and the last by a header.
FramedIn(s, m) ==
    /\ \A p \in 1 .. Len(s) :
          Parts(m, s[p].msg) \in Nat /\ s[p].part \in 1 .. Parts(m, s[p].msg)
    /\ \A p, q \in 1 .. Len(s) : p < q => Follows(m, s[p], s[q], q - p)

\* The rest of its message is in s too.
WholeIn(s, m) ==
    \A p \in 1 .. Len(s) : p + (Parts(m, s[p].msg) - s[p].part) <= Len(s)

\* The server is going to receive the data of this message.
DataDue == pc = "busid" \/ (pc = "data" /\ DataLength(sent[request]) # 0)
Due     == IF pc = "busid" THEN 1 ELSE request

FirstInv ==
    ~exited /\ pc # "close" =>
        /\ DataDue /\ link = "up" => stream # << >>
        /\ stream # << >> =>
             IF DataDue THEN stream[1].msg = Due /\ stream[1].part = 3
                        ELSE stream[1].part = 1

\* What recv() is called for is there to the last byte, unless the client has
\* left and nothing more will come.
AlignedInv ==
    /\ ~misread
    /\ FramedIn(stream, sent)
    /\ link = "up" => WholeIn(stream, sent)
    /\ link = "up" \/ onWay # << >> => WholeIn(inbuf, sent)
    /\ FirstInv

LEMMA SuffixFramed ==
    ASSUME NEW s, NEW t, NEW m, NEW k \in Nat, Len(s) \in Nat, Len(t) = Len(s) - k,
           Len(t) \in Nat, \A p \in 1 .. Len(t) : t[p] = s[p + k], FramedIn(s, m)
    PROVE  FramedIn(t, m) /\ (WholeIn(s, m) => WholeIn(t, m))
<1>1. \A p \in 1 .. Len(t) : p + k \in 1 .. Len(s) /\ t[p] = s[p + k]
  OBVIOUS
<1>2. ASSUME NEW p \in 1 .. Len(t)
      PROVE  Parts(m, t[p].msg) \in Nat /\ t[p].part \in 1 .. Parts(m, t[p].msg)
  BY <1>1 DEF FramedIn
<1>3. ASSUME NEW p \in 1 .. Len(t), NEW q \in 1 .. Len(t), p < q
      PROVE  Follows(m, t[p], t[q], q - p)
  <2>1. p + k < q + k /\ (q + k) - (p + k) = q - p
    BY <1>3
  <2>2. Follows(m, s[p + k], s[q + k], (q + k) - (p + k))
    BY <1>1, <2>1 DEF FramedIn
  <2> QED BY <1>1, <2>1, <2>2
<1>4. ASSUME WholeIn(s, m), NEW p \in 1 .. Len(t)
      PROVE  p + (Parts(m, t[p].msg) - t[p].part) <= Len(t)
  <2>1. (p + k) + (Parts(m, t[p].msg) - t[p].part) <= Len(s)
    BY <1>1, <1>4 DEF WholeIn
  <2>2. Parts(m, t[p].msg) \in Nat /\ t[p].part \in Nat
    BY <1>2
  <2> QED BY <2>1, <2>2
<1> QED BY <1>2, <1>3, <1>4 DEF FramedIn, WholeIn

LEMMA PrefixFramed ==
    ASSUME NEW s, NEW t, NEW m, Len(s) \in Nat, Len(t) \in Nat, Len(t) <= Len(s),
           \A p \in 1 .. Len(t) : t[p] = s[p], FramedIn(s, m)
    PROVE  FramedIn(t, m)
<1>1. \A p \in 1 .. Len(t) : p \in 1 .. Len(s) /\ t[p] = s[p]
  OBVIOUS
<1> QED BY <1>1 DEF FramedIn

\* t is s with all units of message i behind it.
Appends(s, m, t, n, i) ==
    /\ Len(s) \in Nat /\ Parts(n, i) \in Nat /\ Len(t) = Len(s) + Parts(n, i)
    /\ \A p \in 1 .. Len(s) : n[s[p].msg] = m[s[p].msg] /\ t[p] = s[p]
    /\ \A p \in Len(s) + 1 .. Len(t) : t[p].msg = i /\ t[p].part = p - Len(s)

LEMMA AppendFramed ==
    ASSUME NEW s, NEW t, NEW m, NEW n, NEW i,
           FramedIn(s, m), WholeIn(s, m), Appends(s, m, t, n, i)
    PROVE  FramedIn(t, n) /\ WholeIn(t, n)
<1>0. /\ Len(s) \in Nat /\ Parts(n, i) \in Nat /\ Len(t) = Len(s) + Parts(n, i)
      /\ \A p \in 1 .. Len(s) : n[s[p].msg] = m[s[p].msg] /\ t[p] = s[p]
      /\ \A p \in Len(s) + 1 .. Len(t) : t[p].msg = i /\ t[p].part = p - Len(s)
  BY DEF Appends
<1>1. ASSUME NEW p \in 1 .. Len(s)
      PROVE  /\ t[p] = s[p] /\ Parts(n, t[p].msg) = Parts(m, s[p].msg)
             /\ Parts(n, t[p].msg) \in Nat /\ t[p].part \in 1 .. Parts(n, t[p].msg)
             /\ p + (Parts(n, t[p].msg) - t[p].part) <= Len(s)
  <2>1. t[p] = s[p] /\ Parts(n, t[p].msg) = Parts(m, s[p].msg)
    BY <1>0 DEF Parts
  <2> QED BY <1>0, <2>1 DEF FramedIn, WholeIn
<1>2. ASSUME NEW p \in Len(s) + 1 .. Len(t)
      PROVE  /\ t[p].msg = i /\ t[p].part = p - Len(s)
             /\ t[p].part \in 1 .. Parts(n, i)
             /\ p + (Parts(n, i) - t[p].part) = Len(t)
  BY <1>0
<1>3. \A p \in 1 .. Len(t) : p \in 1 .. Len(s) \/ p \in Len(s) + 1 .. Len(t)
  BY <1>0
<1>4. ASSUME NEW p \in 1 .. Len(t)
      PROVE  /\ Parts(n, t[p].msg) \in Nat /\ t[p].part \in 1 .. Parts(n, t[p].msg)
             /\ p + (Parts(n, t[p].msg) - t[p].part) <= Len(t)
  <2>1. CASE p \in 1 .. Len(s)
    BY <1>0, <1>1, <2>1
  <2>2. CASE p \in Len(s) + 1 .. Len(t)
    BY <1>0, <1>2, <2>2
  <2> QED BY <1>0, <1>3, <2>1, <2>2
<1>5. ASSUME NEW p \in 1 .. Len(t), NEW q \in 1 .. Len(t), p < q
      PROVE  Follows(n, t[p], t[q], q - p)
  <2>1. CASE p \in 1 .. Len(s) /\ q \in 1 .. Len(s)
    <3>1. Follows(m, s[p], s[q], q - p)
      BY <1>0, <1>5, <2>1 DEF FramedIn
    <3>2. t[p] = s[p] /\ t[q] = s[q] /\ Parts(n, s[p].msg) = Parts(m, s[p].msg)
      BY <1>0, <1>1, <2>1
    <3> QED BY <1>0, <3>1, <3>2 DEF Follows
  <2>2. CASE p \in 1 .. Len(s) /\ q \in Len(s) + 1 .. Len(t)
    <3>1. t[p].part \in Nat /\ Parts(n, t[p].msg) \in Nat
      BY <1>0, <1>1, <2>2
    <3>2. p + (Parts(n, t[p].msg) - t[p].part) <= Len(s)
      BY <1>0, <1>1, <2>2
    <3>3. ~(t[p].part + (q - p) <= Parts(n, t[p].msg))
      BY <1>0, <2>2, <3>1, <3>2
    <3>4. ASSUME t[p].part + (q - p) = Parts(n, t[p].msg) + 1 PROVE t[q].part = 1
      <4>1. /\ p \in Int /\ q \in Int /\ Len(s) + 1 <= q
            /\ t[p].part \in Int /\ Parts(n, t[p].msg) \in Int
        BY <1>0, <2>2, <3>1
      <4>2. PICK a \in Int, b \in Int : a = t[p].part /\ b = Parts(n, t[p].msg)
        BY <1>0, <4>1
      <4>3. a + (q - p) = b + 1 /\ p + (b - a) <= Len(s)
        BY <1>0, <3>2, <3>4, <4>2
      <4>4. q - Len(s) = 1
        BY <1>0, <4>1, <4>3
      <4>5. t[q].part = q - Len(s)
        BY <1>0, <1>2, <2>2
      <4> QED BY <1>0, <4>4, <4>5
    <3> QED BY <1>0, <3>3, <3>4 DEF Follows
  <2>3. CASE p \in Len(s) + 1 .. Len(t)
    <3>1. q \in Len(s) + 1 .. Len(t)
      BY <1>0, <1>5, <2>3
    <3>2. /\ t[p].msg = i /\ t[p].part = p - Len(s) /\ t[q].msg = i
          /\ t[q].part = q - Len(s) /\ q - Len(s) <= Parts(n, i)
      BY <1>0, <1>2, <2>3, <3>1
    <3>3. t[p].part + (q - p) = q - Len(s)
      BY <1>0, <3>2
    <3>4. q - Len(s) # Parts(n, i) + 1
      BY <1>0, <3>2
    <3> QED BY <1>0, <3>2, <3>3, <3>4 DEF Follows
  <2> QED BY <1>0, <1>3, <2>1, <2>2, <2>3
<1> QED BY <1>0, <1>4, <1>5 DEF FramedIn, WholeIn

\* The buffer is the front of the stream.
LEMMA BufferFramed ==
    ASSUME TypeOK, AlignedInv
    PROVE  FramedIn(inbuf, sent)
<1>1. \A p \in 1 .. Len(inbuf) : inbuf[p] = stream[p]
  BY StreamUnits
<1>2. Len(inbuf) \in Nat /\ Len(stream) \in Nat /\ Len(inbuf) <= Len(stream)
  BY StreamUnits
<1> QED BY <1>1, <1>2, PrefixFramed DEF AlignedInv

\* recv() leaves a stream like that, if what it takes is not misread.
LEMMA RecvAligned ==
    ASSUME TypeOK, AlignedInv, NEW n \in Nat, Recv(n), sent' = sent, link' = link,
           ~misread', FirstInv'
    PROVE  AlignedInv'
<1>1. PICK k : k = Least(n, Len(inbuf))
  OBVIOUS
<1>2. /\ k \in 0 .. Len(inbuf) /\ onWay' = onWay
      /\ Len(inbuf') = Len(inbuf) - k /\ \A p \in 1 .. Len(inbuf') : inbuf'[p] = inbuf[p + k]
      /\ Len(stream') = Len(stream) - k /\ \A p \in 1 .. Len(stream') : stream'[p] = stream[p + k]
  BY <1>1, RecvTakes
<1>3. Len(inbuf) \in Nat /\ Len(stream) \in Nat /\ Len(inbuf) <= Len(stream) /\ k \in Nat
  BY <1>2, StreamUnits
<1>4. Len(inbuf') \in Nat /\ Len(stream') \in Nat
  BY <1>2, <1>3
<1>5. FramedIn(stream', sent) /\ (WholeIn(stream, sent) => WholeIn(stream', sent))
  BY <1>2, <1>3, <1>4, SuffixFramed DEF AlignedInv
<1>6. WholeIn(inbuf, sent) => WholeIn(inbuf', sent)
  BY <1>2, <1>3, <1>4, SuffixFramed, BufferFramed
<1>7. FramedIn(stream, sent)' /\ (link' = "up" => WholeIn(stream, sent)')
  BY <1>5 DEF AlignedInv
<1>8. link' = "up" \/ onWay' # << >> => WholeIn(inbuf, sent)'
  BY <1>2, <1>6 DEF AlignedInv
<1> QED BY <1>7, <1>8 DEF AlignedInv

\* When it is asked for all that is left of a message, a header comes next.
LEMMA RestTaken ==
    ASSUME TypeOK, AlignedInv, NEW n \in Nat \ {0}, Recv(n),
           stream # << >> => stream[1].part + n = Parts(sent, stream[1].msg) + 1
    PROVE  stream' # << >> => stream'[1].part = 1
<1> SUFFICES ASSUME stream' # << >> PROVE stream'[1].part = 1
  OBVIOUS
<1>1. PICK k : k = Least(n, Len(inbuf))
  OBVIOUS
<1>2. /\ k \in 0 .. Len(inbuf) /\ onWay' = onWay /\ Len(inbuf') = Len(inbuf) - k
      /\ inbuf' \in Seq(Unit) /\ onWay' \in Seq(Unit)
      /\ Len(stream') = Len(stream) - k /\ \A p \in 1 .. Len(stream') : stream'[p] = stream[p + k]
  BY <1>1, RecvTakes
<1>3. /\ Len(inbuf) \in Nat /\ Len(onWay) \in Nat /\ Len(stream) = Len(inbuf) + Len(onWay)
      /\ inbuf \in Seq(Unit) /\ onWay \in Seq(Unit) /\ stream \in Seq(Unit)
  BY StreamUnits
<1>4. Len(stream') \in Nat /\ Len(stream') >= 1
  <2>1. stream' \in Seq(Unit)
    BY <1>2, StreamUnitsNext
  <2> QED BY <2>1, EmptySeq
<1>5. 1 \in 1 .. Len(stream) /\ stream # << >>
  BY <1>2, <1>3, <1>4
<1>6. /\ Parts(sent, stream[1].msg) \in Nat /\ stream[1].part \in Nat
      /\ stream[1].part + n = Parts(sent, stream[1].msg) + 1
  BY <1>5 DEF AlignedInv, FramedIn
<1>7. k = n
  <2> SUFFICES ASSUME k # n PROVE FALSE
    OBVIOUS
  <2>1. k = Len(inbuf) /\ Len(inbuf) < n
    BY <1>1, <1>3 DEF Least
  <2>2. onWay # << >>
    BY <1>2, <1>3, <1>4, <2>1
  <2>3. inbuf # << >>
    BY <2>2 DEF Recv
  <2>4. 1 \in 1 .. Len(inbuf) /\ inbuf[1] = stream[1]
    <3>1. 1 \in 1 .. Len(inbuf)
      BY <1>3, <2>3
    <3> QED BY <1>5, <3>1, StreamUnits
  <2>5. WholeIn(inbuf, sent)
    BY <2>2 DEF AlignedInv
  <2>6. 1 + (Parts(sent, stream[1].msg) - stream[1].part) <= Len(inbuf)
    BY <2>4, <2>5 DEF WholeIn
  <2> QED BY <1>3, <1>6, <2>1, <2>6
<1>8. /\ 1 + n \in 1 .. Len(stream) /\ 1 < 1 + n /\ (1 + n) - 1 = n
      /\ 1 \in 1 .. Len(stream') /\ stream'[1] = stream[1 + n]
  BY <1>2, <1>3, <1>4, <1>7
<1>9. Follows(sent, stream[1], stream[1 + n], n)
  BY <1>5, <1>8 DEF AlignedInv, FramedIn
<1> QED BY <1>6, <1>8, <1>9 DEF Follows

\* Where a header is due, one is received, and then its data are due, if any.
LEMMA HeaderTaken ==
    ASSUME IInv, AlignedInv, Recv(2), ~RecvIsShort(2), stream # << >> => stream[1].part = 1
    PROVE  /\ IsHeader
           /\ \A h : h = Header =>
               /\ DataLength(sent[h]) = 0 => (stream' # << >> => stream'[1].part = 1)
               /\ DataLength(sent[h]) # 0 =>
                    /\ link = "up" => stream' # << >>
                    /\ stream' # << >> => stream'[1].msg = h /\ stream'[1].part = 3
<1>0. TypeOK
  BY DEF IInv, AllTypeOK
<1>1. /\ Len(inbuf) \in Nat /\ Len(onWay) \in Nat /\ Len(stream) = Len(inbuf) + Len(onWay)
      /\ inbuf \in Seq(Unit)
  BY <1>0, StreamUnits
<1>2. Len(inbuf) >= 2
  BY <1>1 DEF RecvIsShort
<1>3. 1 \in 1 .. Len(stream) /\ 2 \in 1 .. Len(stream)
  BY <1>1, <1>2
<1>4. /\ inbuf[1] = stream[1] /\ inbuf[2] = stream[2]
      /\ stream[1] \in Unit /\ stream[2] \in Unit
  BY <1>0, <1>1, <1>2, <1>3, StreamUnits
<1>5. stream # << >> /\ stream[1].part = 1
  BY <1>3
<1>6. Header = stream[1].msg
  BY <1>1, <1>2, <1>4 DEF Header
<1>7. Parts(sent, stream[1].msg) \in Nat
  BY <1>3 DEF AlignedInv, FramedIn
<1>8. DataLength(sent[Header]) \in Nat
  <2>1. Header \in 1 .. Len(sent)
    BY <1>3, <1>4, <1>6, ServerAssumption DEF IInv, StreamInv, Unit
  <2> QED BY <1>0, <2>1, SentRequest DEF IInv
<1>9. IsHeader
  <2>1. Follows(sent, stream[1], stream[2], 2 - 1)
    BY <1>3 DEF AlignedInv, FramedIn
  <2>2. 1 + (2 - 1) <= Parts(sent, stream[1].msg) /\ 1 + (2 - 1) = 2
    BY <1>6, <1>8 DEF Parts
  <2>3. stream[2].msg = stream[1].msg /\ stream[2].part = 2
    BY <1>5, <2>1, <2>2 DEF Follows
  <2> QED BY <1>4, <1>5, <2>3 DEF IsHeader, Unit
<1>10. ASSUME DataLength(sent[Header]) = 0, stream' # << >> PROVE stream'[1].part = 1
  <2>1. stream[1].part + 2 = Parts(sent, stream[1].msg) + 1
    BY <1>5, <1>6, <1>10 DEF Parts
  <2>2. 2 \in Nat \ {0}
    OBVIOUS
  <2> QED BY <1>0, <1>10, <2>1, <2>2, RestTaken
<1>11. ASSUME DataLength(sent[Header]) # 0
       PROVE  /\ link = "up" => stream' # << >>
              /\ stream' # << >> => stream'[1].msg = Header /\ stream'[1].part = 3
  <2>1. Least(2, Len(inbuf)) = 2
    BY <1>1, <1>2, LeastOf
  <2>2. /\ Len(stream') = Len(stream) - 2 /\ stream' \in Seq(Unit)
        /\ \A p \in 1 .. Len(stream') : stream'[p] = stream[p + 2]
    BY <1>0, <2>1, RecvTakes, StreamUnitsNext
  <2>3. Parts(sent, stream[1].msg) >= 3
    BY <1>6, <1>8, <1>11 DEF Parts
  <2>4. ASSUME link = "up" PROVE stream' # << >>
    <3>1. 1 + (Parts(sent, stream[1].msg) - stream[1].part) <= Len(stream)
      BY <1>3, <2>4 DEF AlignedInv, WholeIn
    <3>2. Len(stream') >= 1
      BY <1>1, <1>5, <1>7, <2>2, <2>3, <3>1
    <3> QED BY <3>2
  <2>5. ASSUME stream' # << >> PROVE stream'[1].msg = Header /\ stream'[1].part = 3
    <3>1. Len(stream') >= 1 /\ Len(stream') \in Nat
      BY <2>2, <2>5, EmptySeq
    <3>2. 1 \in 1 .. Len(stream') /\ 3 \in 1 .. Len(stream) /\ stream'[1] = stream[1 + 2]
      BY <1>1, <2>2, <3>1
    <3>3. Follows(sent, stream[1], stream[3], 3 - 1)
      BY <1>3, <3>2 DEF AlignedInv, FramedIn
    <3>4. 1 + (3 - 1) <= Parts(sent, stream[1].msg) /\ 1 + (3 - 1) = 3
      BY <1>7, <2>3
    <3>5. stream[3].msg = stream[1].msg /\ stream[3].part = 3
      BY <1>5, <3>3, <3>4 DEF Follows
    <3> QED BY <1>6, <3>2, <3>5
  <2> QED BY <2>4, <2>5
<1> QED BY <1>9, <1>10, <1>11

\* A header is received, and the server goes on to its data, if it has any.
LEMMA HeaderAligned ==
    ASSUME IInv, AlignedInv, Recv(2), ~RecvIsShort(2), sent' = sent, link' = link, ~misread',
           stream # << >> => stream[1].part = 1,
           NEW h, h = Header,
           DataLength(sent[h]) = 0 => ~DataDue',
           DataLength(sent[h]) # 0 => DataDue' /\ Due' = h
    PROVE  AlignedInv'
<1>1. /\ DataLength(sent[h]) = 0 => (stream' # << >> => stream'[1].part = 1)
      /\ DataLength(sent[h]) # 0 =>
            /\ link = "up" => stream' # << >>
            /\ stream' # << >> => stream'[1].msg = h /\ stream'[1].part = 3
  BY HeaderTaken
<1>2. FirstInv'
  BY <1>1 DEF FirstInv
<1>3. TypeOK
  BY DEF IInv, AllTypeOK
<1> QED BY <1>2, <1>3, RecvAligned

\* A request the data of which nobody takes has none.
LEMMA NothingLeft ==
    ASSUME IInv, AllTaken, NEW i \in 1 .. Len(sent), sent[i].kind = "submit",
           ~Taken(build, sent[i].req)
    PROVE  DataLength(sent[i]) = 0
<1>1. sent[i].req \in Asks[build] \cup {NoData} /\ build \in DOMAIN Asks
  BY DEF IInv, SentInv, AllTypeOK, TypeOK
<1>2. NoData.in
  BY DEF NoData
<1>3. sent[i].req.in \/ sent[i].req.length = 0
  BY <1>1, <1>2 DEF AllTaken
<1> QED BY <1>3 DEF DataLength

\* The same for both servers: a header that is too short ends the connection or
\* the process, and there is no other that is not one.
LEMMA ShortAligned ==
    ASSUME IInv, AlignedInv, NEW n \in Nat, Recv(n), sent' = sent, link' = link, ~misread',
           pc' = "close" \/ exited'
    PROVE  AlignedInv'
<1>1. FirstInv'
  BY DEF FirstInv
<1>2. TypeOK
  BY DEF IInv, AllTypeOK
<1> QED BY <1>1, <1>2, RecvAligned

LEMMA NoNoHeader ==
    ASSUME IInv, AlignedInv, Recv(2), NoHeader, stream # << >> => stream[1].part = 1
    PROVE  FALSE
BY HeaderTaken DEF NoHeader

\* Before the import.
LEMMA OpAligned ==
    ASSUME IInv, AlignedInv, Recv(2), sent' = sent, link' = link, At("hello"),
           \/ Receives("devlist") /\ pc' \in {"hello", "close"}
           \/ Receives("import") /\ pc' = "busid"
    PROVE  AlignedInv'
<1>1. ~misread /\ (stream # << >> => stream[1].part = 1)
  BY DEF AlignedInv, FirstInv, At, DataDue
<1>2. ~RecvIsShort(2) /\ IsHeader /\ ~misread'
  BY <1>1 DEF Receives
<1>3. PICK h \in 1 .. Len(sent) : h = Header
  BY <1>2, ReceivesHeader
<1>4. CASE Receives("devlist") /\ pc' \in {"hello", "close"}
  <2>1. DataLength(sent[h]) = 0
    BY <1>3, <1>4 DEF Receives, DataLength
  <2>2. ~DataDue'
    BY <1>4 DEF DataDue
  <2> QED BY <1>1, <1>2, <1>3, <2>1, <2>2, HeaderAligned
<1>5. CASE Receives("import") /\ pc' = "busid"
  <2>1. sent[h].kind = "import"
    BY <1>3, <1>5 DEF Receives
  <2>2. DataLength(sent[h]) = 2
    BY <2>1 DEF DataLength
  <2>3. h = 1
    <3>1. Len(sent) \in Nat
      BY LenProperties DEF IInv, AllTypeOK, TypeOK
    <3> QED BY <1>3, <2>1, <3>1 DEF IInv, SentInv
  <2>4. DataDue' /\ Due' = h
    BY <1>5, <2>3 DEF DataDue, Due
  <2> QED BY <1>1, <1>2, <1>3, <2>2, <2>4, HeaderAligned
<1> QED BY <1>4, <1>5

LEMMA RecvOpAligned ==
    ASSUME IInv, AlignedInv, RecvOp
    PROVE  AlignedInv'
<1>1. Recv(2) /\ At("hello") /\ sent' = sent /\ link' = link
  BY DEF RecvOp, ShortHeader, NoHeader, Receives, SendReply, clientVars
<1>2. ~misread /\ (stream # << >> => stream[1].part = 1)
  BY <1>1 DEF AlignedInv, FirstInv, At, DataDue
<1>3. CASE ShortHeader
  BY <1>1, <1>2, <1>3, ShortAligned DEF ShortHeader
<1>4. CASE NoHeader
  BY <1>1, <1>2, <1>4, NoNoHeader
<1>5. CASE Receives("devlist") /\ pc' \in {"hello", "close"}
  BY <1>1, <1>5, OpAligned
<1>6. CASE Receives("import") /\ pc' = "busid"
  BY <1>1, <1>6, OpAligned
<1> QED BY <1>3, <1>4, <1>5, <1>6 DEF RecvOp

LEMMA PyRecvOpAligned ==
    ASSUME IInv, AlignedInv, PyRecvOp
    PROVE  AlignedInv'
<1>1. Recv(2) /\ At("hello") /\ sent' = sent /\ link' = link
  BY DEF PyRecvOp, NoHeader, Receives, SendReply, clientVars
<1>2. ~misread /\ (stream # << >> => stream[1].part = 1)
  BY <1>1 DEF AlignedInv, FirstInv, At, DataDue
<1>3. CASE (pc' = "close" \/ exited') /\ UNCHANGED misread
  BY <1>1, <1>2, <1>3, ShortAligned
<1>4. CASE NoHeader
  BY <1>1, <1>2, <1>4, NoNoHeader
<1>5. CASE Receives("devlist") /\ pc' = pc
  BY <1>1, <1>5, OpAligned DEF At
<1>6. CASE Receives("import") /\ pc' = "busid"
  BY <1>1, <1>6, OpAligned
<1> QED BY <1>3, <1>4, <1>5, <1>6 DEF PyRecvOp, Raise

\* The bus id, of which nothing is left.
LEMMA BusidAligned ==
    ASSUME IInv, AlignedInv, At("busid"), Recv(2), sent' = sent, link' = link,
           ~misread', pc' \in {"urb", "hello", "close"}
    PROVE  AlignedInv'
<1>1. TypeOK
  BY DEF IInv, AllTypeOK
<1>2. sent[1].kind = "import"
  BY DEF IInv, ImportInv, At
<1>3. stream # << >> => stream[1].msg = 1 /\ stream[1].part = 3
  BY DEF AlignedInv, FirstInv, At, DataDue, Due
<1>4. Parts(sent, 1) = 4
  BY <1>2 DEF Parts, DataLength
<1>5. stream # << >> => stream[1].part + 2 = Parts(sent, stream[1].msg) + 1
  BY <1>3, <1>4
<1>6. 2 \in Nat \ {0}
  OBVIOUS
<1>7. stream' # << >> => stream'[1].part = 1
  BY <1>1, <1>5, <1>6, RestTaken
<1>8. ~DataDue'
  BY DEF DataDue
<1>9. FirstInv'
  BY <1>7, <1>8 DEF FirstInv
<1> QED BY <1>1, <1>9, RecvAligned

\* USBIP_CMD_SUBMIT and USBIP_CMD_UNLINK, with data to come and without.
LEMMA CmdAligned ==
    ASSUME IInv, AlignedInv, AllTaken, Recv(2), sent' = sent, link' = link, ~exited,
           pc \in {"urb", "hello"}, NEW kind \in {"submit", "unlink"}, Receives(kind),
           \/ /\ pc' \in {"urb", "hello"}
              /\ kind = "submit" => ~Taken(build, sent[Header].req)
           \/ pc' = "data" /\ request' = Header
    PROVE  AlignedInv'
<1>1. ~misread /\ (stream # << >> => stream[1].part = 1)
  BY DEF AlignedInv, FirstInv, DataDue
<1>2. ~RecvIsShort(2) /\ IsHeader /\ ~misread' /\ sent[Header].kind = kind
  BY <1>1 DEF Receives
<1>3. PICK h \in 1 .. Len(sent) : h = Header
  BY <1>2, ReceivesHeader
<1>4. CASE pc' \in {"urb", "hello"} /\ (kind = "submit" => ~Taken(build, sent[h].req))
  <2>1. DataLength(sent[h]) = 0
    <3>1. CASE kind = "submit"
      BY <1>2, <1>3, <1>4, <3>1, NothingLeft
    <3>2. CASE kind = "unlink"
      BY <1>2, <1>3, <3>2 DEF DataLength
    <3> QED BY <3>1, <3>2
  <2>2. ~DataDue'
    BY <1>4 DEF DataDue
  <2> QED BY <1>1, <1>2, <1>3, <2>1, <2>2, HeaderAligned
<1>5. CASE pc' = "data" /\ request' = h
  <2>1. DataLength(sent[h]) = 0 => ~DataDue'
    BY <1>5 DEF DataDue
  <2>2. DataLength(sent[h]) # 0 => DataDue' /\ Due' = h
    BY <1>5 DEF DataDue, Due
  <2> QED BY <1>1, <1>2, <1>3, <2>1, <2>2, HeaderAligned
<1> QED BY <1>3, <1>4, <1>5

LEMMA RecvCmdAligned ==
    ASSUME IInv, AlignedInv, AllTaken, ~Python, RecvCmd
    PROVE  AlignedInv'
<1>1. Recv(2) /\ At("urb") /\ sent' = sent /\ link' = link
  BY DEF RecvCmd, ShortHeader, NoHeader, Submit, SubmitWithData, Unlink, clientVars
<1>2. ~misread /\ ~exited /\ pc = "urb" /\ (stream # << >> => stream[1].part = 1)
  BY <1>1 DEF AlignedInv, FirstInv, At, DataDue
<1>3. CASE ShortHeader
  BY <1>1, <1>2, <1>3, ShortAligned DEF ShortHeader
<1>4. CASE NoHeader
  BY <1>1, <1>2, <1>4, NoNoHeader
<1>5. CASE Submit
  <2>1. Receives("submit") /\ pc' = "urb" /\ ~Taken(build, sent[Header].req)
    BY <1>5 DEF Submit, Taken, Python
  <2> QED BY <1>1, <1>2, <2>1, CmdAligned
<1>6. CASE SubmitWithData
  <2>1. Receives("submit") /\ pc' = "data" /\ request' = Header
    BY <1>6 DEF SubmitWithData
  <2> QED BY <1>1, <1>2, <2>1, CmdAligned
<1>7. CASE Unlink
  <2>1. Receives("unlink") /\ pc' = "urb"
    BY <1>7 DEF Unlink
  <2> QED BY <1>1, <1>2, <2>1, CmdAligned
<1> QED BY <1>3, <1>4, <1>5, <1>6, <1>7 DEF RecvCmd

LEMMA PyRecvCmdAligned ==
    ASSUME IInv, AlignedInv, AllTaken, Python, PyRecvCmd
    PROVE  AlignedInv'
<1>1. Recv(2) /\ At("hello") /\ sent' = sent /\ link' = link
  BY DEF PyRecvCmd, NoHeader, PyRequest, clientVars
<1>2. ~misread /\ ~exited /\ pc = "hello" /\ (stream # << >> => stream[1].part = 1)
  BY <1>1 DEF AlignedInv, FirstInv, At, DataDue
<1>3. CASE exited' /\ misread' = misread
  BY <1>1, <1>2, <1>3, ShortAligned
<1>4. CASE NoHeader
  BY <1>1, <1>2, <1>4, NoNoHeader
<1>5. CASE PyRequest
  <2>1. PICK kind \in {"submit", "unlink"} : Receives(kind)
    BY <1>5 DEF PyRequest
  <2>2. CASE Taken(build, sent[Header].req)
    BY <1>1, <1>2, <1>5, <2>1, <2>2, CmdAligned DEF PyRequest
  <2>3. CASE ~Taken(build, sent[Header].req)
    <3>1. pc' = "hello" /\ ~Taken(build, sent[Header].req)
      BY <1>2, <1>5, <2>3 DEF PyRequest
    <3> QED BY <1>1, <1>2, <2>1, <3>1, CmdAligned
  <2> QED BY <2>2, <2>3
<1> QED BY <1>3, <1>4, <1>5 DEF PyRecvCmd, Raise

\* The data, of which nothing is left.
LEMMA DataAligned ==
    ASSUME IInv, AlignedInv, At("data"), Recv(DataLength(sent[request])), sent' = sent,
           link' = link, ~misread', pc' \in {"urb", "hello"} \/ exited'
    PROVE  AlignedInv'
<1>1. TypeOK
  BY DEF IInv, AllTypeOK
<1>2. PICK n \in Nat : n = DataLength(sent[request])
  <2>1. PICK h \in 1 .. Len(sent) : h = request
    BY ReceivesData
  <2>2. DataLength(sent[h]) \in Nat
    BY <1>1, SentRequest DEF IInv
  <2> QED BY <2>1, <2>2
<1>3. Recv(n)
  BY <1>2
<1>4. stream' # << >> => stream'[1].part = 1
  <2>1. CASE n = 0
    <3>1. stream # << >> => stream[1].part = 1
      BY <1>2, <2>1 DEF AlignedInv, FirstInv, At, DataDue
    <3>2. Len(inbuf) \in Nat /\ Len(stream) \in Nat /\ stream \in Seq(Unit)
      BY <1>1, StreamUnits
    <3>3. Least(0, Len(inbuf)) = 0
      BY <3>2, LeastOf
    <3>4. /\ stream' \in Seq(Unit) /\ Len(stream') = Len(stream) - 0
          /\ \A p \in 1 .. Len(stream') : stream'[p] = stream[p + 0]
      BY <1>1, <1>3, <2>1, <3>3, RecvTakes, StreamUnitsNext
    <3>5. ASSUME stream' # << >> PROVE stream'[1].part = 1
      <4>1. Len(stream') >= 1
        BY <3>2, <3>4, <3>5, EmptySeq
      <4>2. stream # << >> /\ stream'[1] = stream[1]
        BY <3>2, <3>4, <4>1
      <4> QED BY <3>1, <4>2
    <3> QED BY <3>5
  <2>2. CASE n # 0
    <3>1. stream # << >> => stream[1].msg = request /\ stream[1].part = 3
      BY <1>2, <2>2 DEF AlignedInv, FirstInv, At, DataDue, Due
    <3>2. Parts(sent, request) = 2 + n
      BY <1>2 DEF Parts
    <3>3. stream # << >> => stream[1].part + n = Parts(sent, stream[1].msg) + 1
      BY <3>1, <3>2
    <3>4. n \in Nat \ {0}
      BY <2>2
    <3> QED BY <1>1, <1>3, <3>3, <3>4, RestTaken
  <2> QED BY <2>1, <2>2
<1>5. ~exited' => ~DataDue'
  BY DEF DataDue
<1>6. FirstInv'
  BY <1>4, <1>5 DEF FirstInv
<1> QED BY <1>1, <1>3, <1>6, RecvAligned

LEMMA EmptyFramed ==
    ASSUME NEW s, NEW m, s = << >>
    PROVE  FramedIn(s, m) /\ WholeIn(s, m)
BY DEF FramedIn, WholeIn

LEMMA AcceptAligned ==
    ASSUME AlignedInv, Accept
    PROVE  AlignedInv'
<1>1. /\ pc = "accept" /\ pc' = "hello" /\ ~exited
      /\ UNCHANGED <<exited, inbuf, onWay, sent, link, misread>> /\ stream' = stream
  BY DEF Accept, At, wireVars, clientVars, stream
<1>2. FirstInv'
  BY <1>1 DEF AlignedInv, FirstInv, DataDue
<1> QED BY <1>1, <1>2 DEF AlignedInv

LEMMA CloseLinkAligned ==
    ASSUME AlignedInv, CloseLink
    PROVE  AlignedInv'
<1>1. /\ pc' = "accept" /\ link' = "down" /\ onWay' = << >> /\ inbuf' = << >>
      /\ misread' = misread /\ stream' = << >>
  BY DEF CloseLink, stream
<1>2. FramedIn(stream', sent')
  BY <1>1, EmptyFramed
<1>3. FirstInv'
  BY <1>1 DEF FirstInv, DataDue
<1> QED BY <1>1, <1>2, <1>3 DEF AlignedInv

LEMMA ConnectionResetAligned ==
    ASSUME AlignedInv, ConnectionReset
    PROVE  AlignedInv'
<1>1. exited' /\ UNCHANGED <<inbuf, onWay, sent, link, misread>> /\ stream' = stream
  BY DEF ConnectionReset, Raise, wireVars, clientVars, stream
<1> QED BY <1>1 DEF AlignedInv, FirstInv

\* All that is on the way arrives.
LEMMA DeliverAligned ==
    ASSUME IInv, AlignedInv, ~Pieces, Deliver
    PROVE  AlignedInv'
<1>1. TypeOK
  BY DEF IInv, AllTypeOK
<1>2. UNCHANGED <<pc, request, exited, link, sent, misread>>
  BY DEF Deliver, serverVars, clientVars
<1>3. stream' = stream /\ onWay' = << >> /\ inbuf' \in Seq(Unit)
  BY <1>1, DeliverMoves
<1>4. inbuf' = stream
  BY <1>3, ConcatEmptySeq DEF stream
<1>5. FirstInv'
  BY <1>2, <1>3 DEF AlignedInv, FirstInv, DataDue, Due
<1> QED BY <1>2, <1>3, <1>4, <1>5 DEF AlignedInv

LEMMA LeaveAligned ==
    ASSUME IInv, AlignedInv, Leave
    PROVE  AlignedInv'
<1>1. TypeOK
  BY DEF IInv, AllTypeOK
<1>2. UNCHANGED <<pc, request, exited, inbuf, sent, misread>> /\ link' = "gone"
  BY DEF Leave, serverVars
<1>3. /\ onWay' # << >> => onWay # << >>
      /\ Len(stream') \in Nat /\ Len(stream') <= Len(stream)
      /\ \A p \in 1 .. Len(stream') : p \in 1 .. Len(stream) /\ stream'[p] = stream[p]
  BY <1>1, LeaveCuts
<1>4. Len(stream) \in Nat /\ stream' \in Seq(Unit)
  BY <1>1, <1>2, LeaveCuts, StreamUnits, StreamUnitsNext
<1>5. FramedIn(stream', sent)
  BY <1>3, <1>4, PrefixFramed DEF AlignedInv
<1>6. ASSUME stream' # << >> PROVE stream # << >> /\ stream'[1] = stream[1]
  <2>1. 1 \in 1 .. Len(stream')
    BY <1>3, <1>4, <1>6, EmptySeq
  <2> QED BY <1>3, <2>1
<1>7. FirstInv'
  BY <1>2, <1>6 DEF AlignedInv, FirstInv, DataDue, Due
<1> QED BY <1>2, <1>3, <1>5, <1>7 DEF AlignedInv

\* The first message of a connection.
LEMMA ConnectAligned ==
    ASSUME IInv, AlignedInv, NEW m \in {DevList, Import}, NEW next, Connect(m, next)
    PROVE  AlignedInv'
<1>1. /\ link = "down" /\ sent' = <<m>> /\ onWay' = Units(1, m)
      /\ UNCHANGED <<pc, request, exited, inbuf, misread>>
  BY DEF Connect, ClientRuns, serverVars
<1>2. pc = "accept" /\ sent = << >> /\ inbuf = << >>
  BY <1>1 DEF IInv, SentInv
<1>3. DataLength(m) \in Nat
  BY DEF DevList, Import, Message, DataLength
<1>4. PICK new : new = Units(1, m)
  OBVIOUS
<1>5. /\ new \in Seq(Unit) /\ Len(new) \in Nat /\ Len(new) = 2 + DataLength(m)
      /\ \A k \in 1 .. Len(new) : new[k].msg = 1 /\ new[k].part = k
  <2>1. 1 \in 1 .. MaxSent
    BY ServerAssumption
  <2> QED BY <1>3, <1>4, <2>1, UnitsOf
<1>6. stream' = new /\ inbuf' = << >>
  BY <1>1, <1>2, <1>4, <1>5, ConcatEmptySeq DEF stream
<1>7. FramedIn(new, sent') /\ WholeIn(new, sent')
  <2>1. PICK s, n : s = << >> /\ n = <<m>>
    OBVIOUS
  <2>2. FramedIn(s, s) /\ WholeIn(s, s) /\ Len(s) = 0
    BY <2>1, EmptyFramed
  <2>3. Parts(n, 1) = Len(new)
    BY <1>5, <2>1 DEF Parts
  <2>4. \A p \in Len(s) + 1 .. Len(new) : new[p].msg = 1 /\ new[p].part = p - Len(s)
    BY <1>5, <2>2
  <2>5. Appends(s, s, new, n, 1)
    BY <1>5, <2>2, <2>3, <2>4 DEF Appends
  <2>6. FramedIn(new, n) /\ WholeIn(new, n)
    BY <2>2, <2>5, AppendFramed
  <2> QED BY <1>1, <2>1, <2>6
<1>8. WholeIn(inbuf', sent')
  BY <1>6, EmptyFramed
<1>9. FirstInv'
  <2>1. ~DataDue'
    BY <1>1, <1>2 DEF DataDue
  <2>2. new[1].part = 1
    BY <1>3, <1>5
  <2> QED BY <1>6, <2>1, <2>2 DEF FirstInv
<1> QED BY <1>1, <1>6, <1>7, <1>8, <1>9 DEF AlignedInv

\* And the others, of which the server waits for none in the middle of another.
LEMMA SendsAligned ==
    ASSUME IInv, AlignedInv, NEW kind \in {"submit", "unlink"},
           NEW r \in Asks[build] \cup {NoData}, Sends(Message(kind, r))
    PROVE  AlignedInv'
<1>1. PICK m : m = Message(kind, r) /\ m \in MessageType /\ DataLength(m) \in Nat
  BY MessageSent
<1>2. PICK new : new = Units(Len(sent) + 1, m)
  OBVIOUS
<1>3. Sends(m)
  BY <1>1
<1>4. /\ ~exited /\ link = "up" /\ UNCHANGED <<pc, request, exited, link, inbuf, misread>>
  BY <1>3 DEF Sends, ClientRuns, serverVars, IInv, SentInv
<1>5. Len(new) \in Nat /\ Len(new) = 2 + DataLength(m)
  BY <1>1, <1>2, <1>3, SendsAppends
<1>6. /\ Len(sent') = Len(sent) + 1 /\ sent'[Len(sent) + 1] = m
      /\ \A k \in 1 .. Len(sent) : sent'[k] = sent[k]
  BY <1>1, <1>2, <1>3, SendsAppends
<1>7. Len(stream) \in Nat /\ Len(stream') = Len(stream) + Len(new)
  BY <1>1, <1>2, <1>3, SendsAppends
<1>8. \A p \in 1 .. Len(stream) : stream'[p] = stream[p]
  BY <1>1, <1>2, <1>3, SendsAppends
<1>9. \A p \in Len(stream) + 1 .. Len(stream') :
          stream'[p].msg = Len(sent) + 1 /\ stream'[p].part = p - Len(stream)
  BY <1>1, <1>2, <1>3, SendsAppends
<1>10. TypeOK /\ Len(sent) \in Nat
  BY LenProperties DEF IInv, AllTypeOK, TypeOK
<1>11. \A p \in 1 .. Len(stream) : sent'[stream[p].msg] = sent[stream[p].msg]
  <2>1. \A p \in 1 .. Len(stream) : stream[p].msg \in 1 .. Len(sent)
    BY <1>10, StreamUnits, ServerAssumption DEF IInv, StreamInv, Unit
  <2> QED BY <1>6, <2>1
<1>12. FramedIn(stream', sent') /\ WholeIn(stream', sent')
  <2>1. PICK i : i = Len(sent) + 1
    OBVIOUS
  <2>2. Parts(sent', i) = Len(new)
    BY <1>5, <1>6, <2>1 DEF Parts
  <2>3. PICK n, t : n = sent' /\ t = stream'
    OBVIOUS
  <2>4. FramedIn(stream, sent) /\ WholeIn(stream, sent)
    BY <1>4 DEF AlignedInv
  <2>5. Appends(stream, sent, t, n, i)
    BY <1>5, <1>7, <1>8, <1>9, <1>11, <2>1, <2>2, <2>3 DEF Appends
  <2>6. FramedIn(t, n) /\ WholeIn(t, n)
    BY <2>4, <2>5, AppendFramed
  <2> QED BY <2>3, <2>6
<1>13. WholeIn(inbuf', sent')
  <2>1. \A p \in 1 .. Len(inbuf) : p \in 1 .. Len(stream) /\ inbuf[p] = stream[p]
    BY <1>10, StreamUnits
  <2>2. \A p \in 1 .. Len(inbuf) : Parts(sent', inbuf[p].msg) = Parts(sent, inbuf[p].msg)
    BY <1>11, <2>1 DEF Parts
  <2> QED BY <1>4, <2>2 DEF AlignedInv, WholeIn
<1>14. FirstInv'
  <2>1. DataDue' <=> DataDue
    <3>1. pc = "data" => request \in 1 .. Len(sent)
      BY <1>4 DEF IInv, AnswersInv, Reading
    <3> QED BY <1>4, <1>6, <3>1 DEF DataDue
  <2>2. ASSUME stream # << >> PROVE stream'[1] = stream[1]
    <3>1. stream \in Seq(Unit)
      BY <1>10, StreamUnits
    <3>2. 1 \in 1 .. Len(stream)
      BY <1>7, <2>2, <3>1, EmptySeq
    <3> QED BY <1>8, <3>2
  <2>3. ASSUME stream = << >> PROVE ~DataDue /\ stream'[1].part = 1
    <3>1. ~DataDue
      BY <1>4, <2>3 DEF AlignedInv, FirstInv, DataDue
    <3>2. Len(stream) = 0
      BY <2>3
    <3>3. 1 \in Len(stream) + 1 .. Len(stream')
      BY <1>1, <1>5, <1>7, <3>2
    <3> QED BY <1>9, <3>1, <3>2, <3>3
  <2>4. stream' # << >>
    <3>1. Len(stream') >= 2
      BY <1>1, <1>5, <1>7
    <3> QED BY <3>1
  <2> QED BY <1>4, <2>1, <2>2, <2>3, <2>4 DEF AlignedInv, FirstInv, Due
<1> QED BY <1>4, <1>12, <1>13, <1>14 DEF AlignedInv

LEMMA RunsAligned ==
    ASSUME IInv, AlignedInv, AllTaken, Runs
    PROVE  AlignedInv'
<1>1. CASE Accept
  BY <1>1, AcceptAligned
<1>2. CASE CloseLink
  BY <1>2, CloseLinkAligned
<1>3. CASE RecvOp \/ PyRecvOp
  BY <1>3, RecvOpAligned, PyRecvOpAligned
<1>4. CASE RecvBusid
  BY <1>4, BusidAligned DEF RecvBusid, SendReply, AlignedInv, clientVars
<1>5. CASE PyRecvBusid
  BY <1>5, BusidAligned DEF PyRecvBusid, SendReply, AlignedInv, clientVars
<1>6. CASE ~Python /\ RecvCmd
  BY <1>6, RecvCmdAligned
<1>7. CASE Python /\ PyRecvCmd
  BY <1>7, PyRecvCmdAligned
<1>8. CASE RecvData
  BY <1>8, DataAligned DEF RecvData, AlignedInv
<1>9. CASE PyRecvData
  BY <1>9, DataAligned DEF PyRecvData, AlignedInv
<1> QED BY <1>1, <1>2, <1>3, <1>4, <1>5, <1>6, <1>7, <1>8, <1>9 DEF Runs, Server, PyLoop

LEMMA StepAligned ==
    ASSUME IInv, AlignedInv, ~Pieces, AllTaken, [AllNext]_allVars
    PROVE  AlignedInv'
<1>1. CASE UNCHANGED allVars
  <2>1. UNCHANGED <<pc, request, exited, link, onWay, inbuf, sent, misread>> /\ stream' = stream
    BY <1>1 DEF allVars, vars, serverVars, wireVars, clientVars, stream
  <2>2. FirstInv'
    BY <2>1 DEF AlignedInv, FirstInv, DataDue, Due
  <2> QED BY <2>1, <2>2 DEF AlignedInv
<1>2. CASE Runs
  BY <1>2, RunsAligned
<1>3. CASE ConnectionReset
  BY <1>3, ConnectionResetAligned
<1>4. CASE Delivers
  BY <1>4, DeliverAligned DEF Delivers
<1>5. CASE Client
  <2>1. CASE List \/ Attach
    BY <2>1, ConnectAligned DEF List, Attach
  <2>2. CASE Ask \/ GiveUp
    BY <2>2, SendsAligned DEF Ask, GiveUp
  <2>3. CASE Leave
    BY <2>3, LeaveAligned
  <2> QED BY <1>5, <2>1, <2>2, <2>3 DEF Client
<1> QED BY <1>1, <1>2, <1>3, <1>4, <1>5 DEF AllNext

LEMMA AlignedInitially == AllInit => AlignedInv
<1>1. AllInit => /\ ~misread /\ inbuf = << >> /\ onWay = << >> /\ link = "down"
                 /\ pc = "accept" /\ stream = << >>
  BY DEF AllInit, Init, stream
<1>2. AllInit => FramedIn(stream, sent)
  BY <1>1, EmptyFramed
<1> QED BY <1>1, <1>2 DEF AlignedInv, FirstInv, DataDue

\* If messages arrive whole, and some handler takes the data of each request that
\* has data, usbip_run and run never take anything but a header for one, although
\* recv() is called once, whatever the client gives up and when it leaves.
THEOREM WholeMessagesAlign ==
    ASSUME ~Pieces, AllTaken
    PROVE  AllSpec => []Aligned
<1>1. AllInit => AlignedInv
  BY AlignedInitially
<1>2. IInv /\ AlignedInv /\ [AllNext]_allVars => AlignedInv'
  BY StepAligned
<1>3. AlignedInv => Aligned
  BY DEF AlignedInv, Aligned
<1> QED BY Invariant, <1>1, <1>2, <1>3, PTL DEF AllSpec

-----------------------------------------------------------------------------
(* And then the server serves its client to the end.                       *)

\* Only a client that has gone has its connection closed or ends the process.
ServesInv ==
    /\ pc = "close" \/ exited => link = "gone"
    /\ phase # "refused"

\* recv() gets all of a message that a client has sent who is still there.
LEMMA NotShort ==
    ASSUME IInv, AlignedInv, NEW n \in Nat, Recv(n), link = "up",
           stream # << >> => n <= 1 + (Parts(sent, stream[1].msg) - stream[1].part)
    PROVE  ~RecvIsShort(n)
<1>1. TypeOK
  BY DEF IInv, AllTypeOK
<1>2. Len(inbuf) \in Nat /\ Len(stream) \in Nat /\ Len(inbuf) <= Len(stream) /\ inbuf \in Seq(Unit)
  BY <1>1, StreamUnits
<1>3. inbuf # << >>
  BY DEF Recv
<1>4. 1 \in 1 .. Len(inbuf) /\ 1 \in 1 .. Len(stream) /\ stream # << >>
  BY <1>2, <1>3, EmptySeq
<1>5. inbuf[1] = stream[1]
  BY <1>1, <1>4, StreamUnits
<1>6. 1 + (Parts(sent, stream[1].msg) - stream[1].part) <= Len(inbuf)
  BY <1>4, <1>5 DEF AlignedInv, WholeIn
<1>7. Parts(sent, stream[1].msg) \in Nat /\ stream[1].part \in Nat
  BY <1>4 DEF AlignedInv, FramedIn
<1> QED BY <1>2, <1>4, <1>6, <1>7 DEF RecvIsShort

LEMMA HeaderNotShort ==
    ASSUME IInv, AlignedInv, Recv(2), link = "up", ~exited, pc \in {"hello", "urb"}
    PROVE  ~RecvIsShort(2)
<1>1. TypeOK /\ StreamInv
  BY DEF IInv, AllTypeOK
<1>2. stream # << >> => stream[1].part = 1
  BY DEF AlignedInv, FirstInv, DataDue
<1>3. ASSUME stream # << >> PROVE 2 <= 1 + (Parts(sent, stream[1].msg) - stream[1].part)
  <2>1. stream \in Seq(Unit) /\ Len(stream) \in Nat
    BY <1>1, StreamUnits
  <2>2. 1 \in 1 .. Len(stream)
    BY <1>3, <2>1, EmptySeq
  <2>3. stream[1].msg \in 1 .. Len(sent)
    BY <1>1, <2>2, StreamUnits, ServerAssumption DEF StreamInv, Unit
  <2>4. DataLength(sent[stream[1].msg]) \in Nat
    BY <1>1, <2>3, SentRequest DEF IInv
  <2> QED BY <1>2, <1>3, <2>4 DEF Parts
<1> QED BY <1>3, NotShort

LEMMA BusidNotShort ==
    ASSUME IInv, AlignedInv, Recv(2), link = "up", At("busid")
    PROVE  ~RecvIsShort(2)
<1>1. sent[1].kind = "import"
  BY DEF IInv, ImportInv, At
<1>2. stream # << >> => stream[1].msg = 1 /\ stream[1].part = 3
  BY DEF AlignedInv, FirstInv, At, DataDue, Due
<1>3. Parts(sent, 1) = 4
  BY <1>1 DEF Parts, DataLength
<1>4. stream # << >> => 2 <= 1 + (Parts(sent, stream[1].msg) - stream[1].part)
  BY <1>2, <1>3
<1> QED BY <1>4, NotShort

LEMMA DataNotShort ==
    ASSUME IInv, AlignedInv, NEW n, n = DataLength(sent[request]), Recv(n), link = "up",
           At("data")
    PROVE  n \in Nat /\ Least(n, Len(inbuf)) = n
<1>1. TypeOK
  BY DEF IInv, AllTypeOK
<1>2. n \in Nat
  <2>1. PICK h \in 1 .. Len(sent) : h = request
    BY ReceivesData
  <2> QED BY <1>1, <2>1, SentRequest DEF IInv
<1>3. Len(inbuf) \in Nat
  BY <1>1, StreamUnits
<1>4. CASE n = 0
  BY <1>3, <1>4, LeastOf
<1>5. CASE n # 0
  <2>1. stream # << >> => stream[1].msg = request /\ stream[1].part = 3
    BY <1>5 DEF AlignedInv, FirstInv, At, DataDue, Due
  <2>2. Parts(sent, request) = 2 + n
    BY DEF Parts
  <2>3. stream # << >> => n <= 1 + (Parts(sent, stream[1].msg) - stream[1].part)
    BY <1>2, <2>1, <2>2
  <2>4. ~RecvIsShort(n)
    BY <1>2, <2>3, NotShort
  <2> QED BY <1>2, <1>3, <2>4, LeastOf DEF RecvIsShort
<1> QED BY <1>2, <1>4, <1>5

\* The server's steps, while its client is there.
LEMMA RunsServes ==
    ASSUME IInv, AlignedInv, ServesInv, Runs, link = "up"
    PROVE  ServesInv'
<1>1. ~exited /\ pc # "close"
  BY DEF ServesInv
<1>2. SUFFICES link' = "up" /\ pc' # "close" /\ ~exited' /\ phase' # "refused"
  BY DEF ServesInv
<1>3. phase # "refused"
  BY DEF ServesInv
<1>4. CASE Accept
  BY <1>1, <1>3, <1>4 DEF Accept, clientVars
<1>5. CASE CloseLink
  BY <1>1, <1>5 DEF CloseLink, At
<1>6. CASE RecvOp
  <2>1. ~RecvIsShort(2)
    BY <1>1, <1>6, HeaderNotShort DEF RecvOp, At
  <2> QED BY <1>1, <1>3, <1>6, <2>1 DEF RecvOp, ShortHeader, NoHeader, SendReply, At, clientVars
<1>7. CASE PyRecvOp
  <2>1. ~RecvIsShort(2) /\ inbuf # << >>
    BY <1>1, <1>7, HeaderNotShort DEF PyRecvOp, At, Recv
  <2> QED BY <1>1, <1>3, <1>7, <2>1 DEF PyRecvOp, NoHeader, SendReply, At, clientVars
<1>8. CASE RecvBusid
  <2>1. ~RecvIsShort(2)
    BY <1>8, BusidNotShort DEF RecvBusid
  <2> QED BY <1>1, <1>3, <1>8, <2>1 DEF RecvBusid, SendReply
<1>9. CASE PyRecvBusid
  BY <1>1, <1>3, <1>9 DEF PyRecvBusid, SendReply
<1>10. CASE RecvCmd
  <2>1. ~RecvIsShort(2)
    BY <1>1, <1>10, HeaderNotShort DEF RecvCmd, At
  <2> QED BY <1>1, <1>3, <1>10, <2>1 DEF RecvCmd, ShortHeader, NoHeader, Submit, SubmitWithData,
          Unlink, SendAnswers, At, clientVars
<1>11. CASE PyRecvCmd
  <2>1. ~RecvIsShort(2)
    BY <1>1, <1>11, HeaderNotShort DEF PyRecvCmd, At
  <2> QED BY <1>1, <1>3, <1>11, <2>1 DEF PyRecvCmd, NoHeader, PyRequest, Handle, SendAnswers, At,
          clientVars
<1>12. CASE RecvData
  <2>1. PICK n : n = DataLength(sent[request])
    OBVIOUS
  <2>2. n \in Nat /\ Least(n, Len(inbuf)) = n
    BY <1>12, <2>1, DataNotShort DEF RecvData
  <2>3. ~(Least(n, Len(inbuf)) < n)
    BY <2>2
  <2> QED BY <1>1, <1>3, <1>12, <2>1, <2>3 DEF RecvData, SendAnswers
<1>13. CASE PyRecvData
  BY <1>1, <1>3, <1>13 DEF PyRecvData, Handle, SendAnswers
<1> QED BY <1>4, <1>5, <1>6, <1>7, <1>8, <1>9, <1>10, <1>11, <1>12, <1>13 DEF Runs, Server, PyLoop

\* And when it has gone.
LEMMA RunsAlone ==
    ASSUME IInv, ServesInv, Runs, link # "up"
    PROVE  ServesInv'
<1>1. phase # "refused" /\ link \in {"gone", "down"}
  BY DEF ServesInv, IInv, AllTypeOK, TypeOK
<1>2. CASE CloseLink
  <2>1. link = "gone" /\ ~exited /\ exited' = exited /\ pc' = "accept"
    BY <1>2 DEF CloseLink, At, ServesInv
  <2>2. phase' = "away"
    BY <1>2, <2>1 DEF CloseLink
  <2> QED BY <2>1, <2>2 DEF ServesInv
<1>3. CASE ~CloseLink
  <2>1. link = "gone"
    <3>1. link = "down" => pc = "accept"
      BY DEF IInv, SentInv
    <3>2. pc # "accept" \/ link # "down"
      BY <1>3 DEF Runs, Server, PyLoop, Accept, RecvOp, RecvBusid, RecvCmd, RecvData, PyRecvOp,
         PyRecvBusid, PyRecvCmd, PyRecvData, At
    <3> QED BY <1>1, <3>1, <3>2
  <2>2. link' = link
    BY <1>3 DEF Runs, Server, PyLoop, Accept, RecvOp, RecvBusid, RecvCmd, RecvData, PyRecvOp,
       PyRecvBusid, PyRecvCmd, PyRecvData
  <2>3. phase' = phase
    <3>1. CASE Accept \/ RecvOp \/ PyRecvOp
      BY <2>1, <3>1 DEF Accept, RecvOp, PyRecvOp, ShortHeader, NoHeader, SendReply, clientVars
    <3>2. CASE RecvBusid \/ PyRecvBusid
      BY <2>1, <3>2 DEF RecvBusid, PyRecvBusid, SendReply, clientVars
    <3>3. CASE RecvCmd \/ PyRecvCmd
      BY <3>3 DEF RecvCmd, PyRecvCmd, ShortHeader, NoHeader, Submit, SubmitWithData, Unlink,
         PyRequest, clientVars
    <3>4. CASE RecvData \/ PyRecvData
      BY <3>4 DEF RecvData, PyRecvData
    <3> QED BY <1>3, <3>1, <3>2, <3>3, <3>4 DEF Runs, Server, PyLoop
  <2> QED BY <1>1, <2>1, <2>2, <2>3 DEF ServesInv
<1> QED BY <1>2, <1>3

LEMMA StepServes ==
    ASSUME IInv, AlignedInv, ServesInv, [AllNext]_allVars
    PROVE  ServesInv'
<1>1. CASE UNCHANGED allVars
  BY <1>1 DEF allVars, vars, serverVars, clientVars, ServesInv
<1>2. CASE Runs
  BY <1>2, RunsServes, RunsAlone
<1>3. CASE ConnectionReset
  BY <1>3 DEF ConnectionReset, clientVars, ServesInv
<1>4. CASE Delivers
  BY <1>4 DEF Delivers, Deliver, serverVars, clientVars, ServesInv
<1>5. CASE Client
  <2>1. CASE List \/ Attach
    BY <2>1 DEF List, Attach, Connect, ClientRuns, serverVars, IInv, SentInv, ServesInv
  <2>2. CASE Ask \/ GiveUp
    BY <2>2 DEF Ask, GiveUp, Sends, serverVars, ServesInv
  <2>3. CASE Leave
    BY <2>3 DEF Leave, ClientRuns, serverVars, ServesInv
  <2> QED BY <1>5, <2>1, <2>2, <2>3 DEF Client
<1> QED BY <1>1, <1>2, <1>3, <1>4, <1>5 DEF AllNext

LEMMA Serves ==
    ASSUME ~Pieces, AllTaken
    PROVE  AllSpec => []ServesInv
<1>1. AllInit => AlignedInv /\ ServesInv
  <2>1. AllInit => AlignedInv
    BY AlignedInitially
  <2>2. AllInit => ServesInv
    BY DEF AllInit, Init, ServesInv
  <2> QED BY <2>1, <2>2
<1>2. IInv /\ AlignedInv /\ ServesInv /\ [AllNext]_allVars => (AlignedInv /\ ServesInv)'
  BY StepAligned, StepServes
<1> QED BY Invariant, <1>1, <1>2, PTL DEF AllSpec

\* Under the same conditions usbip_run hangs up on no client that is still there.
THEOREM WholeMessagesServed ==
    ASSUME ~Pieces, AllTaken
    PROVE  AllSpec => []NeverRefused
<1>1. ServesInv => NeverRefused
  BY DEF ServesInv, NeverRefused
<1> QED BY Serves, <1>1, PTL

\* And nothing that a client asks for, in any order, ends the process, neither the
\* exits of handle_usb_control and send_usb_req nor an exception of struct.
THEOREM ProcessStaysUp ==
    ASSUME ~Pieces, AllTaken
    PROVE  AllSpec => []StaysUp
<1>1. ServesInv => StaysUp
  BY DEF ServesInv, StaysUp
<1> QED BY Serves, <1>1, PTL

-----------------------------------------------------------------------------
(* What is written to the serial device comes back once.                   *)

Echo(k) == /\ sent[answers[k].to].req.ep = 2
           /\ sent[answers[k].to].req.in
           /\ answers[k].size > 0

Written(i) == sent[i].kind = "submit" /\ sent[i].req.ep = 2 /\ ~sent[i].req.in

\* Message i has been read, and dealt with.
Behind(i) == Before(i) /\ (Reading => i < request)

\* While there are bytes in the buffer, something has been written since the last
\* answer that had any.
EchoInv ==
    build = "acm" =>
        /\ Reading => sent[request].kind = "submit"
        /\ \A j, k \in 1 .. Len(answers) : j < k /\ Echo(j) /\ Echo(k) =>
              \E i \in 1 .. Len(sent) :
                  answers[j].to <= i /\ i <= answers[k].to /\ Written(i)
        /\ bsize > 0 =>
              \A j \in 1 .. Len(answers) : Echo(j) =>
                  \E i \in 1 .. Len(sent) : answers[j].to <= i /\ Written(i) /\ Behind(i)

\* An answer more, or not.
LEMMA AnsweredOne ==
    ASSUME answers \in Seq(Answer), NEW h \in 1 .. MaxSent, NEW as \in AnswerBodies,
           SendAnswers(h, as)
    PROVE  \A k \in 1 .. Len(answers') :
              \/ k \in 1 .. Len(answers) /\ answers'[k] = answers[k]
              \/ /\ k = Len(answers) + 1 /\ answers'[k].to = h
                 /\ \E a : as = <<a>> /\ answers'[k].size = a.size
<1>1. Len(answers) \in Nat
  BY LenProperties
<1>2. CASE answers' = answers
  BY <1>2
<1>3. CASE answers' = answers \o AnswersFor(h, as)
  <2>1. as = << >> \/ \E a \in [size: Nat, status: {0, 1}] : as = <<a>>
    BY DEF AnswerBodies, Silence
  <2>2. CASE as = << >>
    <3>1. AnswersFor(h, as) = << >>
      BY <2>2 DEF AnswersFor
    <3> QED BY <1>2, <1>3, <3>1, ConcatEmptySeq
  <2>3. CASE \E a \in [size: Nat, status: {0, 1}] : as = <<a>>
    <3>1. PICK a \in [size: Nat, status: {0, 1}] : as = <<a>>
      BY <2>3
    <3>2. PICK e : e = [to |-> h, size |-> a.size, status |-> a.status]
      OBVIOUS
    <3>3. AnswersFor(h, as) = <<e>>
      BY <3>1, <3>2 DEF AnswersFor
    <3>4. <<e>> \in Seq(Answer) /\ Len(<<e>>) = 1 /\ <<e>>[1] = e
      BY <3>2 DEF Answer
    <3>5. /\ Len(answers') = Len(answers) + 1
          /\ \A k \in 1 .. Len(answers) + 1 :
                answers'[k] = IF k <= Len(answers) THEN answers[k] ELSE <<e>>[k - Len(answers)]
      BY <1>3, <3>3, <3>4, ConcatProperties
    <3>6. answers'[Len(answers) + 1] = e
      BY <1>1, <3>4, <3>5
    <3>7. \A k \in 1 .. Len(answers') : k \in 1 .. Len(answers) \/ k = Len(answers) + 1
      BY <1>1, <3>5
    <3>8. \A k \in 1 .. Len(answers) : answers'[k] = answers[k]
      BY <1>1, <3>5
    <3>9. e.to = h /\ e.size = a.size
      BY <3>2
    <3> QED BY <3>1, <3>6, <3>7, <3>8, <3>9
  <2> QED BY <2>1, <2>2, <2>3
<1> QED BY <1>2, <1>3 DEF SendAnswers

\* Nothing is answered, and nothing is written or sent back.
LEMMA EchoKept ==
    ASSUME EchoInv, UNCHANGED <<build, bsize, sent, answers>>,
           build = "acm" /\ Reading' => sent[request'].kind = "submit",
           \A i \in 1 .. Len(sent) : Behind(i) => Behind(i)'
    PROVE  EchoInv'
<1>1. \A k : k \in 1 .. Len(answers) => (Echo(k)' <=> Echo(k))
  BY DEF Echo
<1>2. \A i : i \in 1 .. Len(sent) => (Written(i)' <=> Written(i))
  BY DEF Written
<1> QED BY <1>1, <1>2 DEF EchoInv

LEMMA NoEcho ==
    ASSUME Len(answers') = 0, build' = "acm" /\ Reading' => sent'[request'].kind = "submit"
    PROVE  EchoInv'
BY DEF EchoInv

\* The serial device answers with data if there are bytes in the buffer, and then
\* there are none.
LEMMA AcmStep ==
    ASSUME IInv, build = "acm", NEW h \in 1 .. Len(sent), NEW got \in Nat,
           DeviceStep(sent[h].req, got)
    PROVE  /\ AnswersTo(sent[h].req, got) \in AnswerBodies
           /\ \A a : /\ AnswersTo(sent[h].req, got) = <<a>> /\ a.size > 0
                     /\ sent[h].req.ep = 2 /\ sent[h].req.in
                     => bsize > 0
           /\ sent[h].req.ep = 2 /\ sent[h].req.in => bsize' = 0
           /\ ~(sent[h].req.ep = 2 /\ ~sent[h].req.in) => bsize' \in {0, bsize}
<1>1. TypeOK /\ SentInv /\ bsize \in Nat
  BY DEF IInv, AllTypeOK, TypeOK
<1>2. PICK r : r = sent[h].req
  OBVIOUS
<1>3. r \in Request /\ (r.ep = 1 => r.in) /\ AnswersTo(r, got) \in AnswerBodies
  <2>1. ~Python
    BY DEF Python, PyBuilds
  <2> QED BY <1>1, <1>2, <2>1, SentRequest, AnswersOne
<1>4. bsize' = CASE r.ep \in {1, 2} /\ ~r.in -> got
                 [] r.ep = 2 /\ r.in         -> 0
                 [] OTHER                    -> bsize
  BY <1>2 DEF DeviceStep
<1>5. r.ep = 2 /\ r.in => bsize' = 0
  BY <1>4
<1>6. ~(r.ep = 2 /\ ~r.in) => bsize' \in {0, bsize}
  <2>1. r.ep = 2 \/ r.ep # 2
    OBVIOUS
  <2>2. r.in \in BOOLEAN
    BY <1>3 DEF Request
  <2> QED BY <1>3, <1>4, <2>2
<1>7. ASSUME NEW a, AnswersTo(r, got) = <<a>>, a.size > 0, r.ep = 2, r.in
      PROVE  bsize > 0
  <2>1. AnswersTo(r, got) = AcmData(r, bsize)
    BY <1>7 DEF AnswersTo, DataAnswers
  <2>2. CASE bsize = 0
    <3>1. AcmData(r, bsize) = Done
      BY <1>7, <2>2 DEF AcmData
    <3>2. <<a>>[1] = a /\ Done[1] = [size |-> 0, status |-> 0]
      BY DEF Done
    <3>3. <<a>> = Done
      BY <1>7, <2>1, <3>1
    <3>4. a = [size |-> 0, status |-> 0]
      BY <3>2, <3>3
    <3>5. a.size = 0
      BY <3>4
    <3> QED BY <1>7, <3>5
  <2> QED BY <1>1, <2>2
<1> QED BY <1>2, <1>3, <1>5, <1>6, <1>7

\* A request is answered.  What was in the buffer had been written before it.
LEMMA EchoAnswered ==
    ASSUME IInv, EchoInv, build = "acm", UNCHANGED <<build, sent>>, ~Reading',
           NEW h \in 1 .. Len(sent), h \in 1 .. MaxSent, sent[h].kind = "submit",
           NEW got \in Nat, SendAnswers(h, AnswersTo(sent[h].req, got)),
           DeviceStep(sent[h].req, got),
           \A i : Before(i) => Before(i)', Before(h)',
           \A k \in 1 .. Len(answers) : answers[k].to < h,
           \A i \in 1 .. Len(sent) : Behind(i) => i <= h
    PROVE  EchoInv'
<1> DEFINE r == sent[h].req
<1>1. /\ AnswersTo(r, got) \in AnswerBodies
      /\ \A a : AnswersTo(r, got) = <<a>> /\ a.size > 0 /\ r.ep = 2 /\ r.in => bsize > 0
      /\ r.ep = 2 /\ r.in => bsize' = 0
      /\ ~(r.ep = 2 /\ ~r.in) => bsize' \in {0, bsize}
  BY AcmStep
<1>2. answers \in Seq(Answer) /\ Len(answers) \in Nat
  BY Types, LenProperties
<1>3. \A k \in 1 .. Len(answers') :
          \/ k \in 1 .. Len(answers) /\ answers'[k] = answers[k]
          \/ /\ k = Len(answers) + 1 /\ answers'[k].to = h
             /\ \E a : AnswersTo(r, got) = <<a>> /\ answers'[k].size = a.size
  BY <1>1, <1>2, AnsweredOne
<1>4. ASSUME NEW k \in 1 .. Len(answers')
      PROVE  \/ k \in 1 .. Len(answers) /\ answers'[k] = answers[k] /\ (Echo(k)' <=> Echo(k))
             \/ /\ k = Len(answers) + 1 /\ answers'[k].to = h
                /\ Echo(k)' => r.ep = 2 /\ r.in /\ bsize > 0
  <2>1. CASE k \in 1 .. Len(answers) /\ answers'[k] = answers[k]
    BY <2>1 DEF Echo
  <2>2. CASE /\ k = Len(answers) + 1 /\ answers'[k].to = h
             /\ \E a : AnswersTo(r, got) = <<a>> /\ answers'[k].size = a.size
    BY <1>1, <2>2 DEF Echo
  <2> QED BY <1>3, <2>1, <2>2
<1>5. \A k \in 1 .. Len(answers) : answers[k].to \in Nat /\ answers[k].to < h
  <2>1. \A k \in 1 .. Len(answers) : answers[k] \in Answer
    BY <1>2, ElementOfSeq
  <2> QED BY <2>1, ServerAssumption DEF Answer
<1>6. \A i \in 1 .. Len(sent) : Written(i)' <=> Written(i)
  BY DEF Written
<1>7. \A i \in 1 .. Len(sent) : Behind(i) => Behind(i)'
  BY DEF Behind
<1> HIDE DEF r
<1>8. ASSUME NEW j \in 1 .. Len(answers'), NEW k \in 1 .. Len(answers'),
             j < k, Echo(j)', Echo(k)'
      PROVE  \E i \in 1 .. Len(sent) :
                answers'[j].to <= i /\ i <= answers'[k].to /\ Written(i)
  <2>1. j \in 1 .. Len(answers) /\ answers'[j] = answers[j] /\ Echo(j)
    BY <1>2, <1>3, <1>4, <1>8
  <2>2. CASE k \in 1 .. Len(answers) /\ answers'[k] = answers[k] /\ Echo(k)
    BY <1>8, <2>1, <2>2 DEF EchoInv
  <2>3. CASE answers'[k].to = h /\ bsize > 0
    BY <2>1, <2>3 DEF EchoInv
  <2> QED BY <1>4, <1>8, <2>2, <2>3
<1>9. ASSUME bsize' > 0, NEW j \in 1 .. Len(answers'), Echo(j)'
      PROVE  \E i \in 1 .. Len(sent) : answers'[j].to <= i /\ Written(i) /\ Behind(i)'
  <2>1. CASE r.ep = 2 /\ ~r.in
    <3>1. Written(h) /\ Behind(h)'
      BY <2>1 DEF Written, Behind, r
    <3>2. answers'[j].to <= h
      BY <1>3, <1>5
    <3> QED BY <3>1, <3>2
  <2>2. CASE ~(r.ep = 2 /\ ~r.in)
    <3>1. bsize > 0 /\ ~(r.ep = 2 /\ r.in)
      BY <1>1, <1>9, <2>2
    <3>2. j \in 1 .. Len(answers) /\ answers'[j] = answers[j] /\ Echo(j)
      BY <1>4, <1>9, <3>1
    <3> QED BY <1>7, <3>1, <3>2 DEF EchoInv
  <2> QED BY <2>1, <2>2
<1> QED BY <1>6, <1>8, <1>9 DEF EchoInv

\* A message whose header is still to come is not behind.
LEMMA HeaderBehind ==
    ASSUME IInv, ~RecvIsShort(2), IsHeader, NEW i, Before(i)
    PROVE  i < Header
<1>0. Len(inbuf) \in Nat /\ Len(onWay) \in Nat /\ Len(stream) = Len(inbuf) + Len(onWay)
  BY StreamUnits DEF IInv, AllTypeOK
<1>1. Len(inbuf) >= 2 /\ 1 \in 1 .. Len(stream)
  BY <1>0 DEF RecvIsShort
<1>2. stream[1] = inbuf[1] /\ Head(inbuf) = inbuf[1]
  BY <1>0, <1>1, StreamUnits DEF IInv, AllTypeOK
<1> QED BY <1>1, <1>2 DEF Before, Header, IsHeader

\* Before the import, and at accept().
LEMMA HelloEcho ==
    ASSUME IInv, EchoInv, ~Python, Accept \/ RecvOp \/ RecvBusid
    PROVE  EchoInv'
<1>1. UNCHANGED <<build, bsize, sent, answers>> /\ pc # "data" /\ pc' # "data"
  BY DEF Accept, RecvOp, RecvBusid, ShortHeader, NoHeader, Receives, SendReply, deviceVars,
     clientVars, At
<1>2. \A i : Before(i) => Before(i)'
  <2>1. CASE Accept
    BY <2>1 DEF Accept, wireVars, Before, stream
  <2>2. CASE RecvOp \/ RecvBusid
    <3>1. Recv(2)
      BY <2>2 DEF RecvOp, RecvBusid
    <3> QED BY <1>1, <3>1, ReceivesHeader
  <2> QED BY <2>1, <2>2
<1>3. \A i \in 1 .. Len(sent) : Behind(i) => Behind(i)'
  BY <1>1, <1>2 DEF Behind, Reading
<1> QED BY <1>1, <1>3, EchoKept DEF Reading

\* A request: its answer may be the buffer.
LEMMA RecvCmdEcho ==
    ASSUME IInv, EchoInv, build = "acm", RecvCmd
    PROVE  EchoInv'
<1>1. Recv(2) /\ At("urb") /\ UNCHANGED <<build, sent>>
  BY DEF RecvCmd, ShortHeader, NoHeader, Submit, SubmitWithData, Unlink, clientVars
<1>2. ~Reading /\ \A i : Before(i) => Before(i)'
  BY <1>1, ReceivesHeader DEF Reading, At
<1>3. CASE ShortHeader \/ NoHeader
  <2>1. UNCHANGED <<bsize, answers>> /\ pc' # "data"
    BY <1>1, <1>3 DEF ShortHeader, NoHeader, deviceVars, clientVars, At
  <2>2. \A i \in 1 .. Len(sent) : Behind(i) => Behind(i)'
    BY <1>2, <2>1 DEF Behind, Reading
  <2> QED BY <1>1, <2>1, <2>2, EchoKept DEF Reading
<1>4. CASE Submit
  <2>1. ~RecvIsShort(2) /\ IsHeader /\ pc' = "urb" /\ sent[Header].kind = "submit"
    BY <1>4 DEF Submit, Receives
  <2>2. PICK h \in 1 .. Len(sent) :
            /\ h = Header /\ h \in 1 .. MaxSent /\ Before(h)'
            /\ \A k \in 1 .. Len(answers) : answers[k].to < h
    BY <1>1, <2>1, ReceivesHeader
  <2>3. SendAnswers(h, AnswersTo(sent[h].req, 0)) /\ DeviceStep(sent[h].req, 0)
    BY <1>4, <2>2 DEF Submit
  <2>4. \A i \in 1 .. Len(sent) : Behind(i) => i <= h
    BY <2>1, <2>2, HeaderBehind DEF Behind
  <2>5. ~Reading' /\ sent[h].kind = "submit" /\ 0 \in Nat
    BY <2>1, <2>2 DEF Reading
  <2> QED BY <1>1, <1>2, <2>2, <2>3, <2>4, <2>5, EchoAnswered
<1>5. CASE SubmitWithData
  <2>1. /\ ~RecvIsShort(2) /\ IsHeader /\ request' = Header
        /\ sent[request'].kind = "submit" /\ UNCHANGED <<bsize, answers>>
    BY <1>5 DEF SubmitWithData, Receives, deviceVars, clientVars
  <2>2. \A i \in 1 .. Len(sent) : Behind(i) => Behind(i)'
    BY <1>2, <2>1, HeaderBehind DEF Behind
  <2> QED BY <1>1, <2>1, <2>2, EchoKept
<1>6. CASE Unlink
  <2>1. pc' = "urb" /\ UNCHANGED bsize /\ SendAnswers(Header, Silence)
    BY <1>6 DEF Unlink, deviceVars
  <2>2. UNCHANGED answers
    <3>1. answers \in Seq(Answer)
      BY Types
    <3>2. answers \o << >> = answers
      BY <3>1, ConcatEmptySeq
    <3>3. AnswersFor(Header, Silence) = << >>
      BY DEF AnswersFor, Silence
    <3> QED BY <2>1, <3>2, <3>3 DEF SendAnswers
  <2>3. \A i \in 1 .. Len(sent) : Behind(i) => Behind(i)'
    BY <1>2, <2>1 DEF Behind, Reading
  <2> QED BY <1>1, <2>1, <2>2, <2>3, EchoKept DEF Reading
<1> QED BY <1>3, <1>4, <1>5, <1>6 DEF RecvCmd

\* Its data, which go to the buffer.
LEMMA RecvDataEcho ==
    ASSUME IInv, EchoInv, build = "acm", RecvData
    PROVE  EchoInv'
<1> DEFINE len == DataLength(sent[request])
           got == Least(len, Len(inbuf))
           r   == sent[request].req
<1>1. /\ Recv(len) /\ At("data") /\ UNCHANGED <<build, sent>> /\ request' = 0
      /\ \/ UNCHANGED <<deviceVars, answers>> /\ (exited' \/ pc' = "urb")
         \/ /\ pc' = "urb" /\ DeviceStep(r, got)
            /\ SendAnswers(request, AnswersTo(r, got))
  BY DEF RecvData
<1>2. PICK h \in 1 .. Len(sent) :
            /\ h = request /\ h \in 1 .. MaxSent /\ Before(h)
            /\ \A k \in 1 .. Len(answers) : answers[k].to < h
  BY <1>1, ReceivesData
<1>3. len \in Nat /\ got \in Nat
  <2>1. len \in Nat
    BY <1>2, SentRequest DEF IInv, AllTypeOK
  <2>2. Len(inbuf) \in Nat
    BY StreamUnits DEF IInv, AllTypeOK
  <2>3. \A l \in Nat : Least(l, Len(inbuf)) \in Nat
    BY <2>2 DEF Least
  <2> QED BY <2>1, <2>3
<1> HIDE DEF len, got
<1>4. \A i : Before(i) => Before(i)'
  BY <1>1, <1>3, RecvKeeps DEF IInv, AllTypeOK
<1>5. Reading /\ ~Reading'
  BY <1>1 DEF Reading, At
<1>6. CASE UNCHANGED <<deviceVars, answers>>
  <2>1. UNCHANGED bsize
    BY <1>6 DEF deviceVars
  <2>2. \A i \in 1 .. Len(sent) : Behind(i) => Behind(i)'
    BY <1>4, <1>5 DEF Behind
  <2> QED BY <1>1, <1>5, <1>6, <2>1, <2>2, EchoKept
<1>7. CASE DeviceStep(r, got) /\ SendAnswers(request, AnswersTo(r, got))
  <2>1. /\ DeviceStep(sent[h].req, got) /\ SendAnswers(h, AnswersTo(sent[h].req, got))
        /\ Before(h)' /\ sent[h].kind = "submit"
    BY <1>2, <1>4, <1>5, <1>7 DEF EchoInv
  <2>2. \A i \in 1 .. Len(sent) : Behind(i) => i <= h
    BY <1>2, <1>5 DEF Behind
  <2> QED BY <1>1, <1>2, <1>3, <1>4, <1>5, <2>1, <2>2, EchoAnswered
<1> QED BY <1>1, <1>6, <1>7

\* The client sends another message, which is behind none.
LEMMA SendsEcho ==
    ASSUME IInv, EchoInv, NEW kind \in {"submit", "unlink"},
           NEW r \in Asks[build] \cup {NoData}, Sends(Message(kind, r))
    PROVE  EchoInv'
<1>1. PICK m : m = Message(kind, r) /\ m \in MessageType /\ DataLength(m) \in Nat
  BY MessageSent
<1>2. PICK new : new = Units(Len(sent) + 1, m)
  OBVIOUS
<1>3. Sends(m) /\ Len(sent) \in Nat
  BY <1>1, LenProperties DEF IInv, AllTypeOK, TypeOK
<1>4. UNCHANGED <<build, pc, request, bsize, exited, answers>>
  BY <1>3 DEF Sends, serverVars, deviceVars
<1>5. /\ Len(new) \in Nat /\ Len(sent') = Len(sent) + 1
      /\ \A k \in 1 .. Len(sent) : sent'[k] = sent[k]
  BY <1>1, <1>2, <1>3, SendsAppends
<1>6. /\ Len(stream) \in Nat /\ Len(stream') = Len(stream) + Len(new)
      /\ \A p \in 1 .. Len(stream) : stream'[p] = stream[p]
  BY <1>1, <1>2, <1>3, SendsAppends
<1>7. \A p \in Len(stream) + 1 .. Len(stream') : stream'[p].msg = Len(sent) + 1
  BY <1>1, <1>2, <1>3, SendsAppends
<1>8. \A p \in 1 .. Len(stream') :
          p \in 1 .. Len(stream) \/ p \in Len(stream) + 1 .. Len(stream')
  BY <1>5, <1>6
<1>9. \A i \in 1 .. Len(sent) : Before(i) => Before(i)'
  BY <1>3, <1>6, <1>7, <1>8 DEF Before
<1>10. Reading' = Reading /\ \A i \in 1 .. Len(sent) : Behind(i) => Behind(i)'
  BY <1>4, <1>9 DEF Reading, Behind
<1>11. \A i \in 1 .. Len(sent) : i \in 1 .. Len(sent') /\ (Written(i) => Written(i)')
  BY <1>3, <1>5 DEF Written
<1>12. ASSUME NEW k \in 1 .. Len(answers) PROVE Echo(k)' <=> Echo(k)
  <2>1. answers[k] \in Answer
    BY Types, ElementOfSeq
  <2>2. answers[k].to \in 1 .. Len(sent)
    BY <1>3, <2>1, ServerAssumption DEF Answer, IInv, AnswersInv
  <2> QED BY <1>4, <1>5, <2>2 DEF Echo
<1>13. Reading => request \in 1 .. Len(sent)
  BY DEF IInv, AnswersInv
<1>14. build = "acm" /\ Reading' => sent'[request'].kind = "submit"
  BY <1>4, <1>5, <1>10, <1>13 DEF EchoInv
<1>15. ASSUME build = "acm", NEW j \in 1 .. Len(answers'), NEW k \in 1 .. Len(answers'),
              j < k, Echo(j)', Echo(k)'
       PROVE  \E i \in 1 .. Len(sent') :
                  answers'[j].to <= i /\ i <= answers'[k].to /\ Written(i)'
  BY <1>4, <1>11, <1>12, <1>15 DEF EchoInv
<1>16. ASSUME build = "acm", bsize' > 0, NEW j \in 1 .. Len(answers'), Echo(j)'
       PROVE  \E i \in 1 .. Len(sent') : answers'[j].to <= i /\ Written(i)' /\ Behind(i)'
  BY <1>4, <1>10, <1>11, <1>12, <1>16 DEF EchoInv
<1> QED BY <1>4, <1>14, <1>15, <1>16 DEF EchoInv

LEMMA StepEcho ==
    ASSUME IInv, EchoInv, [AllNext]_allVars
    PROVE  EchoInv'
<1>1. CASE UNCHANGED allVars
  <2>1. UNCHANGED <<build, pc, request, bsize, exited, onWay, inbuf, sent, answers>>
    BY <1>1 DEF allVars, vars, serverVars, deviceVars, wireVars, clientVars
  <2>2. \A i \in 1 .. Len(sent) : Behind(i) => Behind(i)'
    BY <2>1 DEF Behind, Before, stream, Reading
  <2> QED BY <2>1, <2>2, EchoKept DEF EchoInv, Reading
<1>2. CASE build # "acm"
  <2>1. CASE List \/ Attach
    BY <1>2, <2>1 DEF List, Attach, Connect, serverVars, EchoInv
  <2>2. CASE Ask \/ GiveUp
    BY <1>2, <2>2 DEF Ask, GiveUp, Sends, serverVars, EchoInv
  <2>3. CASE Leave \/ Delivers
    BY <1>2, <2>3 DEF Leave, Delivers, Deliver, serverVars, EchoInv
  <2>4. CASE Runs \/ ConnectionReset
    BY <1>2, <2>4 DEF Runs, Server, PyLoop, Accept, RecvOp, RecvBusid, RecvCmd, RecvData,
       CloseLink, PyRecvOp, PyRecvBusid, PyRecvCmd, PyRecvData, ConnectionReset, EchoInv
  <2> QED BY <1>1, <2>1, <2>2, <2>3, <2>4 DEF AllNext, Client
<1>3. CASE build = "acm"
  <2>1. ~Python
    BY <1>3 DEF Python, PyBuilds
  <2>2. CASE CloseLink
    <3>1. Len(answers') = 0 /\ ~Reading'
      BY <2>2 DEF CloseLink, Reading
    <3> QED BY <3>1, NoEcho
  <2>3. CASE List \/ Attach
    <3>1. link = "down" /\ answers' = << >> /\ pc' = pc
      BY <2>3 DEF List, Attach, Connect, serverVars
    <3>2. Len(answers') = 0 /\ ~Reading'
      BY <3>1 DEF IInv, SentInv, Reading
    <3> QED BY <3>2, NoEcho
  <2>4. CASE Leave
    <3>1. answers' = << >> /\ UNCHANGED <<build, pc, exited, request, sent>>
      BY <2>4 DEF Leave, serverVars
    <3>2. Len(answers') = 0 /\ (build' = "acm" /\ Reading' => sent'[request'].kind = "submit")
      BY <3>1 DEF EchoInv, Reading
    <3> QED BY <3>2, NoEcho
  <2>5. CASE Delivers
    <3>1. Deliver /\ UNCHANGED <<build, pc, request, bsize, exited, sent, answers>>
      BY <2>5 DEF Delivers, Deliver, serverVars, deviceVars, clientVars
    <3>2. stream' = stream
      BY <3>1, DeliverMoves DEF IInv, AllTypeOK
    <3>3. \A i \in 1 .. Len(sent) : Behind(i) => Behind(i)'
      BY <3>1, <3>2 DEF Behind, Before, Reading
    <3> QED BY <3>1, <3>3, EchoKept DEF EchoInv, Reading
  <2>6. CASE Ask \/ GiveUp
    BY <2>6, SendsEcho DEF Ask, GiveUp
  <2>7. CASE Runs
    BY <1>3, <2>1, <2>2, <2>7, HelloEcho, RecvCmdEcho, RecvDataEcho DEF Runs, Server
  <2> QED BY <1>1, <2>1, <2>2, <2>3, <2>4, <2>5, <2>6, <2>7 DEF AllNext, Client
<1> QED BY <1>2, <1>3

\* What a client has written to the serial device is sent back to it once: handle_data
\* empties the buffer that it sends.
THEOREM WrittenComesBackOnce == AllSpec => []EchoOnce
<1>1. AllInit => EchoInv
  <2>1. ASSUME AllInit PROVE Len(answers) = 0 /\ ~Reading /\ bsize = 0
    BY <2>1 DEF AllInit, Init, Reading
  <2> QED BY <2>1 DEF EchoInv
<1>2. IInv /\ EchoInv /\ [AllNext]_allVars => EchoInv'
  BY StepEcho
<1>3. IInv /\ EchoInv => EchoOnce
  <2> SUFFICES ASSUME IInv, EchoInv PROVE EchoOnce
    OBVIOUS
  <2>1. DOMAIN answers = 1 .. Len(answers)
    BY Types, LenProperties
  <2>2. \A k \in 1 .. Len(answers) : answers[k].to \in Int
    <3>1. \A k \in 1 .. Len(answers) : answers[k] \in Answer
      BY Types, ElementOfSeq
    <3> QED BY <3>1, ServerAssumption DEF Answer
  <2>3. ASSUME build = "acm", NEW j \in DOMAIN answers, NEW k \in DOMAIN answers,
               j < k, Echo(j), Echo(k)
        PROVE  \E i \in answers[j].to .. answers[k].to : Written(i)
    <3>1. PICK i \in 1 .. Len(sent) : /\ answers[j].to <= i /\ i <= answers[k].to
                                      /\ Written(i)
      BY <2>1, <2>3 DEF EchoInv
    <3>2. i \in answers[j].to .. answers[k].to
      BY <2>1, <2>2, <3>1
    <3> QED BY <3>1, <3>2
  <2> QED BY <2>3 DEF EchoOnce, Echo, Written
<1> QED BY Invariant, <1>1, <1>2, <1>3, PTL DEF AllSpec

-----------------------------------------------------------------------------
(* No answer is longer than the client asked for.                          *)

\* Message h is answered, got bytes of its data having been read.
Answering(h, got) ==
    /\ UNCHANGED <<build, sent>>
    /\ \/ /\ ~Python /\ (build = "acm" => got <= sent[h].req.length)
          /\ SendAnswers(h, AnswersTo(sent[h].req, got))
          /\ DeviceStep(sent[h].req, got)
       \/ Python /\ SendAnswers(h, PyAnswers(sent[h].req)) /\ UNCHANGED bsize
       \/ UNCHANGED bsize /\ \E as \in {Silence, Done} : SendAnswers(h, as)

\* The answers there are, and the buffer of the serial device, fit.
FitsInv ==
    /\ build = "acm" =>
         \A r \in Asks[build] : r.in /\ r.ep = 2 => bsize <= r.length
    /\ \A k \in 1 .. Len(answers) :
         LET r == sent[answers[k].to].req IN r.in => answers[k].size <= r.length

LEMMA BodySize ==
    /\ \A a : Silence # <<a>>
    /\ \A a : Done = <<a>> => a.size = 0
    /\ \A a : Failed = <<a>> => a.size = 0
    /\ \A a, n : Data(n) = <<a>> => a.size = n
<1>1. \A a, b : <<a>> = <<b>> => a = b
  <2>1. ASSUME NEW a, NEW b, <<a>> = <<b>> PROVE a = b
    <3>1. <<a>>[1] = a /\ <<b>>[1] = b
      OBVIOUS
    <3> QED BY <2>1, <3>1
  <2> QED BY <2>1
<1>2. \A a : Silence # <<a>>
  BY DEF Silence
<1> QED BY <1>1, <1>2 DEF Done, Failed, Data

\* What is asked of a handler that sends all it has, it is asked for whole.
LEMMA ControlFits ==
    ASSUME AllAskedFor, build \in DOMAIN Asks, NEW r \in Asks[build], r.in, r.ep = 0,
           NEW a
    PROVE  /\ ~Python /\ ControlAnswers(build, r) = <<a>> => a.size <= r.length
           /\ Python /\ PyControlAnswers(build, r) = <<a>> => a.size <= r.length
<1>1. r \in Request /\ r.type >= \h80
  BY ServerAssumption
<1>2. /\ r.type # \h21 /\ r.type # \h40 /\ r.type # \h20 /\ r.type # 0 /\ r.type # 1
      /\ r.length \in Nat
  BY <1>1 DEF Request
<1>3. /\ r.type = \h80 /\ r.request = 6 /\ r.value = 1 => DeviceSize <= r.length
      /\ r.type = \h80 /\ r.request = 6 /\ r.value = 3 => StringSize <= r.length
      /\ r.type = \h80 /\ r.request = 0 => 2 <= r.length
      /\ r.type = \h81 /\ r.request = 6 /\ r.value = \h22 =>
           /\ build \in Keyboards => \h3F <= r.length
           /\ build \in Mice      => \h34 <= r.length
  BY DEF AllAskedFor
<1>4. r.length <= r.length /\ 0 <= r.length /\ Least(ConfigurationSize, r.length) <= r.length
  BY <1>2 DEF Least, ConfigurationSize
<1>5. ASSUME ControlAnswers(build, r) = <<a>>, ~Python PROVE a.size <= r.length
  <2>1. CASE r.type = \h80 /\ r.request = 6 /\ GetDescriptor(build, r) = <<a>>
    BY <1>3, <1>4, <2>1, BodySize DEF GetDescriptor
  <2>2. CASE r.type = \h80 /\ r.request = 0 /\ Data(2) = <<a>>
    BY <1>3, <2>2, BodySize
  <2>3. CASE ClassAnswers(build, r) = <<a>>
    <3>1. build \in Builds
      BY <1>5, ServerAssumption DEF Python
    <3>2. CASE build \in {"keyboard", "mouse"}
      BY <1>2, <1>3, <2>3, <3>2, BodySize
         DEF ClassAnswers, KeyboardControl, MouseControl, Keyboards, Mice
    <3>3. CASE build \in {"acm", "hso", "ether", "bt"}
      BY <1>2, <2>3, <3>3, BodySize
         DEF ClassAnswers, AcmControl, HsoControl, EtherControl, HciControl
    <3> QED BY <3>1, <3>2, <3>3 DEF Builds
  <2> QED BY <1>2, <1>5, <2>1, <2>2, <2>3 DEF ControlAnswers
<1>6. ASSUME PyControlAnswers(build, r) = <<a>>, Python PROVE a.size <= r.length
  <2>1. CASE r.type = \h80 /\ r.request = 6 /\ PyGetDescriptor(r) = <<a>>
    BY <1>3, <1>4, <2>1, BodySize DEF PyGetDescriptor
  <2>2. CASE r.type = \h80 /\ r.request = 0 /\ Data(2) = <<a>>
    BY <1>3, <2>2, BodySize
  <2>3. CASE HidControl(build, r) = <<a>>
    BY <1>2, <1>3, <1>6, <2>3, BodySize
       DEF HidControl, Python, PyBuilds, Keyboards, Mice
  <2> QED BY <1>2, <1>6, <2>1, <2>2, <2>3 DEF PyControlAnswers
<1> QED BY <1>5, <1>6

LEMMA DataFits ==
    ASSUME AllAskedFor, FitsInv, build \in DOMAIN Asks, NEW r \in Asks[build], r.in,
           r.ep # 0, bsize \in Nat, NEW a,
           DataAnswers(build, r, count, Limit, bsize) = <<a>>
    PROVE  a.size <= r.length
<1>1. /\ build \in Keyboards => 8 <= r.length
      /\ build \in Mice => 4 <= r.length
  BY DEF AllAskedFor
<1>2. r.length \in Nat
  BY ServerAssumption DEF Request
<1>3. CASE build \in Keyboards \cup Mice
  BY <1>1, <1>3, BodySize DEF DataAnswers, KeyboardData, MouseData, Keyboards, Mice
<1>4. CASE build = "acm"
  <2>1. AcmData(r, bsize) = <<a>>
    BY <1>4 DEF DataAnswers, Keyboards, Mice
  <2>2. r.ep = 2 => bsize <= r.length
    BY <1>4 DEF FitsInv
  <2> QED BY <1>2, <2>1, <2>2, BodySize DEF AcmData
<1>5. CASE build = "ether"
  <2>1. EtherData(r) = <<a>>
    BY <1>5 DEF DataAnswers, Keyboards, Mice
  <2> QED BY <1>2, <2>1, BodySize DEF EtherData
<1>6. CASE build \notin Keyboards \cup Mice \cup {"acm", "ether"}
  BY <1>6, BodySize DEF DataAnswers
<1> QED BY <1>3, <1>4, <1>5, <1>6

\* Nobody answers an empty request.
LEMMA NoDataUnanswered ==
    ASSUME build \in Builds \cup PyBuilds, NEW got
    PROVE  /\ ~Python => AnswersTo(NoData, got) = Silence
           /\ Python => PyAnswers(NoData) = Silence
<1>1. /\ NoData.ep = 0 /\ NoData.type = 0 /\ NoData.request = 0 /\ NoData.value = 0
      /\ NoData.length = 0
  BY DEF NoData
<1>2. ASSUME ~Python PROVE AnswersTo(NoData, got) = Silence
  <2>1. ~Reads("bt", NoData)
    BY <1>1 DEF Reads, CommandIn
  <2>2. build \in Builds
    BY <1>2 DEF Python
  <2>3. ClassAnswers(build, NoData) = Silence
    BY <1>1, <2>2 DEF ClassAnswers, Builds, KeyboardControl, MouseControl, AcmControl,
       HsoControl, EtherControl, HciControl
  <2>4. ControlAnswers(build, NoData) = Silence
    BY <1>1, <2>3 DEF ControlAnswers
  <2> QED BY <1>1, <2>1, <2>4 DEF AnswersTo
<1>3. PyAnswers(NoData) = Silence
  BY <1>1 DEF PyAnswers, PyControlAnswers, HidControl
<1> QED BY <1>2, <1>3

\* The answers to a request fit.
LEMMA AnswerFits ==
    ASSUME AllAskedFor, IInv, FitsInv, NEW h \in 1 .. Len(sent), NEW got \in Nat, NEW a,
           sent[h].req.in,
           \/ ~Python /\ AnswersTo(sent[h].req, got) = <<a>>
           \/ Python /\ PyAnswers(sent[h].req) = <<a>>
    PROVE  a.size <= sent[h].req.length
<1>1. PICK r : r = sent[h].req
  OBVIOUS
<1>2. /\ build \in DOMAIN Asks /\ r \in Asks[build] \cup {NoData} /\ bsize \in Nat
      /\ build \in Builds \cup PyBuilds
  BY <1>1, ServerAssumption DEF IInv, AllTypeOK, TypeOK, SentInv
<1>3. CASE r = NoData
  BY <1>1, <1>2, <1>3, NoDataUnanswered, BodySize
<1>4. CASE r \in Asks[build] /\ r.ep = 0
  <2>1. ~(build = "bt" /\ Reads(build, r))
    <3>1. r.type >= \h80 /\ r \in Request
      BY <1>1, <1>2, <1>4, ServerAssumption
    <3>2. r.type # \h20
      BY <3>1 DEF Request
    <3> QED BY <1>4, <3>2 DEF Reads, CommandIn
  <2>2. \/ ~Python /\ ControlAnswers(build, r) = <<a>>
        \/ Python /\ PyControlAnswers(build, r) = <<a>>
    BY <1>1, <1>4, <2>1 DEF AnswersTo, PyAnswers
  <2> QED BY <1>1, <1>2, <1>4, <2>2, ControlFits
<1>5. CASE r \in Asks[build] /\ r.ep # 0
  <2>1. DataAnswers(build, r, count, Limit, bsize) = <<a>>
    BY <1>1, <1>5 DEF AnswersTo, PyAnswers
  <2> QED BY <1>1, <1>2, <1>5, <2>1, DataFits
<1> QED BY <1>2, <1>3, <1>4, <1>5

\* What the process may do to its answers, and to the buffer of the serial device.
Answers ==
    \/ UNCHANGED <<build, bsize, sent, answers>>
    \/ UNCHANGED <<build, bsize>> /\ Len(answers') = 0
    \/ \E h \in 1 .. Len(sent), got \in Nat : h \in 1 .. MaxSent /\ Answering(h, got)

LEMMA CmdAnswers ==
    ASSUME IInv, RecvCmd, ~Python
    PROVE  Answers
<1>1. Recv(2) /\ At("urb") /\ UNCHANGED <<build, sent>>
  BY DEF RecvCmd, ShortHeader, NoHeader, Submit, SubmitWithData, Unlink, clientVars
<1>2. CASE ShortHeader \/ NoHeader \/ SubmitWithData
  BY <1>1, <1>2 DEF Answers, ShortHeader, NoHeader, SubmitWithData, deviceVars, clientVars
<1>3. CASE Submit \/ Unlink
  <2>1. ~RecvIsShort(2) /\ IsHeader
    BY <1>3 DEF Submit, Unlink, Receives
  <2>2. PICK h \in 1 .. Len(sent) : h = Header /\ h \in 1 .. MaxSent
    BY <1>1, <2>1, ReceivesHeader
  <2>3. sent[h].req.length \in Nat /\ 0 \in Nat
    BY SentRequest DEF Request, IInv, AllTypeOK
  <2>4. Answering(h, 0)
    BY <1>1, <1>3, <2>2, <2>3 DEF Answering, Submit, Unlink, deviceVars
  <2> QED BY <2>2, <2>3, <2>4 DEF Answers
<1> QED BY <1>2, <1>3 DEF RecvCmd

LEMMA DataAnswered ==
    ASSUME IInv, EchoInv, RecvData, ~Python
    PROVE  Answers
<1> DEFINE len == DataLength(sent[request])
           got == Least(len, Len(inbuf))
           r   == sent[request].req
<1>1. /\ At("data") /\ UNCHANGED <<build, sent>>
      /\ \/ UNCHANGED <<deviceVars, answers>>
         \/ DeviceStep(r, got) /\ SendAnswers(request, AnswersTo(r, got))
  BY DEF RecvData
<1>2. PICK h \in 1 .. Len(sent) : h = request /\ h \in 1 .. MaxSent
  BY <1>1, ReceivesData
<1>3. len \in Nat /\ Len(inbuf) \in Nat
  BY <1>2, SentRequest, StreamUnits DEF IInv, AllTypeOK
<1>4. got \in Nat /\ got <= len
  <2>1. \A l \in Nat : Least(l, Len(inbuf)) \in Nat /\ Least(l, Len(inbuf)) <= l
    BY <1>3 DEF Least
  <2> QED BY <1>3, <2>1
<1>5. build = "acm" => len <= r.length
  <2>1. build = "acm" => sent[request].kind = "submit"
    BY <1>1 DEF EchoInv, Reading, At
  <2>2. r.length \in Nat
    BY <1>2, SentRequest DEF Request, IInv, AllTypeOK
  <2> QED BY <2>1, <2>2 DEF DataLength
<1>6. build = "acm" => got <= r.length
  <2>1. r.length \in Nat
    BY <1>2, SentRequest DEF Request, IInv, AllTypeOK
  <2> QED BY <1>3, <1>4, <1>5, <2>1
<1> HIDE DEF len, got
<1>7. CASE UNCHANGED <<deviceVars, answers>>
  BY <1>1, <1>7 DEF Answers, deviceVars
<1>8. CASE DeviceStep(r, got) /\ SendAnswers(request, AnswersTo(r, got))
  BY <1>1, <1>2, <1>4, <1>6, <1>8 DEF Answers, Answering
<1> QED BY <1>1, <1>7, <1>8

LEMMA PyAnswersOne ==
    ASSUME IInv, PyRecvCmd \/ PyRecvData, Python
    PROVE  Answers
<1>1. UNCHANGED <<build, bsize, sent>>
  BY DEF PyRecvCmd, PyRecvData, NoHeader, PyRequest, clientVars
<1>2. CASE UNCHANGED answers
  BY <1>1, <1>2 DEF Answers
<1>3. ASSUME NEW h \in 1 .. Len(sent), h \in 1 .. MaxSent, Handle(h) PROVE Answers
  <2>1. 0 \in Nat /\ Answering(h, 0)
    BY <1>1, <1>3 DEF Answering, Handle
  <2> QED BY <1>3, <2>1 DEF Answers
<1>4. CASE PyRecvCmd
  <2>1. UNCHANGED answers \/ (PyRequest /\ Handle(Header))
    BY <1>4 DEF PyRecvCmd, NoHeader, PyRequest, clientVars
  <2>2. CASE PyRequest /\ Handle(Header)
    <3>1. Recv(2) /\ ~RecvIsShort(2) /\ IsHeader
      BY <1>4, <2>2 DEF PyRecvCmd, PyRequest, Receives
    <3>2. PICK h \in 1 .. Len(sent) : h = Header /\ h \in 1 .. MaxSent
      BY <1>1, <3>1, ReceivesHeader
    <3> QED BY <1>3, <2>2, <3>2
  <2> QED BY <1>2, <2>1, <2>2
<1>5. CASE PyRecvData
  <2>1. At("data") /\ Handle(request)
    BY <1>5 DEF PyRecvData
  <2>2. PICK h \in 1 .. Len(sent) : h = request /\ h \in 1 .. MaxSent
    BY <2>1, ReceivesData
  <2> QED BY <1>3, <2>1, <2>2
<1> QED BY <1>4, <1>5

LEMMA RunsAnswers ==
    ASSUME IInv, EchoInv, Runs \/ (Python /\ ConnectionReset)
    PROVE  Answers
<1>1. CASE Accept \/ RecvOp \/ RecvBusid \/ PyRecvOp \/ PyRecvBusid \/ ConnectionReset
  BY <1>1 DEF Accept, RecvOp, RecvBusid, PyRecvOp, PyRecvBusid, ConnectionReset, ShortHeader,
     NoHeader, Receives, SendReply, deviceVars, clientVars, Answers
<1>2. CASE CloseLink
  BY <1>2 DEF CloseLink, deviceVars, Answers
<1>3. CASE ~Python /\ (RecvCmd \/ RecvData)
  BY <1>3, CmdAnswers, DataAnswered
<1>4. CASE Python /\ (PyRecvCmd \/ PyRecvData)
  BY <1>4, PyAnswersOne
<1> QED BY <1>1, <1>2, <1>3, <1>4 DEF Runs, Server, PyLoop

\* The buffer holds no more than the last data that were read.
LEMMA BufferFits ==
    ASSUME AllAskedFor, IInv, FitsInv, NEW h \in 1 .. Len(sent), NEW got \in Nat,
           Answering(h, got)
    PROVE  build' = "acm" => \A r \in Asks[build'] : r.in /\ r.ep = 2 => bsize' <= r.length
<1> SUFFICES ASSUME build = "acm", NEW r \in Asks[build], r.in, r.ep = 2
             PROVE  bsize' <= r.length
  BY DEF Answering
<1>1. bsize <= r.length /\ build \in DOMAIN Asks /\ ~Python /\ r \in Request
  BY ServerAssumption DEF FitsInv, IInv, AllTypeOK, TypeOK, Python, PyBuilds
<1>2. CASE UNCHANGED bsize
  BY <1>1, <1>2
<1>3. CASE DeviceStep(sent[h].req, got) /\ got <= sent[h].req.length
  <2>1. PICK w : w = sent[h].req /\ w \in Asks[build] \cup {NoData} /\ w.length \in Nat
    BY SentRequest DEF Request, IInv, AllTypeOK, SentInv
  <2>2. CASE w.ep = 2 /\ ~w.in
    <3>1. w # NoData
      BY <2>2 DEF NoData
    <3>2. w.length <= r.length
      BY <1>1, <2>1, <2>2, <3>1 DEF AllAskedFor
    <3>3. bsize' = got
      BY <1>3, <2>1, <2>2 DEF DeviceStep
    <3> QED BY <1>1, <1>3, <2>1, <3>2, <3>3 DEF Request
  <2>3. CASE ~(w.ep = 2 /\ ~w.in)
    <3>1. w.ep = 1 => w.in
      BY <2>1, SentRequest DEF IInv, AllTypeOK
    <3>2. bsize' = 0 \/ bsize' = bsize
      BY <1>3, <2>1, <2>3, <3>1 DEF DeviceStep
    <3> QED BY <1>1, <3>2 DEF Request
  <2> QED BY <2>2, <2>3
<1> QED BY <1>1, <1>2, <1>3 DEF Answering

\* An answer more: it fits, and so do those before.
LEMMA AnsweringFits ==
    ASSUME AllAskedFor, IInv, FitsInv, NEW h \in 1 .. Len(sent), h \in 1 .. MaxSent,
           NEW got \in Nat, Answering(h, got)
    PROVE  FitsInv'
<1>1. sent' = sent /\ answers \in Seq(Answer) /\ sent[h].req.length \in Nat
  BY Types, SentRequest DEF Answering, Request, IInv, AllTypeOK
<1>2. PICK as \in AnswerBodies :
          /\ SendAnswers(h, as)
          /\ \/ ~Python /\ as = AnswersTo(sent[h].req, got)
             \/ Python /\ as = PyAnswers(sent[h].req)
             \/ as \in {Silence, Done}
  <2>1. Silence \in AnswerBodies /\ Done \in AnswerBodies
    BY OneAnswerEach
  <2>2. /\ ~Python => AnswersTo(sent[h].req, got) \in AnswerBodies
        /\ PyAnswers(sent[h].req) \in AnswerBodies
    BY SentRequest, AnswersOne DEF IInv, AllTypeOK
  <2> QED BY <2>1, <2>2 DEF Answering
<1>3. ASSUME NEW a, as = <<a>>, sent[h].req.in PROVE a.size <= sent[h].req.length
  <2>1. CASE as \in {Silence, Done}
    BY <1>1, <1>3, <2>1, BodySize
  <2> QED BY <1>2, <1>3, <2>1, AnswerFits
<1>4. ASSUME NEW k \in 1 .. Len(answers'), sent'[answers'[k].to].req.in
      PROVE  answers'[k].size <= sent'[answers'[k].to].req.length
  <2>1. \/ k \in 1 .. Len(answers) /\ answers'[k] = answers[k]
        \/ answers'[k].to = h /\ \E a : as = <<a>> /\ answers'[k].size = a.size
    BY <1>1, <1>2, AnsweredOne
  <2>2. CASE k \in 1 .. Len(answers) /\ answers'[k] = answers[k]
    BY <1>1, <1>4, <2>2 DEF FitsInv
  <2>3. CASE answers'[k].to = h /\ \E a : as = <<a>> /\ answers'[k].size = a.size
    BY <1>1, <1>3, <1>4, <2>3
  <2> QED BY <2>1, <2>2, <2>3
<1> QED BY <1>4, BufferFits DEF FitsInv

\* What was sent, and answered, stays when a message is added to it.
LEMMA SendsFits ==
    ASSUME IInv, FitsInv, NEW kind \in {"submit", "unlink"},
           NEW r \in Asks[build] \cup {NoData}, Sends(Message(kind, r))
    PROVE  FitsInv'
<1>1. PICK m : m = Message(kind, r) /\ m \in MessageType /\ DataLength(m) \in Nat
  BY MessageSent
<1>2. PICK new : new = Units(Len(sent) + 1, m)
  OBVIOUS
<1>3. \A k \in 1 .. Len(sent) : sent'[k] = sent[k]
  BY <1>1, <1>2, SendsAppends
<1>4. UNCHANGED <<build, bsize, answers>>
  BY DEF Sends, serverVars, deviceVars
<1>5. ASSUME NEW k \in 1 .. Len(answers) PROVE sent'[answers[k].to] = sent[answers[k].to]
  <2>1. answers[k] \in Answer
    BY Types, ElementOfSeq
  <2>2. Len(sent) \in Nat
    BY LenProperties DEF IInv, AllTypeOK, TypeOK
  <2>3. answers[k].to \in 1 .. Len(sent)
    BY <2>1, <2>2, ServerAssumption DEF Answer, IInv, AnswersInv
  <2> QED BY <1>3, <2>3
<1> QED BY <1>4, <1>5 DEF FitsInv

LEMMA StepFits ==
    ASSUME AllAskedFor, IInv, EchoInv, FitsInv, [AllNext]_allVars
    PROVE  FitsInv'
<1>1. CASE UNCHANGED <<build, bsize, sent, answers>>
  BY <1>1 DEF FitsInv
<1>2. CASE UNCHANGED <<build, bsize>> /\ Len(answers') = 0
  BY <1>2 DEF FitsInv
<1>3. CASE Runs \/ (Python /\ ConnectionReset)
  BY <1>1, <1>2, <1>3, RunsAnswers, AnsweringFits DEF Answers
<1>4. CASE List \/ Attach \/ Leave
  BY <1>2, <1>4 DEF List, Attach, Connect, Leave, serverVars, deviceVars
<1>5. CASE Ask \/ GiveUp
  BY <1>5, SendsFits DEF Ask, GiveUp
<1>6. CASE Delivers \/ UNCHANGED allVars
  BY <1>1, <1>6 DEF Delivers, Deliver, allVars, vars, serverVars, deviceVars, clientVars
<1> QED BY <1>3, <1>4, <1>5, <1>6 DEF AllNext, Client

\* If what a device sends whole is asked for whole, no answer is longer than its client
\* asked for, also when the stream is cut anywhere: handle_usb_control and handle_data
\* send what is there, and the buffer of the serial device holds no more than was written.
THEOREM AnswersFitAsked ==
    ASSUME AllAskedFor
    PROVE  AllSpec => []AnswersFit
<1>1. AllInit => EchoInv /\ FitsInv
  <2>1. ASSUME AllInit PROVE Len(answers) = 0 /\ ~Reading /\ bsize = 0 /\ build \in DOMAIN Asks
    BY <2>1 DEF AllInit, Init, Reading
  <2>2. ASSUME AllInit, NEW r \in Asks[build] PROVE 0 <= r.length
    BY <2>1, <2>2, ServerAssumption DEF Request
  <2> QED BY <2>1, <2>2 DEF EchoInv, FitsInv
<1>2. IInv /\ EchoInv /\ FitsInv /\ [AllNext]_allVars => EchoInv' /\ FitsInv'
  BY StepEcho, StepFits
<1>3. IInv /\ FitsInv => AnswersFit
  <2> SUFFICES ASSUME IInv, FitsInv PROVE AnswersFit
    OBVIOUS
  <2>1. DOMAIN answers = 1 .. Len(answers)
    BY Types, LenProperties
  <2> QED BY <2>1 DEF FitsInv, AnswersFit
<1> QED BY Invariant, <1>1, <1>2, <1>3, PTL DEF AllSpec

-----------------------------------------------------------------------------
(* What a client that stays is promised.                                   *)

\* The abstract specification speaks of the same devices.
LEMMA SameAnswers ==
    /\ \A b, r, c, l, n : Sessions!DataAnswers(b, r, c, l, n) = DataAnswers(b, r, c, l, n)
    /\ \A r : \A b \in Builds : Sessions!ControlAnswers(b, r) = ControlAnswers(b, r)
    /\ \A b, r : Sessions!PyControlAnswers(b, r) = PyControlAnswers(b, r)
<1>1. \A n : /\ Sessions!Data(n) = Data(n) /\ Sessions!Done = Done
             /\ Sessions!Silence = Silence /\ Sessions!Failed = Failed
  BY DEF Sessions!Data, Data, Sessions!Done, Done, Sessions!Silence, Silence,
     Sessions!Failed, Failed
<1>2. \A b, r, c, l, n : Sessions!DataAnswers(b, r, c, l, n) = DataAnswers(b, r, c, l, n)
  <2>1. Sessions!Keyboards = Keyboards /\ Sessions!Mice = Mice
    BY DEF Sessions!Keyboards, Keyboards, Sessions!Mice, Mice
  <2>2. \A c, l : /\ Sessions!KeyboardData(c, l) = KeyboardData(c, l)
                  /\ Sessions!MouseData(c, l) = MouseData(c, l)
    BY <1>1 DEF Sessions!KeyboardData, KeyboardData, Sessions!MouseData, MouseData
  <2>3. \A r, n : Sessions!AcmData(r, n) = AcmData(r, n)
    BY <1>1 DEF Sessions!AcmData, AcmData
  <2>4. \A r : Sessions!EtherData(r) = EtherData(r)
    BY <1>1 DEF Sessions!EtherData, EtherData
  <2> QED BY <1>1, <2>1, <2>2, <2>3, <2>4 DEF Sessions!DataAnswers, DataAnswers
<1>3. \A r : \A b \in Builds : Sessions!ControlAnswers(b, r) = ControlAnswers(b, r)
  <2>1. \A b, r : Sessions!GetDescriptor(b, r) = GetDescriptor(b, r)
    BY <1>1 DEF Sessions!GetDescriptor, GetDescriptor, Sessions!DeviceSize, DeviceSize,
       Sessions!BosSize, BosSize, Sessions!BosCapabilitySize, BosCapabilitySize,
       Sessions!NoQualifier, NoQualifier, Sessions!Bos, Bos
  <2>2. \A r : /\ Sessions!KeyboardControl(r) = KeyboardControl(r)
               /\ Sessions!MouseControl(r) = MouseControl(r)
               /\ Sessions!AcmControl(r) = AcmControl(r)
               /\ Sessions!HsoControl(r) = HsoControl(r)
               /\ Sessions!EtherControl(r) = EtherControl(r)
               /\ Sessions!HciControl(r) = HciControl(r)
    BY <1>1 DEF Sessions!KeyboardControl, KeyboardControl,
       Sessions!MouseControl, MouseControl, Sessions!AcmControl, AcmControl,
       Sessions!HsoControl, HsoControl, Sessions!EtherControl, EtherControl,
       Sessions!HciControl, HciControl
  <2>3. \A r : \A b \in Builds : Sessions!ClassAnswers(b, r) = ClassAnswers(b, r)
    BY <2>2 DEF Sessions!ClassAnswers, ClassAnswers, Builds
  <2> QED BY <1>1, <2>1, <2>3 DEF Sessions!ControlAnswers, ControlAnswers
<1>4. \A b, r : Sessions!PyControlAnswers(b, r) = PyControlAnswers(b, r)
  BY <1>1 DEF Sessions!PyControlAnswers, PyControlAnswers, Sessions!PyGetDescriptor,
     PyGetDescriptor, Sessions!HidControl, HidControl, Sessions!DeviceSize, DeviceSize,
     Sessions!ConfigurationSize, ConfigurationSize, Sessions!Least, Least
<1> QED BY <1>2, <1>3, <1>4

Headers == {stream[p].msg : p \in {q \in 1 .. Len(stream) : stream[q].part = 1}}

InHand == CASE pc = "busid" -> {1}
            [] pc = "data"  -> {request}
            [] OTHER        -> {}

LEMMA UnservedIs == Unserved = Headers \cup InHand
BY DEF Unserved, Headers, InHand, stream

\* A client is away just when it has no connection.
LinkInv == link = "up" <=> Attended

\* The headers among the first k units are received.
LEMMA HeadersTaken ==
    ASSUME TypeOK, NEW n \in Nat, Recv(n)
    PROVE  LET k == Least(n, Len(inbuf)) IN
           Headers' = {stream[p].msg : p \in {q \in k + 1 .. Len(stream) : stream[q].part = 1}}
<1> DEFINE k == Least(n, Len(inbuf))
<1>1. /\ k \in 0 .. Len(inbuf) /\ Len(stream') = Len(stream) - k
      /\ \A p \in 1 .. Len(stream') : stream'[p] = stream[p + k]
  BY RecvTakes
<1>2. Len(inbuf) \in Nat /\ Len(stream) \in Nat /\ Len(inbuf) <= Len(stream)
  BY StreamUnits
<1>3. k \in Nat /\ k <= Len(stream)
  BY <1>1, <1>2
<1> HIDE DEF k
<1>4. ASSUME NEW i \in Headers'
      PROVE  \E p \in {q \in k + 1 .. Len(stream) : stream[q].part = 1} : i = stream[p].msg
  <2>1. PICK p \in 1 .. Len(stream') : stream'[p].part = 1 /\ i = stream'[p].msg
    BY <1>4 DEF Headers
  <2>2. p + k \in k + 1 .. Len(stream) /\ stream'[p] = stream[p + k]
    BY <1>1, <1>2, <1>3, <2>1
  <2> QED BY <2>1, <2>2
<1>5. ASSUME NEW p \in k + 1 .. Len(stream), stream[p].part = 1 PROVE stream[p].msg \in Headers'
  <2>1. p - k \in 1 .. Len(stream') /\ (p - k) + k = p
    BY <1>1, <1>2, <1>3
  <2>2. stream'[p - k] = stream[p]
    BY <1>1, <2>1
  <2> QED BY <1>5, <2>1, <2>2 DEF Headers
<1>6. Headers' = {stream[p].msg : p \in {q \in k + 1 .. Len(stream) : stream[q].part = 1}}
  BY <1>4, <1>5
<1> QED BY <1>6 DEF k

\* A header is received, of the first message that is not served.
LEMMA HeaderServed ==
    ASSUME IInv, AlignedInv, Recv(2), link = "up", ~exited, pc \in {"hello", "urb"}
    PROVE  /\ ~NoHeader /\ ~RecvIsShort(2) /\ IsHeader
           /\ Header \in 1 .. Len(sent) /\ Header \in 1 .. MaxSent
           /\ Header \in Unserved /\ \A j \in Unserved : Header <= j
           /\ Unserved = Headers' \cup {Header} /\ Header \notin Headers'
<1>1. ~RecvIsShort(2)
  BY HeaderNotShort
<1>2. stream # << >> => stream[1].part = 1
  BY DEF AlignedInv, FirstInv, DataDue
<1>3. ~NoHeader /\ IsHeader
  BY <1>1, <1>2, HeaderTaken DEF NoHeader
<1>4. TypeOK /\ StreamInv
  BY DEF IInv, AllTypeOK
<1>5. /\ Len(inbuf) \in Nat /\ Len(onWay) \in Nat /\ Len(stream) = Len(inbuf) + Len(onWay)
      /\ inbuf \in Seq(Unit)
  BY <1>4, StreamUnits
<1>6. Len(inbuf) >= 2 /\ Least(2, Len(inbuf)) = 2
  BY <1>1, <1>5, LeastOf DEF RecvIsShort
<1>7. 1 \in 1 .. Len(stream) /\ 2 \in 1 .. Len(stream)
  BY <1>5, <1>6
<1>8. inbuf[1] = stream[1] /\ inbuf[2] = stream[2] /\ stream[1] \in Unit /\ Header = stream[1].msg
  BY <1>4, <1>5, <1>6, <1>7, StreamUnits DEF Header
<1>9. stream[1].part = 1 /\ stream[2].part = 2
  BY <1>3, <1>8 DEF IsHeader, Unit
<1>10. Headers' = {stream[p].msg : p \in {q \in 3 .. Len(stream) : stream[q].part = 1}}
  <2>1. 2 \in Nat /\ 2 + 1 = 3
    OBVIOUS
  <2> QED BY <1>4, <1>6, <2>1, HeadersTaken
<1>11. ASSUME NEW p \in 2 .. Len(stream), stream[p].part = 1
       PROVE  Header < stream[p].msg
  <2>1. p \in 1 .. Len(stream) /\ 1 < p
    BY <1>5
  <2> QED BY <1>4, <1>7, <1>8, <1>9, <1>11, <2>1 DEF StreamInv
<1>12. Header \in 1 .. Len(sent) /\ Header \in 1 .. MaxSent
  BY <1>4, <1>7, <1>8, ServerAssumption DEF IInv, SentInv, StreamInv, Unit
<1>13. Headers = Headers' \cup {Header}
  <2>1. ASSUME NEW p \in 1 .. Len(stream), stream[p].part = 1
        PROVE  stream[p].msg \in Headers' \cup {Header}
    <3>1. p # 2 /\ (p = 1 \/ p \in 3 .. Len(stream))
      BY <1>5, <1>9, <2>1
    <3> QED BY <1>8, <1>10, <2>1, <3>1
  <2>2. ASSUME NEW p \in 3 .. Len(stream) PROVE p \in 1 .. Len(stream)
    BY <1>5
  <2> QED BY <1>7, <1>8, <1>9, <1>10, <2>1, <2>2 DEF Headers
<1>14. ASSUME NEW j \in Headers' PROVE Header < j
  BY <1>10, <1>11, <1>5, <1>14
<1>15. Unserved = Headers' \cup {Header}
  BY <1>13, UnservedIs DEF InHand
<1>16. Header \in Nat /\ \A j \in Headers' : j \in Nat
  <2>1. \A p \in 3 .. Len(stream) : stream[p].msg \in Nat
    BY <1>4, <1>5, StreamUnits, ServerAssumption DEF Unit
  <2> QED BY <1>10, <1>12, <2>1, ServerAssumption
<1>17. Header \notin Headers' /\ \A j \in Headers' : Header <= j
  BY <1>14, <1>16
<1> QED BY <1>1, <1>3, <1>12, <1>15, <1>16, <1>17

\* What is received of message i, at its third unit, is none of the next headers.
LEMMA BodyTaken ==
    ASSUME IInv, AlignedInv, NEW n \in Nat, Recv(n), NEW i, DataLength(sent[i]) = n,
           stream # << >> => stream[1].msg = i /\ stream[1].part = 3
    PROVE  Headers' = Headers
<1>1. TypeOK
  BY DEF IInv, AllTypeOK
<1> DEFINE k == Least(n, Len(inbuf))
<1>2. Len(inbuf) \in Nat /\ Len(stream) \in Nat /\ stream \in Seq(Unit)
  BY <1>1, StreamUnits
<1>3. k \in Nat /\ k <= n
  BY <1>2 DEF Least
<1>4. Headers' = {stream[p].msg : p \in {q \in k + 1 .. Len(stream) : stream[q].part = 1}}
  BY <1>1, HeadersTaken
<1> HIDE DEF k
<1>5. ASSUME NEW p \in 1 .. Len(stream), stream[p].part = 1 PROVE p \in k + 1 .. Len(stream)
  <2> SUFFICES ASSUME p <= k PROVE FALSE
    BY <1>2, <1>3
  <2>1. 1 \in 1 .. Len(stream) /\ stream # << >>
    BY <1>2, EmptySeq
  <2>2. stream[1].msg = i /\ stream[1].part = 3
    BY <2>1
  <2>3. p # 1
    BY <1>5, <2>2
  <2>4. Follows(sent, stream[1], stream[p], p - 1)
    BY <1>2, <2>1, <2>3 DEF AlignedInv, FramedIn
  <2>5. 3 + (p - 1) <= 2 + n /\ 3 + (p - 1) # 1
    BY <1>3
  <2>6. stream[p].part = 3 + (p - 1)
    BY <2>2, <2>4, <2>5 DEF Follows, Parts
  <2> QED BY <1>5, <2>5, <2>6
<1>6. \A p \in k + 1 .. Len(stream) : p \in 1 .. Len(stream)
  BY <1>2, <1>3
<1> QED BY <1>4, <1>5, <1>6 DEF Headers

\* The rest of the message that is being received comes before all others.
LEMMA InHandFirst ==
    ASSUME IInv, AlignedInv, ~exited, pc \in {"busid", "data"}
    PROVE  \E i \in 1 .. Len(sent) :
              /\ i \in 1 .. MaxSent /\ InHand = {i} /\ i \notin Headers
              /\ \A j \in Unserved : i <= j
              /\ pc = "busid" => i = 1 /\ sent[i].kind = "import"
              /\ pc = "data" => i = request
              /\ DataLength(sent[i]) # 0 =>
                    (stream # << >> => stream[1].msg = i /\ stream[1].part = 3)
<1>1. TypeOK /\ StreamInv /\ SentInv
  BY DEF IInv, AllTypeOK
<1>2. Len(stream) \in Nat /\ stream \in Seq(Unit) /\ Len(sent) \in Nat
  BY <1>1, StreamUnits, LenProperties DEF TypeOK
<1>3. ASSUME NEW i \in 1 .. Len(sent), Before(i), InHand = {i}
      PROVE  i \notin Headers /\ \A j \in Unserved : i <= j
  <2>1. ASSUME NEW j \in Headers PROVE i < j
    BY <1>3, <2>1 DEF Headers, Before
  <2>2. \A j \in Unserved : j \in Headers \/ j = i
    BY <1>3, UnservedIs
  <2>3. \A j \in Headers : j \in Nat
    BY <1>1, StreamUnits, ServerAssumption DEF Headers, Unit
  <2> QED BY <1>2, <2>1, <2>2, <2>3
<1>4. CASE pc = "busid"
  <2>1. sent # << >> /\ sent[1].kind = "import" /\ 1 \in 1 .. Len(sent)
    <3>1. sent # << >> /\ sent[1].kind = "import"
      BY <1>4 DEF IInv, ImportInv
    <3> QED BY <1>1, <1>2, <3>1, EmptySeq DEF TypeOK
  <2>2. stream # << >> => stream[1].msg = 1 /\ stream[1].part = 3
    BY <1>4 DEF AlignedInv, FirstInv, DataDue, Due
  <2>3. ASSUME NEW p \in 1 .. Len(stream), stream[p].part = 1 PROVE 1 < stream[p].msg
    <3>1. stream # << >> /\ 1 \in 1 .. Len(stream)
      BY <1>2, EmptySeq
    <3>2. p # 1 /\ 1 < p
      BY <1>2, <2>2, <2>3, <3>1
    <3> QED BY <1>1, <2>2, <2>3, <3>1, <3>2 DEF StreamInv
  <2>4. InHand = {1} /\ Before(1)
    BY <1>4, <2>3 DEF InHand, Before
  <2>5. 1 \in 1 .. MaxSent
    BY ServerAssumption
  <2> QED BY <1>3, <1>4, <2>1, <2>2, <2>4, <2>5
<1>5. CASE pc = "data"
  <2>1. PICK i \in 1 .. Len(sent) : i = request /\ i \in 1 .. MaxSent /\ Before(i)
    BY <1>1, <1>5, SentRequest DEF IInv, AnswersInv, Reading
  <2>2. InHand = {i}
    BY <1>5, <2>1 DEF InHand
  <2>3. DataLength(sent[i]) # 0 =>
            (stream # << >> => stream[1].msg = i /\ stream[1].part = 3)
    BY <1>5, <2>1 DEF AlignedInv, FirstInv, DataDue, Due
  <2> QED BY <1>3, <1>5, <2>1, <2>2, <2>3
<1> QED BY <1>4, <1>5

\* And it is served when its data are received.
LEMMA BodyServed ==
    ASSUME IInv, AlignedInv, NEW n \in Nat, Recv(n), ~exited,
           NEW i \in 1 .. Len(sent), InHand = {i}, i \notin Headers,
           DataLength(sent[i]) # 0 =>
               (stream # << >> => stream[1].msg = i /\ stream[1].part = 3),
           DataLength(sent[i]) = n, pc' \in {"hello", "urb"}
    PROVE  Unserved' = Unserved \ {i} /\ i \in Unserved
<1>1. Headers' = Headers
  <2>1. CASE n = 0
    <3>1. TypeOK
      BY DEF IInv, AllTypeOK
    <3>2. Len(inbuf) \in Nat
      BY <3>1, StreamUnits
    <3>3. Least(0, Len(inbuf)) = 0 /\ 0 + 1 = 1
      BY <3>2, LeastOf
    <3> QED BY <2>1, <3>1, <3>3, HeadersTaken DEF Headers
  <2>2. CASE n # 0
    BY <2>2, BodyTaken
  <2> QED BY <2>1, <2>2
<1>2. Unserved = Headers \cup {i}
  BY UnservedIs
<1>3. Unserved' = Headers' \cup InHand'
  BY DEF Unserved, Headers, InHand, stream
<1>4. InHand' = {}
  BY DEF InHand
<1> QED BY <1>1, <1>2, <1>3, <1>4

\* Only submits have a request, and only their data are read.
KindInv ==
    /\ \A k \in 1 .. Len(sent) : sent[k].kind # "submit" => sent[k].req = NoData
    /\ Reading => sent[request].kind = "submit"

SessionInv == LinkInv /\ KindInv

LEMMA SessionInitially == AllInit => SessionInv
<1> SUFFICES ASSUME AllInit PROVE SessionInv
  OBVIOUS
<1>1. Len(sent) = 0 /\ ~Reading
  BY DEF AllInit, Init, Reading
<1> QED BY <1>1 DEF AllInit, Init, SessionInv, LinkInv, KindInv, Attended

\* In Python too, an empty request has no data to read.
LEMMA TakenSubmit ==
    ASSUME IInv, KindInv, NEW h \in 1 .. Len(sent), Python, Taken(build, sent[h].req)
    PROVE  sent[h].kind = "submit"
<1>1. NoData.type # \h21
  BY DEF NoData
<1> QED BY <1>1 DEF KindInv, Taken, Python

LEMMA RunsKind ==
    ASSUME IInv, KindInv, Runs \/ (Python /\ ConnectionReset), ~CloseLink
    PROVE  KindInv'
<1>1. sent' = sent
  BY DEF Runs, Server, PyLoop, Accept, RecvOp, RecvBusid, RecvCmd, RecvData, PyRecvOp,
     PyRecvBusid, PyRecvCmd, PyRecvData, ConnectionReset, ShortHeader, NoHeader, Submit,
     SubmitWithData, Unlink, PyRequest, SendReply, clientVars
<1>2. CASE Accept \/ RecvOp \/ RecvBusid \/ RecvData \/ PyRecvOp \/ PyRecvBusid \/ PyRecvData
  <2>1. pc' # "data" \/ exited'
    BY <1>2 DEF Accept, RecvOp, RecvBusid, RecvData, PyRecvOp, PyRecvBusid, PyRecvData,
       ShortHeader, NoHeader, At
  <2> QED BY <1>1, <2>1 DEF KindInv, Reading
<1>3. CASE RecvCmd /\ ~SubmitWithData
  <2>1. pc' # "data"
    BY <1>3 DEF RecvCmd, ShortHeader, NoHeader, Submit, Unlink, At
  <2> QED BY <1>1, <2>1 DEF KindInv, Reading
<1>4. CASE RecvCmd /\ SubmitWithData
  <2>1. request' = Header /\ sent[Header].kind = "submit"
    BY <1>4 DEF SubmitWithData, Receives
  <2> QED BY <1>1, <2>1 DEF KindInv
<1>5. CASE Python /\ PyRecvCmd
  <2>1. pc' = "hello" \/ (PyRequest /\ request' = Header /\ Taken(build, sent[Header].req))
    BY <1>5 DEF PyRecvCmd, NoHeader, PyRequest, At
  <2>2. CASE pc' = "hello"
    BY <1>1, <2>2 DEF KindInv, Reading
  <2>3. CASE PyRequest /\ request' = Header /\ Taken(build, sent[Header].req)
    <3>1. Recv(2) /\ ~RecvIsShort(2) /\ IsHeader
      BY <1>5, <2>3 DEF PyRecvCmd, PyRequest, Receives
    <3>2. PICK h \in 1 .. Len(sent) : h = Header
      BY <1>1, <3>1, ReceivesHeader
    <3>3. sent[h].kind = "submit"
      BY <1>5, <2>3, <3>2, TakenSubmit
    <3> QED BY <1>1, <2>3, <3>2, <3>3 DEF KindInv
  <2> QED BY <2>1, <2>2, <2>3
<1>6. CASE Python /\ ConnectionReset
  BY <1>1, <1>6 DEF ConnectionReset, KindInv, Reading, Raise
<1> QED BY <1>2, <1>3, <1>4, <1>5, <1>6 DEF Runs, Server, PyLoop

LEMMA RunsLink ==
    ASSUME IInv, ServesInv, LinkInv, Runs \/ (Python /\ ConnectionReset)
    PROVE  LinkInv'
<1>1. CASE CloseLink
  <2>1. pc = "close"
    BY <1>1 DEF CloseLink, At
  <2> QED BY <1>1, <2>1 DEF CloseLink, ServesInv, LinkInv, Attended
<1>2. CASE RecvOp \/ RecvBusid \/ PyRecvOp \/ PyRecvBusid
  BY <1>2 DEF RecvOp, RecvBusid, PyRecvOp, PyRecvBusid, ShortHeader, NoHeader, SendReply,
     clientVars, LinkInv, Attended
<1>3. CASE Accept \/ RecvCmd \/ RecvData \/ PyRecvCmd \/ PyRecvData \/ ConnectionReset
  BY <1>3 DEF Accept, RecvCmd, RecvData, PyRecvCmd, PyRecvData, ConnectionReset, ShortHeader,
     NoHeader, Submit, SubmitWithData, Unlink, PyRequest, clientVars, LinkInv, Attended
<1> QED BY <1>1, <1>2, <1>3 DEF Runs, Server, PyLoop

LEMMA SendsSession ==
    ASSUME IInv, SessionInv, NEW kind \in {"submit", "unlink"},
           NEW r \in Asks[build] \cup {NoData}, kind = "unlink" => r = NoData,
           Sends(Message(kind, r))
    PROVE  SessionInv'
<1>1. PICK m : m = Message(kind, r) /\ m \in MessageType /\ DataLength(m) \in Nat
  BY MessageSent
<1>2. PICK new : new = Units(Len(sent) + 1, m)
  OBVIOUS
<1>3. /\ Len(sent') = Len(sent) + 1 /\ sent'[Len(sent) + 1] = m
      /\ \A k \in 1 .. Len(sent) : sent'[k] = sent[k]
  BY <1>1, <1>2, SendsAppends
<1>4. m.kind = kind /\ m.req = r /\ Len(sent) \in Nat
  BY <1>1, MessageSent, LenProperties DEF IInv, AllTypeOK, TypeOK
<1>5. UNCHANGED <<pc, exited, request, link, phase>>
  BY DEF Sends, serverVars
<1>6. Reading => request \in 1 .. Len(sent)
  BY DEF IInv, AnswersInv
<1>7. ASSUME NEW k \in 1 .. Len(sent'), sent'[k].kind # "submit" PROVE sent'[k].req = NoData
  <2>1. k \in 1 .. Len(sent) \/ k = Len(sent) + 1
    BY <1>3, <1>4
  <2> QED BY <1>3, <1>4, <1>7, <2>1 DEF SessionInv, KindInv
<1>8. Reading' => sent'[request'].kind = "submit"
  BY <1>3, <1>5, <1>6 DEF Reading, SessionInv, KindInv
<1> QED BY <1>5, <1>7, <1>8 DEF SessionInv, KindInv, LinkInv, Attended

LEMMA StepSession ==
    ASSUME IInv, ServesInv, SessionInv, [AllNext]_allVars
    PROVE  SessionInv'
<1>1. CASE UNCHANGED allVars \/ Delivers
  BY <1>1 DEF Delivers, Deliver, allVars, vars, serverVars, clientVars, SessionInv, LinkInv,
     KindInv, Attended, Reading
<1>2. CASE CloseLink
  <2>1. Len(sent') = 0 /\ ~Reading'
    BY <1>2 DEF CloseLink, Reading
  <2>2. KindInv'
    BY <2>1 DEF KindInv
  <2>3. LinkInv'
    <3>1. pc = "close"
      BY <1>2 DEF CloseLink, At
    <3> QED BY <1>2, <3>1 DEF CloseLink, ServesInv, LinkInv, Attended
  <2> QED BY <2>2, <2>3 DEF SessionInv
<1>3. CASE Runs \/ (Python /\ ConnectionReset)
  BY <1>2, <1>3, RunsKind, RunsLink DEF SessionInv
<1>4. CASE Leave
  BY <1>4 DEF Leave, serverVars, SessionInv, LinkInv, KindInv, Attended, Reading
<1>5. CASE Ask \/ GiveUp
  BY <1>5, SendsSession DEF Ask, GiveUp
<1>6. ASSUME NEW m \in {DevList, Import}, NEW next \in Phase \ {"away"}, Connect(m, next)
      PROVE  SessionInv'
  <2>1. sent' = <<m>> /\ link' = "up" /\ phase' = next /\ UNCHANGED <<pc, exited>>
    BY <1>6 DEF Connect, serverVars
  <2>2. pc = "accept"
    BY <1>6 DEF Connect, IInv, SentInv
  <2>3. Len(sent') = 1 /\ sent'[1] = m /\ m.req = NoData
    BY <2>1, <1>6 DEF DevList, Import, Message
  <2> QED BY <2>1, <2>2, <2>3 DEF SessionInv, LinkInv, KindInv, Attended, Reading
<1>7. CASE List \/ Attach
  BY <1>6, <1>7 DEF List, Attach, Phase
<1> QED BY <1>1, <1>3, <1>4, <1>5, <1>7 DEF AllNext, Client

\* Steps that the client does not see.
LEMMA Stutters ==
    /\ UNCHANGED <<build, count, bsize, phase, sent, answers>> /\ Unserved' = Unserved =>
         UNCHANGED Sessions!sessionVars
    /\ ~Attended /\ ~Attended' /\ UNCHANGED <<build, count, bsize, phase>> =>
         UNCHANGED Sessions!sessionVars
BY DEF Sessions!sessionVars, Sessions!device, Attended

\* What the device does.
LEMMA SameDevice ==
    ASSUME TypeOK, build' = build, NEW r, NEW got, NEW n, CountReport(r),
           build = "acm" /\ r.ep = 1 => r.in,
           \/ DeviceStep(r, got) /\ (build = "acm" /\ r.ep = 2 /\ ~r.in => n = got)
           \/ Python /\ UNCHANGED bsize
    PROVE  Sessions!Handles(r, n)
<1>1. Sessions!Keyboards = Keyboards /\ Sessions!Mice = Mice
  BY DEF Sessions!Keyboards, Keyboards, Sessions!Mice, Mice
<1>2. count \in 0 .. Limit /\ Limit \in Nat
  BY ServerAssumption DEF TypeOK
<1>3. count' = IF build \in Keyboards \cup Mice /\ r.ep # 0
                 THEN Sessions!Least(count + 1, Limit) ELSE count
  BY <1>2 DEF CountReport, SendsReport, Sessions!Least, Least
<1>4. /\ build = "acm" /\ r.ep = 2 /\ r.in  => bsize' = 0
      /\ build = "acm" /\ r.ep = 2 /\ ~r.in => bsize' = n
      /\ build # "acm" \/ r.ep # 2          => bsize' = bsize
  BY DEF DeviceStep, Python, PyBuilds
<1> QED BY <1>1, <1>3, <1>4 DEF Sessions!Handles

\* The messages' own steps.
Served(h) ==
    /\ Attended /\ Attended' /\ link = "up" /\ UNCHANGED <<build, sent>>
    /\ h \in Unserved /\ (\A j \in Unserved : h <= j) /\ Unserved' = Unserved \ {h}

LEMMA SubmitServed ==
    ASSUME IInv, NEW h \in 1 .. Len(sent), Served(h), sent[h].kind = "submit",
           UNCHANGED phase, NEW got, NEW as, SendAnswers(h, as),
           CountReport(sent[h].req),
           \/ /\ ~Python /\ as = AnswersTo(sent[h].req, got) /\ DeviceStep(sent[h].req, got)
              /\ \/ got = sent[h].req.length
                 \/ ~Reads(build, sent[h].req)
                 \/ sent[h].req.in /\ sent[h].req.ep # 0
           \/ Python /\ as = PyAnswers(sent[h].req) /\ UNCHANGED bsize
    PROVE  Sessions!Submit(h)
<1>1. PICK r : r = sent[h].req
  OBVIOUS
<1>2. TypeOK /\ (build = "acm" /\ r.ep = 1 => r.in) /\ build \in Builds \cup PyBuilds
  BY <1>1, SentRequest DEF IInv, AllTypeOK
<1>3. Sessions!Handles(r, r.length)
  <2>1. build = "acm" /\ r.ep = 2 /\ ~r.in /\ ~Python => r.length = got
    BY <1>1 DEF Reads, ReportIn, LineCodingIn, SerialIn, FrameIn, CommandIn
  <2> QED BY <1>1, <1>2, <2>1, SameDevice DEF Served
<1>4. Sessions!PyBuilds = PyBuilds /\ (Python <=> build \in PyBuilds)
  BY DEF Sessions!PyBuilds, PyBuilds, Python
<1>5. Sessions!Reply(r) = as
  <2>1. CASE r.ep # 0
    <3>1. Sessions!Reply(r) = DataAnswers(build, r, count, Limit, bsize)
      BY <2>1, SameAnswers DEF Sessions!Reply
    <3> QED BY <1>1, <2>1, <3>1 DEF AnswersTo, PyAnswers
  <2>2. CASE r.ep = 0 /\ Python
    <3>1. Sessions!Reply(r) = PyControlAnswers(build, r)
      BY <1>4, <2>2, SameAnswers DEF Sessions!Reply
    <3> QED BY <1>1, <2>2, <3>1 DEF PyAnswers
  <2>3. CASE r.ep = 0 /\ ~Python
    <3>1. Sessions!Reply(r) = ControlAnswers(build, r)
      BY <1>2, <1>4, <2>3, SameAnswers DEF Sessions!Reply
    <3>2. CASE build = "bt" /\ Reads(build, r)
      <4>1. ControlAnswers(build, r) = Data(r.length)
        BY <2>3, <3>2 DEF Reads, CommandIn, ControlAnswers, ClassAnswers, HciControl
      <4>2. got = r.length
        BY <1>1, <2>3, <3>2
      <4> QED BY <1>1, <2>3, <3>1, <3>2, <4>1, <4>2 DEF AnswersTo
    <3>3. CASE ~(build = "bt" /\ Reads(build, r))
      BY <1>1, <2>3, <3>1, <3>3 DEF AnswersTo
    <3> QED BY <3>2, <3>3
  <2> QED BY <2>1, <2>2, <2>3
<1>6. answers' = answers \o AnswersFor(h, as)
  BY DEF SendAnswers, Served
<1>7. Sessions!AnswersFor(h, as) = AnswersFor(h, as)
  BY DEF Sessions!AnswersFor, AnswersFor
<1> QED BY <1>1, <1>3, <1>5, <1>6, <1>7
        DEF Served, Sessions!Submit, Sessions!Deals, Sessions!First

LEMMA UnlinkServed ==
    ASSUME IInv, NEW h \in 1 .. Len(sent), Served(h), sent[h].kind = "unlink",
           UNCHANGED <<phase, count, bsize>>,
           SendAnswers(h, IF build = "bt" THEN Done ELSE Silence)
    PROVE  Sessions!Unlink(h)
<1>1. answers' = answers \o AnswersFor(h, IF build = "bt" THEN Done ELSE Silence)
  BY DEF SendAnswers, Served
<1>2. /\ Sessions!Done = Done /\ Sessions!Silence = Silence
      /\ \A as : Sessions!AnswersFor(h, as) = AnswersFor(h, as)
  BY DEF Sessions!AnswersFor, AnswersFor, Sessions!Done, Done, Sessions!Silence, Silence
<1> QED BY <1>1, <1>2 DEF Served, Sessions!Unlink, Sessions!Deals, Sessions!First,
        Sessions!device

LEMMA ImportServed ==
    ASSUME NEW h, Served(h), sent[h].kind = "import", phase' = "attached",
           UNCHANGED <<count, bsize, answers>>
    PROVE  Sessions!Import(h)
BY DEF Served, Sessions!Import, Sessions!Deals, Sessions!First, Sessions!device

LEMMA ListServed ==
    ASSUME NEW h, Served(h), sent[h].kind = "devlist",
           phase' = IF NoDeviceList(build) THEN phase ELSE "listed",
           UNCHANGED <<count, bsize, answers>>
    PROVE  Sessions!List(h)
BY DEF Served, Sessions!List, Sessions!Deals, Sessions!First, Sessions!device,
   Sessions!NoDeviceList, NoDeviceList

LEMMA ServedSteps ==
    ASSUME NEW h, Served(h),
           Sessions!List(h) \/ Sessions!Import(h) \/ Sessions!Submit(h) \/ Sessions!Unlink(h)
    PROVE  Sessions!Next
BY DEF Served, Sessions!Next, Sessions!Server

\* The assumptions of the steps of a server whose client is there.
Serving == IInv /\ AlignedInv /\ ServesInv /\ SessionInv /\ link = "up" /\ Attended

SessionStep == [Sessions!Next]_Sessions!sessionVars

\* A header: its message is served, or it is next.
LEMMA HeaderStep ==
    ASSUME Serving, Recv(2), ~exited, pc \in {"hello", "urb"}, UNCHANGED <<build, sent>>,
           Attended'
    PROVE  /\ ~NoHeader /\ ~ShortHeader /\ ~RecvIsShort(2)
           /\ \E h \in 1 .. Len(sent) :
                 /\ h = Header /\ h \in 1 .. MaxSent
                 /\ pc' \in {"hello", "urb"} => Served(h)
                 /\ pc' = "data" /\ request' = h => Unserved' = Unserved
                 /\ pc' = "busid" /\ h = 1 => Unserved' = Unserved
<1>1. /\ ~NoHeader /\ ~RecvIsShort(2) /\ IsHeader
      /\ Header \in 1 .. Len(sent) /\ Header \in 1 .. MaxSent
      /\ Header \in Unserved /\ \A j \in Unserved : Header <= j
      /\ Unserved = Headers' \cup {Header} /\ Header \notin Headers'
  BY HeaderServed DEF Serving
<1>2. Unserved' = Headers' \cup InHand'
  BY DEF Unserved, Headers, InHand, stream
<1>3. PICK h \in 1 .. Len(sent) : h = Header
  BY <1>1
<1>4. pc' \in {"hello", "urb"} => InHand' = {}
  BY DEF InHand
<1>5. /\ pc' = "data" /\ request' = h => InHand' = {h}
      /\ pc' = "busid" /\ h = 1 => InHand' = {h}
  BY DEF InHand
<1>6. pc' \in {"hello", "urb"} => Served(h)
  BY <1>1, <1>2, <1>3, <1>4 DEF Served, Serving
<1> QED BY <1>1, <1>2, <1>3, <1>5, <1>6 DEF ShortHeader

\* Its data: it is served.
LEMMA BodyStep ==
    ASSUME Serving, ~exited, pc \in {"busid", "data"}, UNCHANGED <<build, sent>>, Attended',
           pc' \in {"hello", "urb"}, NEW n, Recv(n),
           n = IF pc = "busid" THEN 2 ELSE DataLength(sent[request])
    PROVE  \E h \in 1 .. Len(sent) :
              /\ h \in 1 .. MaxSent /\ Served(h) /\ n \in Nat
              /\ pc = "busid" => sent[h].kind = "import"
              /\ pc = "data" => h = request /\ sent[h].kind = "submit"
<1>1. PICK i \in 1 .. Len(sent) :
          /\ i \in 1 .. MaxSent /\ InHand = {i} /\ i \notin Headers
          /\ \A j \in Unserved : i <= j
          /\ pc = "busid" => i = 1 /\ sent[i].kind = "import"
          /\ pc = "data" => i = request
          /\ DataLength(sent[i]) # 0 =>
                (stream # << >> => stream[1].msg = i /\ stream[1].part = 3)
  BY InHandFirst DEF Serving
<1>2. DataLength(sent[i]) = n /\ n \in Nat
  <2>1. DataLength(sent[i]) \in Nat
    BY SentRequest DEF Serving, IInv, AllTypeOK
  <2> QED BY <1>1, <2>1 DEF DataLength
<1>3. Unserved' = Unserved \ {i} /\ i \in Unserved
  BY <1>1, <1>2, BodyServed DEF Serving
<1>4. pc = "data" => sent[i].kind = "submit"
  BY <1>1 DEF Serving, SessionInv, KindInv, Reading
<1>5. Served(i)
  BY <1>1, <1>3 DEF Served, Serving
<1> QED BY <1>1, <1>2, <1>4, <1>5

LEMMA OpStep ==
    ASSUME Serving, RecvOp \/ (Python /\ PyRecvOp)
    PROVE  SessionStep
<1>1. /\ Recv(2) /\ At("hello") /\ ~exited /\ pc = "hello"
      /\ UNCHANGED <<build, count, bsize, sent, answers, link>>
  BY DEF RecvOp, PyRecvOp, ShortHeader, NoHeader, Receives, SendReply, deviceVars, clientVars,
     At
<1>2. Attended'
  BY DEF RecvOp, PyRecvOp, ShortHeader, NoHeader, SendReply, clientVars, Serving, Attended
<1>3. /\ ~NoHeader /\ ~ShortHeader /\ ~RecvIsShort(2)
  BY <1>1, <1>2, HeaderStep
<1>4. PICK h \in 1 .. Len(sent) :
          /\ h = Header /\ h \in 1 .. MaxSent
          /\ pc' \in {"hello", "urb"} => Served(h)
          /\ pc' = "busid" /\ h = 1 => Unserved' = Unserved
  BY <1>1, <1>2, HeaderStep
<1>5. inbuf # << >>
  BY <1>1 DEF Recv, Serving
<1>6. \/ /\ Receives("devlist") /\ pc' = "hello"
         /\ phase' = IF NoDeviceList(build) THEN phase ELSE "listed"
      \/ Receives("import") /\ pc' = "busid" /\ UNCHANGED phase
  <2>1. CASE RecvOp
    BY <1>1, <1>3, <2>1 DEF RecvOp, SendReply, clientVars, Serving
  <2>2. CASE Python /\ PyRecvOp
    <3>1. ~NoDeviceList(build)
      BY <2>2 DEF Python, PyBuilds, NoDeviceList
    <3> QED BY <1>1, <1>3, <1>5, <2>2, <3>1 DEF PyRecvOp, SendReply, clientVars, Serving
  <2> QED BY <2>1, <2>2
<1>7. CASE /\ Receives("devlist") /\ pc' = "hello"
           /\ phase' = IF NoDeviceList(build) THEN phase ELSE "listed"
  <2>1. Served(h) /\ sent[h].kind = "devlist"
    BY <1>4, <1>7 DEF Receives
  <2> QED BY <1>1, <1>7, <2>1, ListServed, ServedSteps DEF SessionStep
<1>8. CASE Receives("import") /\ pc' = "busid" /\ UNCHANGED phase
  <2>1. sent[h].kind = "import"
    BY <1>4, <1>8 DEF Receives
  <2>2. h = 1
    <3>1. h \notin 2 .. Len(sent)
      BY <2>1 DEF Serving, IInv, SentInv
    <3> QED BY <3>1
  <2> QED BY <1>1, <1>4, <1>8, <2>2, Stutters DEF SessionStep
<1> QED BY <1>6, <1>7, <1>8

LEMMA BusidStep ==
    ASSUME Serving, RecvBusid \/ PyRecvBusid
    PROVE  SessionStep
<1>1. /\ Recv(2) /\ At("busid") /\ ~exited /\ pc = "busid"
      /\ UNCHANGED <<build, count, bsize, sent, answers, link>>
  BY DEF RecvBusid, PyRecvBusid, SendReply, deviceVars, clientVars, At
<1>2. ~RecvIsShort(2)
  BY <1>1, BusidNotShort DEF Serving
<1>3. phase' = "attached" /\ pc' \in {"hello", "urb"}
  BY <1>2 DEF RecvBusid, PyRecvBusid, SendReply, Serving
<1>4. Attended'
  BY <1>3 DEF Attended
<1>5. PICK h \in 1 .. Len(sent) : Served(h) /\ sent[h].kind = "import"
  BY <1>1, <1>3, <1>4, BodyStep
<1> QED BY <1>1, <1>3, <1>5, ImportServed, ServedSteps DEF SessionStep

LEMMA CmdStep ==
    ASSUME Serving, RecvCmd, ~Python
    PROVE  SessionStep
<1>1. /\ Recv(2) /\ ~exited /\ pc = "urb" /\ UNCHANGED <<build, sent, phase>>
  BY DEF RecvCmd, ShortHeader, NoHeader, Submit, SubmitWithData, Unlink, clientVars, At
<1>2. Attended'
  BY <1>1 DEF Serving, Attended
<1>3. ~NoHeader /\ ~ShortHeader
  BY <1>1, <1>2, HeaderStep
<1>4. PICK h \in 1 .. Len(sent) :
          /\ h = Header /\ h \in 1 .. MaxSent
          /\ pc' \in {"hello", "urb"} => Served(h)
          /\ pc' = "data" /\ request' = h => Unserved' = Unserved
  BY <1>1, <1>2, HeaderStep
<1>5. CASE Submit
  <2>1. /\ sent[h].kind = "submit" /\ Served(h) /\ ~Reads(build, sent[h].req)
        /\ SendAnswers(h, AnswersTo(sent[h].req, 0)) /\ DeviceStep(sent[h].req, 0)
    BY <1>4, <1>5 DEF Submit, Receives
  <2>2. CountReport(sent[h].req)
    BY <2>1 DEF DeviceStep
  <2>3. Sessions!Submit(h)
    BY <1>1, <2>1, <2>2, SubmitServed DEF Serving
  <2> QED BY <2>1, <2>3, ServedSteps DEF SessionStep
<1>6. CASE SubmitWithData
  BY <1>1, <1>4, <1>6, Stutters DEF SubmitWithData, deviceVars, clientVars, SessionStep
<1>7. CASE Unlink
  <2>1. /\ sent[h].kind = "unlink" /\ Served(h) /\ UNCHANGED <<count, bsize>>
        /\ SendAnswers(h, IF build = "bt" THEN Done ELSE Silence)
    BY <1>4, <1>7 DEF Unlink, Receives, deviceVars
  <2>2. Sessions!Unlink(h)
    BY <1>1, <2>1, UnlinkServed DEF Serving
  <2> QED BY <2>1, <2>2, ServedSteps DEF SessionStep
<1> QED BY <1>3, <1>5, <1>6, <1>7 DEF RecvCmd

LEMMA DataStep ==
    ASSUME Serving, RecvData, ~Python
    PROVE  SessionStep
<1> DEFINE len == DataLength(sent[request])
           got == Least(len, Len(inbuf))
           r   == sent[request].req
<1>1. /\ Recv(len) /\ At("data") /\ ~exited /\ pc = "data" /\ UNCHANGED <<build, sent, phase>>
  BY DEF RecvData, At
<1>2. len \in Nat /\ got = len
  BY <1>1, DataNotShort DEF Serving
<1>3. /\ pc' = "urb" /\ DeviceStep(r, got) /\ SendAnswers(request, AnswersTo(r, got))
  BY <1>2 DEF RecvData
<1>4. Attended'
  BY <1>1 DEF Serving, Attended
<1>5. PICK h \in 1 .. Len(sent) : h = request /\ Served(h) /\ sent[h].kind = "submit"
  BY <1>1, <1>3, <1>4, BodyStep
<1>6. got = r.length \/ ~Reads(build, r) \/ (r.in /\ r.ep # 0)
  <2>1. r.in /\ r.ep = 0 => ~Reads(build, r)
    <3>1. r.in /\ r.ep = 0 => r \notin Asks[build] \/ r.type >= \h80
      BY <1>5, ServerAssumption DEF Serving, IInv, AllTypeOK, TypeOK
    <3>2. r \in Request /\ r \in Asks[build] \cup {NoData}
      BY <1>5, SentRequest DEF Serving, IInv, AllTypeOK, SentInv
    <3>3. NoData.type = 0 /\ NoData.ep = 0
      BY DEF NoData
    <3> QED BY <3>1, <3>2, <3>3 DEF Reads, ReportIn, LineCodingIn, SerialIn, FrameIn, CommandIn, Request
  <2> QED BY <1>2, <1>5, <2>1 DEF DataLength
<1>7. CountReport(r)
  BY <1>3 DEF DeviceStep
<1> HIDE DEF len, got
<1>8. Sessions!Submit(request)
  BY <1>1, <1>3, <1>5, <1>6, <1>7, SubmitServed DEF Serving
<1> QED BY <1>5, <1>8, ServedSteps DEF SessionStep

LEMMA PyCmdStep ==
    ASSUME Serving, PyRecvCmd, Python
    PROVE  SessionStep
<1>1. /\ Recv(2) /\ ~exited /\ pc = "hello" /\ UNCHANGED <<build, bsize, sent, phase>>
  BY DEF PyRecvCmd, NoHeader, PyRequest, clientVars, At
<1>2. Attended'
  BY <1>1 DEF Serving, Attended
<1>3. ~NoHeader /\ ~RecvIsShort(2)
  BY <1>1, <1>2, HeaderStep
<1>4. PICK h \in 1 .. Len(sent) :
          /\ h = Header /\ h \in 1 .. MaxSent
          /\ pc' \in {"hello", "urb"} => Served(h)
          /\ pc' = "data" /\ request' = h => Unserved' = Unserved
  BY <1>1, <1>2, HeaderStep
<1>5. PyRequest
  BY <1>3 DEF PyRecvCmd
<1>6. CASE Taken(build, sent[h].req)
  <2>1. pc' = "data" /\ request' = h /\ UNCHANGED <<count, answers>>
    BY <1>4, <1>5, <1>6 DEF PyRequest
  <2> QED BY <1>1, <1>4, <2>1, Stutters DEF SessionStep
<1>7. CASE ~Taken(build, sent[h].req)
  <2>1. /\ SendAnswers(h, PyAnswers(sent[h].req)) /\ CountReport(sent[h].req)
        /\ pc' = pc /\ sent[h].kind \in {"submit", "unlink"}
    BY <1>4, <1>5, <1>7 DEF PyRequest, Handle, Receives
  <2>2. Served(h)
    BY <1>1, <1>4, <2>1
  <2>3. CASE sent[h].kind = "submit"
    <3>1. Sessions!Submit(h)
      BY <1>1, <2>1, <2>2, <2>3, SubmitServed DEF Serving
    <3> QED BY <2>2, <3>1, ServedSteps DEF SessionStep
  <2>4. CASE sent[h].kind = "unlink"
    <3>1. sent[h].req = NoData
      BY <2>4 DEF Serving, SessionInv, KindInv
    <3>2. UNCHANGED count
      BY <2>1, <3>1 DEF CountReport, SendsReport, NoData
    <3>3. build # "bt" /\ PyAnswers(sent[h].req) = Silence
      <4>1. build \in Builds \cup PyBuilds /\ build # "bt"
        BY SentRequest DEF Python, PyBuilds, Serving, IInv, AllTypeOK
      <4> QED BY <3>1, <4>1, NoDataUnanswered
    <3>4. Sessions!Unlink(h)
      BY <1>1, <2>1, <2>2, <2>4, <3>2, <3>3, UnlinkServed DEF Serving
    <3> QED BY <2>2, <3>4, ServedSteps DEF SessionStep
  <2> QED BY <2>1, <2>3, <2>4
<1> QED BY <1>6, <1>7

LEMMA PyDataStep ==
    ASSUME Serving, PyRecvData, Python
    PROVE  SessionStep
<1>1. /\ Recv(DataLength(sent[request])) /\ ~exited /\ pc = "data" /\ pc' = "hello"
      /\ UNCHANGED <<build, bsize, sent, phase>>
      /\ SendAnswers(request, PyAnswers(sent[request].req)) /\ CountReport(sent[request].req)
  BY DEF PyRecvData, At, Handle
<1>2. Attended'
  BY <1>1 DEF Serving, Attended
<1>3. PICK h \in 1 .. Len(sent) : h = request /\ Served(h) /\ sent[h].kind = "submit"
  BY <1>1, <1>2, BodyStep
<1>4. Sessions!Submit(h)
  BY <1>1, <1>3, SubmitServed DEF Serving
<1> QED BY <1>3, <1>4, ServedSteps DEF SessionStep

\* What the process does to its device, also when its client has left.
DeviceMoves ==
    \/ UNCHANGED <<count, bsize>>
    \/ \E r \in Asks[build] : \E n \in 0 .. r.length : Sessions!Handles(r, n)

LEMMA RequestMoves ==
    ASSUME IInv, NEW h \in 1 .. Len(sent), NEW got \in Nat, build' = build,
           got <= sent[h].req.length, CountReport(sent[h].req),
           DeviceStep(sent[h].req, got) \/ (Python /\ UNCHANGED bsize)
    PROVE  DeviceMoves
<1>1. PICK r : r = sent[h].req
  OBVIOUS
<1>2. TypeOK /\ (build = "acm" /\ r.ep = 1 => r.in) /\ r \in Request
  BY <1>1, SentRequest DEF IInv, AllTypeOK
<1>3. Sessions!Handles(r, got)
  BY <1>1, <1>2, SameDevice
<1>4. r \in Asks[build] \cup {NoData}
  BY <1>1 DEF IInv, SentInv
<1>5. CASE r = NoData
  <2>1. r.ep = 0
    BY <1>5 DEF NoData
  <2> QED BY <1>3, <2>1 DEF Sessions!Handles, DeviceMoves
<1>6. CASE r \in Asks[build]
  <2>1. got \in 0 .. r.length
    BY <1>1, <1>2 DEF Request
  <2> QED BY <1>3, <1>6, <2>1 DEF DeviceMoves
<1> QED BY <1>4, <1>5, <1>6

LEMMA RunsDevice ==
    ASSUME IInv, KindInv, Runs \/ (Python /\ ConnectionReset)
    PROVE  UNCHANGED build /\ DeviceMoves
<1>0. /\ UNCHANGED build
      /\ CloseLink \/ UNCHANGED sent
  BY DEF Runs, Server, PyLoop, Accept, RecvOp, RecvBusid, RecvCmd, RecvData, PyRecvOp,
     PyRecvBusid, PyRecvCmd, PyRecvData, ConnectionReset, ShortHeader, NoHeader, Submit,
     SubmitWithData, Unlink, PyRequest, SendReply, CloseLink, clientVars
<1>1. CASE UNCHANGED <<count, bsize>>
  BY <1>0, <1>1 DEF DeviceMoves
<1>2. CASE \/ Accept \/ RecvOp \/ RecvBusid \/ CloseLink \/ PyRecvOp \/ PyRecvBusid
           \/ ConnectionReset
  BY <1>1, <1>2 DEF Accept, RecvOp, RecvBusid, CloseLink, PyRecvOp, PyRecvBusid,
     ConnectionReset, ShortHeader, NoHeader, deviceVars
<1>3. CASE RecvCmd
  <2>1. CASE ~Submit
    BY <1>1, <1>3, <2>1 DEF RecvCmd, ShortHeader, NoHeader, SubmitWithData, Unlink, deviceVars
  <2>2. CASE Submit
    <3>1. /\ Recv(2) /\ ~RecvIsShort(2) /\ IsHeader /\ UNCHANGED sent
          /\ DeviceStep(sent[Header].req, 0)
      BY <1>3, <2>2 DEF RecvCmd, Submit, Receives
    <3>2. PICK h \in 1 .. Len(sent) : h = Header
      BY <3>1, ReceivesHeader
    <3>3. 0 \in Nat /\ 0 <= sent[h].req.length
      BY SentRequest DEF Request, IInv, AllTypeOK
    <3>4. CountReport(sent[h].req)
      BY <3>1, <3>2 DEF DeviceStep
    <3> QED BY <1>0, <3>1, <3>2, <3>3, <3>4, RequestMoves
  <2> QED BY <2>1, <2>2
<1>4. CASE RecvData
  <2> DEFINE len == DataLength(sent[request])
             got == Least(len, Len(inbuf))
  <2>1. At("data") /\ (UNCHANGED <<count, bsize>> \/ DeviceStep(sent[request].req, got))
    BY <1>4 DEF RecvData, deviceVars
  <2>2. PICK h \in 1 .. Len(sent) : h = request
    BY <2>1, ReceivesData
  <2>3. sent[h].kind = "submit"
    BY <2>1, <2>2 DEF KindInv, Reading, At
  <2>4. len \in Nat /\ Len(inbuf) \in Nat /\ sent[h].req.length \in Nat
    BY <2>2, SentRequest, StreamUnits DEF Request, IInv, AllTypeOK
  <2>5. len <= sent[h].req.length
    BY <2>2, <2>3, <2>4 DEF DataLength
  <2>6. got \in Nat /\ got <= len
    <3>1. \A l \in Nat : Least(l, Len(inbuf)) \in Nat /\ Least(l, Len(inbuf)) <= l
      BY <2>4 DEF Least
    <3> QED BY <2>4, <3>1
  <2> HIDE DEF len, got
  <2>7. got <= sent[h].req.length
    BY <2>4, <2>5, <2>6
  <2>8. CASE DeviceStep(sent[request].req, got)
    <3>1. CountReport(sent[h].req) /\ DeviceStep(sent[h].req, got)
      BY <2>2, <2>8 DEF DeviceStep
    <3> QED BY <1>0, <2>6, <2>7, <3>1, RequestMoves
  <2> QED BY <1>1, <2>1, <2>8
<1>5. ASSUME NEW h \in 1 .. Len(sent), Handle(h), Python, UNCHANGED bsize
      PROVE  DeviceMoves
  <2>1. 0 \in Nat /\ 0 <= sent[h].req.length
    BY SentRequest DEF Request, IInv, AllTypeOK
  <2>2. CountReport(sent[h].req)
    BY <1>5 DEF Handle
  <2> QED BY <1>0, <1>5, <2>1, <2>2, RequestMoves
<1>6. CASE Python /\ PyRecvCmd
  <2>1. UNCHANGED bsize /\ (UNCHANGED count \/ (PyRequest /\ Handle(Header)))
    BY <1>6 DEF PyRecvCmd, NoHeader, PyRequest, deviceVars
  <2>2. CASE PyRequest /\ Handle(Header)
    <3>1. Recv(2) /\ ~RecvIsShort(2) /\ IsHeader /\ UNCHANGED sent
      BY <1>6, <2>2 DEF PyRecvCmd, PyRequest, Receives
    <3>2. PICK h \in 1 .. Len(sent) : h = Header
      BY <3>1, ReceivesHeader
    <3> QED BY <1>0, <1>5, <1>6, <2>1, <2>2, <3>2
  <2> QED BY <1>1, <2>1, <2>2
<1>7. CASE Python /\ PyRecvData
  <2>1. At("data") /\ Handle(request) /\ UNCHANGED bsize
    BY <1>7 DEF PyRecvData
  <2>2. PICK h \in 1 .. Len(sent) : h = request
    BY <2>1, ReceivesData
  <2> QED BY <1>0, <1>5, <1>7, <2>1, <2>2
<1> QED BY <1>0, <1>2, <1>3, <1>4, <1>6, <1>7 DEF Runs, Server, PyLoop

\* Nobody sees more of that.
LEMMA AwayStep ==
    ASSUME IInv, ServesInv, SessionInv, ~Attended, Runs \/ (Python /\ ConnectionReset)
    PROVE  SessionStep
<1>1. UNCHANGED build /\ DeviceMoves
  BY RunsDevice DEF SessionInv
<1>2. link # "up"
  BY DEF SessionInv, LinkInv
<1>3. UNCHANGED phase
  <2>1. CASE CloseLink
    <3>1. pc = "close"
      BY <2>1 DEF CloseLink, At
    <3> QED BY <2>1, <3>1 DEF CloseLink, ServesInv, Attended
  <2>2. CASE ~CloseLink
    BY <1>2, <2>2 DEF Runs, Server, PyLoop, Accept, RecvOp, RecvBusid, RecvCmd, RecvData,
       PyRecvOp, PyRecvBusid, PyRecvCmd, PyRecvData, ConnectionReset, ShortHeader, NoHeader,
       Submit, SubmitWithData, Unlink, PyRequest, SendReply, clientVars
  <2> QED BY <2>1, <2>2
<1>4. ~Attended'
  BY <1>3 DEF Attended
<1>5. CASE UNCHANGED <<count, bsize>>
  BY <1>1, <1>3, <1>4, <1>5, Stutters DEF SessionStep
<1>6. CASE \E r \in Asks[build] : \E n \in 0 .. r.length : Sessions!Handles(r, n)
  <2>1. Sessions!Leftover
    BY <1>1, <1>3, <1>4, <1>6 DEF Sessions!Leftover, Attended
  <2> QED BY <2>1 DEF Sessions!Next, Sessions!Server, SessionStep
<1> QED BY <1>1, <1>5, <1>6 DEF DeviceMoves

\* The client's own steps.
LEMMA ConnectStep ==
    ASSUME IInv, SessionInv, NEW m \in {DevList, Import}, NEW next \in Phase \ {"away"},
           Connect(m, next), UNCHANGED attached
    PROVE  Sessions!Connect(m.kind, next)
<1>1. /\ sent' = <<m>> /\ phase = "away" /\ phase' = next /\ answers' = << >>
      /\ UNCHANGED <<build, pc, count, bsize, inbuf>> /\ onWay' = Units(1, m) /\ link = "down"
  BY DEF Connect, serverVars, deviceVars
<1>2. pc = "accept" /\ inbuf = << >>
  BY <1>1 DEF IInv, SentInv
<1>3. m = Message(m.kind, NoData) /\ DataLength(m) \in Nat
  BY DEF DevList, Import, Message, DataLength
<1>4. Headers' = {1}
  <2>1. 1 \in 1 .. MaxSent
    BY ServerAssumption
  <2>2. /\ onWay' \in Seq(Unit) /\ Len(onWay') \in Nat /\ Len(onWay') >= 2
        /\ \A k \in 1 .. Len(onWay') : onWay'[k].msg = 1 /\ onWay'[k].part = k
    BY <1>1, <1>3, <2>1, UnitsOf
  <2>3. inbuf' = << >> /\ inbuf' \in Seq(Unit)
    BY <1>1, <1>2
  <2>4. stream' = onWay'
    BY <2>2, <2>3, ConcatEmptySeq DEF stream
  <2>5. 1 \in 1 .. Len(stream') /\ stream'[1].part = 1 /\ stream'[1].msg = 1
    BY <2>2, <2>4
  <2>6. \A p \in 1 .. Len(stream') : stream'[p].msg = 1
    BY <2>2, <2>4
  <2> QED BY <2>5, <2>6 DEF Headers
<1>5. InHand' = {} /\ Unserved' = Headers' \cup InHand'
  BY <1>1, <1>2 DEF InHand, Unserved, Headers, stream
<1>6. Attended' /\ ~Attended
  BY <1>1 DEF Attended
<1>7. Sessions!Message(m.kind, Sessions!NoData) = m
  BY <1>3 DEF Sessions!Message, Message, Sessions!NoData, NoData
<1> QED BY <1>1, <1>4, <1>5, <1>6, <1>7 DEF Sessions!Connect, Sessions!device

LEMMA SendStep ==
    ASSUME IInv, NEW kind \in {"submit", "unlink"}, NEW r \in Asks[build] \cup {NoData},
           Sends(Message(kind, r))
    PROVE  Sessions!Send(kind, r)
<1>1. PICK m : m = Message(kind, r) /\ m \in MessageType /\ DataLength(m) \in Nat
  BY MessageSent
<1>2. PICK new : new = Units(Len(sent) + 1, m)
  OBVIOUS
<1>3. /\ Len(new) \in Nat /\ Len(new) = 2 + DataLength(m)
      /\ Len(stream) \in Nat /\ Len(stream') = Len(stream) + Len(new)
      /\ \A p \in 1 .. Len(stream) : stream'[p] = stream[p]
      /\ \A p \in Len(stream) + 1 .. Len(stream') :
           stream'[p].msg = Len(sent) + 1 /\ stream'[p].part = p - Len(stream)
  BY <1>1, <1>2, SendsAppends
<1>4. Headers' = Headers \cup {Len(sent) + 1}
  <2>1. ASSUME NEW p \in 1 .. Len(stream'), stream'[p].part = 1
        PROVE  stream'[p].msg \in Headers \cup {Len(sent) + 1}
    <3>1. p \in 1 .. Len(stream) \/ p \in Len(stream) + 1 .. Len(stream')
      BY <1>3
    <3> QED BY <1>3, <2>1, <3>1 DEF Headers
  <2>2. Headers \subseteq Headers'
    <3>1. \A p \in 1 .. Len(stream) : p \in 1 .. Len(stream') /\ stream'[p] = stream[p]
      BY <1>3
    <3> QED BY <3>1 DEF Headers
  <2>3. Len(sent) + 1 \in Headers'
    <3>1. PICK p : p = Len(stream) + 1
      OBVIOUS
    <3>2. /\ p \in Len(stream) + 1 .. Len(stream') /\ p \in 1 .. Len(stream')
          /\ p - Len(stream) = 1
      BY <1>1, <1>3, <3>1
    <3>3. stream'[p].msg = Len(sent) + 1 /\ stream'[p].part = 1
      BY <1>3, <3>2
    <3> QED BY <3>2, <3>3 DEF Headers
  <2> QED BY <2>1, <2>2, <2>3 DEF Headers
<1>5. /\ phase = "attached" /\ sent' = Append(sent, Message(kind, r))
      /\ UNCHANGED <<build, pc, request, count, bsize, phase, answers>>
  BY DEF Sends, serverVars, deviceVars
<1>6. Unserved' = Unserved \cup {Len(sent) + 1}
  <2>1. InHand' = InHand
    BY <1>5 DEF InHand
  <2>2. Unserved' = Headers' \cup InHand'
    BY DEF Unserved, Headers, InHand, stream
  <2> QED BY <1>4, <2>1, <2>2, UnservedIs
<1>7. Attended /\ Attended'
  BY <1>5 DEF Attended
<1>8. Sessions!Message(kind, r) = Message(kind, r)
  BY DEF Sessions!Message, Message
<1> QED BY <1>5, <1>6, <1>7, <1>8 DEF Sessions!Send, Sessions!device

LEMMA ClientStep ==
    ASSUME IInv, SessionInv, Client, UNCHANGED attached
    PROVE  SessionStep
<1>1. CASE List
  <2>1. Connect(DevList, "lists") /\ DevList.kind = "devlist" /\ "lists" \in Phase \ {"away"}
    BY <1>1 DEF List, DevList, Message, Phase
  <2>2. Sessions!Connect("devlist", "lists")
    BY <2>1, ConnectStep
  <2> QED BY <2>2 DEF Sessions!Next, Sessions!Client, SessionStep
<1>2. CASE Attach
  <2>1. Connect(Import, "imports") /\ Import.kind = "import" /\ "imports" \in Phase \ {"away"}
    BY <1>2 DEF Attach, Import, Message, Phase
  <2>2. Sessions!Connect("import", "imports")
    BY <2>1, ConnectStep
  <2> QED BY <2>2 DEF Sessions!Next, Sessions!Client, SessionStep
<1>3. CASE Ask
  <2>1. PICK r \in Asks[build] : Sends(Message("submit", r))
    BY <1>3 DEF Ask
  <2>2. Sessions!Send("submit", r)
    BY <2>1, SendStep
  <2> QED BY <2>2 DEF Sessions!Next, Sessions!Client, SessionStep
<1>4. CASE GiveUp
  <2>1. Sends(Message("unlink", NoData))
    BY <1>4 DEF GiveUp
  <2>2. Sessions!Send("unlink", NoData)
    BY <2>1, SendStep
  <2>3. Sessions!NoData = NoData
    BY DEF Sessions!NoData, NoData
  <2> QED BY <2>2, <2>3 DEF Sessions!Next, Sessions!Client, SessionStep
<1>5. CASE Leave
  <2>1. /\ link = "up" /\ phase' = "away" /\ UNCHANGED <<build, count, bsize>>
    BY <1>5 DEF Leave, serverVars, deviceVars
  <2>2. Attended /\ ~Attended'
    BY <2>1 DEF SessionInv, LinkInv, Attended
  <2>3. Sessions!Leave
    BY <2>1, <2>2 DEF Sessions!Leave, Sessions!device, Attended
  <2> QED BY <2>3 DEF Sessions!Next, Sessions!Client, SessionStep
<1> QED BY <1>1, <1>2, <1>3, <1>4, <1>5 DEF Client

LEMMA StepSessions ==
    ASSUME IInv, AlignedInv, ServesInv, SessionInv, [AllNext]_allVars
    PROVE  SessionStep
<1>1. CASE UNCHANGED allVars \/ Delivers
  <2>1. UNCHANGED <<build, pc, request, count, bsize, phase, sent, answers>>
    BY <1>1 DEF allVars, vars, Delivers, Deliver, serverVars, deviceVars, clientVars
  <2>2. stream' = stream
    BY <1>1, DeliverMoves
       DEF allVars, vars, wireVars, stream, Delivers, IInv, AllTypeOK
  <2>3. Unserved' = Unserved
    <3>1. Headers' = Headers /\ InHand' = InHand
      BY <2>1, <2>2 DEF Headers, InHand
    <3>2. Unserved' = Headers' \cup InHand'
      BY DEF Unserved, Headers, InHand, stream
    <3> QED BY <3>1, <3>2, UnservedIs
  <2> QED BY <2>1, <2>3, Stutters DEF SessionStep
<1>2. CASE Client /\ UNCHANGED attached
  BY <1>2, ClientStep
<1>3. CASE (Runs \/ (Python /\ ConnectionReset)) /\ ~Attended
  BY <1>3, AwayStep
<1>4. CASE Runs /\ Attended
  <2>1. Serving
    BY <1>4 DEF Serving, SessionInv, LinkInv
  <2>2. CASE Accept
    <3>1. UNCHANGED <<build, count, bsize, phase, sent, answers, inbuf, onWay>>
      BY <2>2 DEF Accept, deviceVars, wireVars, clientVars
    <3>2. pc = "accept" /\ pc' = "hello"
      BY <2>2 DEF Accept, At
    <3>3. Unserved' = Unserved
      <4>1. Headers' = Headers /\ InHand' = InHand
        BY <3>1, <3>2 DEF Headers, InHand, stream
      <4>2. Unserved' = Headers' \cup InHand'
        BY DEF Unserved, Headers, InHand, stream
      <4> QED BY <4>1, <4>2, UnservedIs
    <3> QED BY <3>1, <3>3, Stutters DEF SessionStep
  <2>3. ~CloseLink
    BY <2>1 DEF CloseLink, At, Serving, ServesInv
  <2> QED BY <1>4, <2>1, <2>2, <2>3, OpStep, BusidStep, CmdStep, DataStep, PyCmdStep,
          PyDataStep DEF Runs, Server, PyLoop
<1>5. CASE Python /\ ConnectionReset /\ Attended
  BY <1>5 DEF ConnectionReset, SessionInv, LinkInv
<1> QED BY <1>1, <1>2, <1>3, <1>4, <1>5 DEF AllNext

\* With messages that arrive whole, and of which all data are taken, usbip_run and
\* USBContainer.run are UsbIpSession: a client that stays has each of its messages served
\* once, in order and with all of its data, by the device as one request after the other
\* finds it, and nobody hangs up on it.
THEOREM SessionsServed ==
    ASSUME ~Pieces, AllTaken
    PROVE  AllSpec => ImplementsSession
<1>1. AllInit => Sessions!Init /\ SessionInv /\ AlignedInv /\ ServesInv
  <2>1. AllInit => Sessions!Init
    BY DEF AllInit, Init, Sessions!Init, Attended
  <2>2. AllInit => ServesInv
    BY DEF AllInit, Init, ServesInv
  <2> QED BY <2>1, <2>2, SessionInitially, AlignedInitially
<1>2. IInv /\ AlignedInv /\ ServesInv /\ SessionInv /\ [AllNext]_allVars
        => AlignedInv' /\ ServesInv' /\ SessionInv'
  BY StepAligned, StepServes, StepSession
<1>3. IInv /\ AlignedInv /\ ServesInv /\ SessionInv /\ [AllNext]_allVars
        => [Sessions!Next]_Sessions!sessionVars
  BY StepSessions DEF SessionStep
<1> QED BY Invariant, <1>1, <1>2, <1>3, PTL DEF AllSpec, ImplementsSession, Sessions!Spec

-----------------------------------------------------------------------------
(* The server rests when nothing is left to receive.                       *)

\* Before accept() there is more to do than before a message, and there more than
\* before close(); a message that is begun has to be ended.
ToDo == CASE pc = "accept"                -> 3
          [] pc \in {"busid", "data"}     -> 2
          [] pc \in {"hello", "urb"}      -> 1
          [] pc = "close"                 -> 0

\* A unit is delivered and received.
Work == 3 * Len(onWay) + 2 * Len(inbuf) + ToDo

LEMMA WorkIs ==
    ASSUME TypeOK
    PROVE  Work \in Nat /\ ToDo \in Nat /\ Len(inbuf) \in Nat /\ Len(onWay) \in Nat
<1>1. Len(inbuf) \in Nat /\ Len(onWay) \in Nat
  BY StreamUnits
<1>2. ToDo \in Nat
  BY DEF ToDo, TypeOK, PC
<1> QED BY <1>1, <1>2 DEF Work

\* What recv() takes is work done.
LEMMA RecvWorks ==
    ASSUME TypeOK, NEW n \in Nat, Recv(n), ToDo' \in Nat,
           ToDo' < ToDo \/ (n >= 1 /\ ~RecvIsShort(n) /\ ToDo' <= ToDo + 1)
    PROVE  Work' < Work
<1> DEFINE k == Least(n, Len(inbuf))
<1>1. k \in 0 .. Len(inbuf) /\ Len(inbuf') = Len(inbuf) - k /\ onWay' = onWay
  BY RecvTakes
<1>2. ToDo \in Nat /\ Len(inbuf) \in Nat /\ Len(onWay) \in Nat
  BY WorkIs
<1>3. ~RecvIsShort(n) => k = n
  BY <1>2, LeastOf DEF RecvIsShort
<1> HIDE DEF k
<1>4. CASE ToDo' < ToDo
  BY <1>1, <1>2, <1>4 DEF Work
<1>5. CASE n >= 1 /\ ~RecvIsShort(n) /\ ToDo' <= ToDo + 1
  BY <1>1, <1>2, <1>3, <1>5 DEF Work
<1> QED BY <1>4, <1>5

LEMMA RunsWorks ==
    ASSUME IInv, Runs, ~CloseLink, ~exited'
    PROVE  Work' < Work
<1>1. TypeOK
  BY DEF IInv, AllTypeOK
<1>2. CASE Accept
  <2>1. ToDo = 3 /\ ToDo' = 1 /\ UNCHANGED <<onWay, inbuf>>
    BY <1>2 DEF Accept, At, ToDo, wireVars
  <2>2. Len(inbuf) \in Nat /\ Len(onWay) \in Nat
    BY <1>1, WorkIs
  <2> QED BY <2>1, <2>2 DEF Work
<1>3. CASE RecvOp \/ PyRecvOp \/ RecvCmd \/ PyRecvCmd
  <2>1. Recv(2) /\ pc \in {"hello", "urb"}
    BY <1>3 DEF RecvOp, PyRecvOp, RecvCmd, PyRecvCmd, At
  <2>2. ToDo = 1
    BY <2>1 DEF ToDo
  <2>3. \/ pc' = "close"
        \/ ~RecvIsShort(2) /\ pc' \in {"hello", "urb", "busid", "data"}
    BY <1>3, <2>1 DEF RecvOp, PyRecvOp, RecvCmd, PyRecvCmd, ShortHeader, NoHeader, Receives,
       SendReply, Submit, SubmitWithData, Unlink, PyRequest, Raise
  <2>4. ToDo' = 0 \/ (~RecvIsShort(2) /\ ToDo' \in {1, 2})
    <3>1. CASE pc' = "close"
      BY <3>1 DEF ToDo
    <3>2. CASE ~RecvIsShort(2) /\ pc' \in {"hello", "urb", "busid", "data"}
      <4>1. ToDo' \in {1, 2}
        BY <3>2 DEF ToDo
      <4> QED BY <3>2, <4>1
    <3> QED BY <2>3, <3>1, <3>2
  <2>5. 2 \in Nat /\ ToDo' \in Nat
    BY <2>4
  <2>6. ToDo' < ToDo \/ (2 >= 1 /\ ~RecvIsShort(2) /\ ToDo' <= ToDo + 1)
    BY <2>2, <2>4
  <2> QED BY <1>1, <2>1, <2>5, <2>6, RecvWorks
<1>4. CASE RecvBusid \/ PyRecvBusid
  <2>1. Recv(2) /\ pc = "busid" /\ pc' \in {"hello", "urb", "close"}
    BY <1>4 DEF RecvBusid, PyRecvBusid, At
  <2>2. 2 \in Nat /\ ToDo' \in Nat /\ ToDo' < ToDo
    BY <2>1 DEF ToDo
  <2> QED BY <1>1, <2>1, <2>2, RecvWorks
<1>5. CASE RecvData \/ PyRecvData
  <2>1. /\ Recv(DataLength(sent[request])) /\ pc = "data" /\ pc' \in {"hello", "urb"}
        /\ At("data")
    BY <1>5 DEF RecvData, PyRecvData, At
  <2>2. ToDo' \in Nat /\ ToDo' < ToDo
    BY <2>1 DEF ToDo
  <2>3. DataLength(sent[request]) \in Nat
    <3>1. PICK h \in 1 .. Len(sent) : h = request
      BY <2>1, ReceivesData
    <3> QED BY <1>1, <3>1, SentRequest DEF IInv
  <2> QED BY <1>1, <2>1, <2>2, <2>3, RecvWorks
<1> QED BY <1>2, <1>3, <1>4, <1>5 DEF Runs, Server, PyLoop

\* What is on the way gets nearer.
LEMMA DeliverWorks ==
    ASSUME IInv, Deliver
    PROVE  Work' < Work
<1>1. TypeOK
  BY DEF IInv, AllTypeOK
<1>2. onWay \in Seq(Unit) /\ inbuf \in Seq(Unit) /\ Len(inbuf) \in Nat /\ Len(onWay) \in Nat
  BY <1>1, StreamUnits
<1>3. PICK n \in 1 .. Len(onWay) : /\ inbuf' = inbuf \o SubSeq(onWay, 1, n)
                                   /\ onWay' = SubSeq(onWay, n + 1, Len(onWay))
  BY DEF Deliver
<1>4. /\ SubSeq(onWay, 1, n) \in Seq(Unit) /\ Len(SubSeq(onWay, 1, n)) = n
      /\ Len(onWay') = Len(onWay) - n
  <2>1. /\ 1 \in 1 .. Len(onWay) + 1 /\ n \in 0 .. Len(onWay) /\ 1 <= n + 1
        /\ n + 1 \in 1 .. Len(onWay) + 1 /\ Len(onWay) \in 0 .. Len(onWay)
        /\ n + 1 <= Len(onWay) + 1
    BY <1>2
  <2>2. SubSeq(onWay, 1, n) \in Seq(Unit) /\ Len(SubSeq(onWay, 1, n)) = n - 1 + 1
    BY <1>2, <2>1, PartOfSeq
  <2>3. Len(SubSeq(onWay, n + 1, Len(onWay))) = Len(onWay) - (n + 1) + 1
    BY <1>2, <2>1, PartOfSeq
  <2> QED BY <1>2, <1>3, <2>2, <2>3
<1>5. Len(inbuf') = Len(inbuf) + n
  BY <1>2, <1>3, <1>4, ConcatProperties
<1>6. ToDo' = ToDo /\ ToDo \in Nat
  BY <1>1, WorkIs DEF Deliver, serverVars, ToDo
<1> QED BY <1>2, <1>4, <1>5, <1>6 DEF Work

\* Between two steps of its client the server takes finitely many, however the stream is
\* cut: each step takes from the work that is left, or ends the process or the connection.
\* No loop of usbip_run or USBContainer.run goes round for nothing, also at the end of the
\* stream, where recv() returns at once.
THEOREM ServerRests ==
    AllSpec => /\ [](Work \in Nat)
               /\ [][sent' = sent /\ link' = link => exited' \/ Work' < Work]_allVars
<1>1. IInv => Work \in Nat
  BY WorkIs DEF IInv, AllTypeOK
<1>2. IInv /\ [AllNext]_allVars =>
          [sent' = sent /\ link' = link => exited' \/ Work' < Work]_allVars
  <2> SUFFICES ASSUME IInv, AllNext, sent' = sent, link' = link, ~exited' PROVE Work' < Work
    OBVIOUS
  <2>1. CASE Runs
    <3>1. ~CloseLink
      <4> SUFFICES ASSUME CloseLink PROVE FALSE
        OBVIOUS
      <4>1. link = "down" /\ pc = "close"
        BY DEF CloseLink, At
      <4> QED BY <4>1 DEF IInv, SentInv
    <3> QED BY <2>1, <3>1, RunsWorks
  <2>2. CASE Delivers
    BY <2>2, DeliverWorks DEF Delivers
  <2>3. CASE Python /\ ConnectionReset
    BY <2>3 DEF ConnectionReset, Raise
  <2>4. CASE List \/ Attach \/ Leave
    BY <2>4 DEF List, Attach, Leave, Connect
  <2>5. CASE Ask \/ GiveUp
    <3>1. PICK kind \in {"submit", "unlink"}, r \in Asks[build] \cup {NoData} :
              Sends(Message(kind, r))
      BY <2>5 DEF Ask, GiveUp
    <3>2. PICK m : m = Message(kind, r) /\ m \in MessageType /\ DataLength(m) \in Nat
      BY MessageSent
    <3>3. PICK new : new = Units(Len(sent) + 1, m)
      OBVIOUS
    <3>4. Len(sent') = Len(sent) + 1 /\ Len(sent) \in Nat
      BY <3>1, <3>2, <3>3, SendsAppends, LenProperties DEF IInv, AllTypeOK, TypeOK
    <3> QED BY <3>4
  <2> QED BY <2>1, <2>2, <2>3, <2>4, <2>5 DEF AllNext, Client
<1> QED BY Invariant, <1>1, <1>2, PTL DEF AllSpec
=============================================================================
