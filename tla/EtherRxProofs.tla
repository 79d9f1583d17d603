--------------------------- MODULE EtherRxProofs ----------------------------
(***************************************************************************)
(* The two threads of the Ethernet gadget, for rings, windows, transfers   *)
(* and connections of every number.  What they do to the ring is what      *)
(* GrantRing allows, so that GrantRingProofs speaks of them (instance RP); *)
(* what they do around it is settled by an invariant of their own.         *)
(***************************************************************************)
EXTENDS EtherRx, SequenceTheorems, TLAPS

RP == INSTANCE GrantRingProofs

Held(i) == seq_array[i] # Ring!NoSeq

RingEmpty == \A i \in Ring!Pos : ~Held(i)

\* The connection's life: a socket from accept() to close(), and grants only
\* between the import and rx_data_process_stop.
Lifecycle ==
    /\ sock # "closed" => conn \in 1 .. MaxConn
    /\ main # "accept" => sock # "closed" \/ exited
    /\ main \in {"accept", "hello", "close"} => RingEmpty

\* rx is enabled by the packet filter request of the present connection.
FilterInv ==
    /\ rx # "none" /\ enable => filtered = conn
    /\ main \in {"accept", "close"} => rx = "none" \/ ~enable
    /\ main = "start" => filtered = conn

\* A slot holds a grant of the present connection as the client submitted it,
\* and slots that the reader comes to later hold later grants.
GrantsInv ==
    /\ \A i \in Ring!Pos : Held(i) =>
          /\ seq_array[i] \in 1 .. Len(asked)
          /\ asked[seq_array[i]].conn = conn
          /\ asked[seq_array[i]].size = size_array[i]
    /\ \A i, j \in Ring!Pos :
          Held(i) /\ Held(j) /\ Ring!Distance(i) < Ring!Distance(j)
             => seq_array[i] < seq_array[j]

\* What rx has answered came before what it is about to answer, and that before
\* what the ring holds.  A grant that rx brought over from an earlier connection
\* is the first it answers on this one.
TakenInv ==
    rx = "header" =>
        /\ taken.seq \in 1 .. Len(asked)
        /\ taken.len \in Sizes
        /\ taken.len <= asked[taken.seq].size
        /\ \A i \in Ring!Pos : Held(i) => taken.seq < seq_array[i]
        /\ \A k \in 1 .. Len(answers) : answers[k].seq < taken.seq
        /\ asked[taken.seq].conn # conn =>
              \A k \in 1 .. Len(answers) : answers[k].conn # conn

AnswersInv ==
    \A k \in 1 .. Len(answers) :
        /\ answers[k].seq \in 1 .. Len(asked)
        /\ answers[k].conn <= conn
        /\ \A i \in Ring!Pos : Held(i) => answers[k].seq < seq_array[i]

ThreadsInv ==
    /\ TypeOK
    /\ Lifecycle
    /\ FilterInv
    /\ GrantsInv
    /\ TakenInv
    /\ AnswersInv
    /\ AnswersInOrder
    /\ OnlyFirstIsStale
-----------------------------------------------------------------------------
(* The ring under the two threads.                                         *)

LEMMA ConstantsOfRing == RP!RingAssumption
  BY EtherAssumption DEF RP!RingAssumption, Seqnums

\* What the ring is given: a seqnum within the bound, a frame of a known length.
InputInv ==
    /\ conn \in 0 .. MaxConn
    /\ asked \in Seq([conn: 0 .. MaxConn, size: Sizes])
    /\ rx = "wait" => frame \in Sizes

LEMMA InputInit == Init => InputInv
  BY EtherAssumption DEF Init, InputInv

LEMMA InputNext == InputInv /\ [Next]_vars => InputInv'
  <1> SUFFICES ASSUME InputInv, [Next]_vars PROVE InputInv'
    OBVIOUS
  <1> USE DEF InputInv
  <1>1. CASE Accept
    BY <1>1, EtherAssumption DEF Accept, history
  <1>2. ASSUME NEW bl \in Sizes, GrantIn(bl) PROVE InputInv'
    <2>1. [conn |-> conn, size |-> bl] \in [conn: 0 .. MaxConn, size: Sizes]
      OBVIOUS
    <2> QED
      BY <1>2, <2>1, AppendProperties DEF GrantIn, sockVars
  <1>3. ASSUME NEW len \in Sizes, ReceiveFrame(len) PROVE InputInv'
    BY <1>3 DEF ReceiveFrame, sockVars, history
  <1>4. ASSUME UNCHANGED <<conn, asked, frame>>, rx' = rx \/ rx' # "wait" PROVE InputInv'
    BY <1>4
  <1>5. ASSUME UNCHANGED <<conn, asked>>, rx' # "wait" PROVE InputInv'
    BY <1>5
  <1>6. ASSUME Requests, ~ \E bl \in Sizes : GrantIn(bl)
        PROVE  UNCHANGED <<conn, asked, frame, rx>>
    BY <1>6 DEF Requests, Import, StatusIn, TxOut, DescriptorIn, SetFilter, Quit,
                sockVars, history
  <1>7. ASSUME MainRuns \/ PeerGone \/ RecvShort
        PROVE  UNCHANGED <<conn, asked, frame>> /\ (rx' = rx \/ rx' # "wait")
    BY <1>7 DEF MainRuns, SendTxData, DescriptorPayload, StartRx, ProcessStop, Close, PeerGone,
                RecvShort, sockVars, history
  <1>8. ASSUME RxRuns PROVE UNCHANGED <<conn, asked>> /\ rx' # "wait"
    BY <1>8 DEF RxRuns, DropFrame, TakeGrant, SendHeader, SendPayload, sockVars, history
  <1>9. CASE UNCHANGED vars
    BY <1>9, <1>4 DEF vars, sockVars, history
  <1> QED
    BY <1>1, <1>2, <1>3, <1>4, <1>5, <1>6, <1>7, <1>8, <1>9 DEF Next

\* Every step of the two threads is a critical section of the ring, or leaves
\* the ring alone.
LEMMA StepsOfRing == InputInv /\ [Next]_vars => [Ring!Next]_Ring!ringVars
  <1> SUFFICES ASSUME InputInv, [Next]_vars
               PROVE  Ring!Next \/ UNCHANGED ringVars
    BY DEF ringVars, Ring!ringVars
  <1>1. ASSUME NEW bl \in Sizes, GrantIn(bl) PROVE Ring!Next
    <2>1. Len(asked) + 1 \in Seqnums
      BY <1>1, EtherAssumption DEF InputInv, GrantIn, Seqnums
    <2> QED
      BY <1>1, <2>1 DEF GrantIn, Ring!Next
  <1>2. CASE TakeGrant
    BY <1>2 DEF TakeGrant, RxAt, InputInv, Ring!Next
  <1>3. CASE StartRx \/ ProcessStop
    BY <1>3 DEF StartRx, ProcessStop, Ring!Next
  <1>4. ASSUME Requests, ~ \E bl \in Sizes : GrantIn(bl)
        PROVE  UNCHANGED ringVars
    BY <1>4 DEF Requests, Import, StatusIn, TxOut, DescriptorIn, SetFilter, Quit
  <1>5. CASE SendTxData \/ DescriptorPayload \/ Close \/ PeerGone \/ RecvShort \/ Accept
    BY <1>5 DEF SendTxData, DescriptorPayload, Close, PeerGone, RecvShort, Accept
  <1>6. CASE DropFrame \/ SendHeader \/ SendPayload
    BY <1>6 DEF DropFrame, SendHeader, SendPayload
  <1>7. ASSUME NEW len \in Sizes, ReceiveFrame(len) PROVE UNCHANGED ringVars
    BY <1>7 DEF ReceiveFrame
  <1>8. CASE UNCHANGED vars
    BY <1>8 DEF vars
  <1> QED
    BY <1>1, <1>2, <1>3, <1>4, <1>5, <1>6, <1>7, <1>8 DEF Next, MainRuns, RxRuns

\* The ring's own specification, under the names of the two instances.
LEMMA SameRing == Ring!Spec => RP!Spec
  BY DEF Ring!Spec, RP!Spec, Ring!Init, RP!Init, Ring!Next, RP!Next,
         Ring!ringVars, RP!ringVars, Ring!Submit, RP!Submit, Ring!Take, RP!Take,
         Ring!Stop, RP!Stop, Ring!Enable, RP!Enable, Ring!Pos, RP!Pos,
         Ring!NoSeq, RP!NoSeq, Ring!Succ, RP!Succ

LEMMA EtherIsRing == Spec => Ring!Spec
  <1>1. Init => InputInv /\ Ring!Init
    BY InputInit DEF Init
  <1> QED
    BY <1>1, InputNext, StepsOfRing, PTL DEF Spec, Ring!Spec

RingInv == Ring!TypeOK /\ Ring!Shape /\ Ring!SizesMatch

LEMMA EtherRingInv ==
    ASSUME Window <= ArraySize
    PROVE  Spec => []RingInv
  <1>1. RP!Spec => [](RP!TypeOK /\ RP!Shape /\ RP!SizesMatch)
    BY ConstantsOfRing, RP!RingTypeCorrect, RP!RingSound, RP!RingSizesMatch, PTL
  <1>2. RP!TypeOK /\ RP!Shape /\ RP!SizesMatch => RingInv
    BY DEF RingInv, RP!TypeOK, Ring!TypeOK, RP!Shape, Ring!Shape, RP!SizesMatch,
           Ring!SizesMatch, RP!Pos, Ring!Pos, RP!NoSeq, Ring!NoSeq, RP!Ahead,
           Ring!Ahead, RP!Distance, Ring!Distance
  <1> QED
    BY <1>1, <1>2, EtherIsRing, SameRing, PTL

\* Both threads together use the ring as the queue that GrantQueue specifies:
\* no interleaving of submissions, frames, disconnections and restarts answers
\* a grant out of turn, twice, or with a frame that is too long.
THEOREM EtherImplementsQueue ==
    ASSUME Window <= ArraySize
    PROVE  Spec => ImplementsQueue
  <1>1. RP!Spec => RP!ImplementsQueue
    BY ConstantsOfRing, RP!RingImplementsQueue
  <1>2. RP!ImplementsQueue => ImplementsQueue
    BY DEF ImplementsQueue, Ring!ImplementsQueue, RP!ImplementsQueue,
           Ring!Queue!Spec, RP!Queue!Spec, Ring!Queue!Init, RP!Queue!Init,
           Ring!Queue!NoUse, RP!Queue!NoUse, Ring!Queue!Next, RP!Queue!Next,
           Ring!Queue!Offer, RP!Queue!Offer, Ring!Queue!TakeOldest, RP!Queue!TakeOldest,
           Ring!Queue!Forget, RP!Queue!Forget, Ring!Queue!Grant, RP!Queue!Grant,
           Ring!Queue!gqVars, RP!Queue!gqVars, Ring!Contents, RP!Contents,
           Ring!Ahead, RP!Ahead
  <1> QED
    BY <1>1, <1>2, EtherIsRing, SameRing, PTL
-----------------------------------------------------------------------------
(* Around the ring: which grants it holds, and what rx makes of them.      *)

\* A submission puts its slot behind all that hold a grant.
LEMMA SubmitPlace ==
    ASSUME RingInv, NEW s, NEW bl, Ring!Submit(s, bl), Window <= ArraySize
    PROVE  /\ next_pos \in Ring!Pos
           /\ Ring!Distance(next_pos) = outstanding
           /\ \A i \in Ring!Pos : /\ Ring!Distance(i) \in Nat
                                  /\ Ring!Distance(i)' = Ring!Distance(i)
                                  /\ Held(i) => Ring!Distance(i) < outstanding
           /\ ~Held(next_pos)
  <1>1. /\ next_pos \in Ring!Pos /\ current_pos \in Ring!Pos
        /\ outstanding \in Nat /\ outstanding < ArraySize
    BY EtherAssumption DEF RingInv, Ring!TypeOK, Ring!Submit
  <1>2. next_pos = IF current_pos + outstanding < ArraySize
                     THEN current_pos + outstanding
                     ELSE current_pos + outstanding - ArraySize
    BY <1>1, EtherAssumption DEF RingInv, Ring!Shape, Ring!Ahead, Ring!Pos
  <1>3. Ring!Distance(next_pos) = outstanding
    BY <1>1, <1>2, EtherAssumption DEF Ring!Distance, Ring!Pos
  <1>4. \A i \in Ring!Pos : /\ Ring!Distance(i) \in Nat
                            /\ Ring!Distance(i)' = Ring!Distance(i)
    BY <1>1, EtherAssumption DEF Ring!Distance, Ring!Pos, Ring!Submit
  <1>5. \A i \in Ring!Pos : Held(i) <=> Ring!Distance(i) < outstanding
    BY DEF RingInv, Ring!Shape, Held
  <1> QED
    BY <1>1, <1>3, <1>4, <1>5

\* The slot that is taken is before all others that hold a grant.
LEMMA TakePlace ==
    ASSUME RingInv, NEW len, Ring!Take(len)
    PROVE  /\ current_pos \in Ring!Pos
           /\ Held(current_pos)
           /\ Ring!Distance(current_pos) = 0
           /\ \A i \in Ring!Pos \ {current_pos} :
                 /\ Ring!Distance(i) \in Nat \ {0}
                 /\ Ring!Distance(i)' = Ring!Distance(i) - 1
  <1>1. current_pos \in Ring!Pos
    BY DEF RingInv, Ring!TypeOK
  <1>2. current_pos' = IF current_pos + 1 = ArraySize THEN 0 ELSE current_pos + 1
    BY <1>1, EtherAssumption DEF Ring!Take, Ring!Succ, Ring!Pos
  <1> QED
    BY <1>1, <1>2, EtherAssumption DEF Ring!Take, Ring!Distance, Ring!Pos, Held

\* What does not touch ring, history or connection, and takes no grant.
LEMMA QuietKeeps ==
    ASSUME ThreadsInv, UNCHANGED <<ringVars, conn, asked, answers>>,
           rx' = "header" => rx = "header"
    PROVE  GrantsInv' /\ TakenInv' /\ AnswersInv' /\ AnswersInOrder' /\ OnlyFirstIsStale'
  <1> USE DEF ThreadsInv, ringVars, Held, Ring!Distance
  <1>1. GrantsInv'
    BY DEF GrantsInv
  <1>2. TakenInv'
    BY DEF TakenInv
  <1>3. AnswersInv'
    BY DEF AnswersInv
  <1>4. AnswersInOrder'
    BY DEF AnswersInOrder
  <1>5. OnlyFirstIsStale'
    BY DEF OnlyFirstIsStale, Stale
  <1> QED
    BY <1>1, <1>2, <1>3, <1>4, <1>5

LEMMA ThreadsInit == Init => ThreadsInv
  <1> SUFFICES ASSUME Init PROVE ThreadsInv
    OBVIOUS
  <1>1. Ring!TypeOK
    BY ConstantsOfRing DEF Init, Ring!Init, Ring!TypeOK, Ring!Pos, RP!RingAssumption
  <1>2. TypeOK
    <2>1. /\ asked \in Seq([conn: 1 .. MaxConn, size: Sizes])
          /\ answers \in Seq([conn: 1 .. MaxConn, seq: Seqnums, len: Sizes])
      BY EmptySeq DEF Init
    <2>2. conn \in 0 .. MaxConn /\ filtered \in 0 .. MaxConn
      BY EtherAssumption DEF Init
    <2>3. exited \in BOOLEAN
      BY DEF Init
    <2> QED
      BY <1>1, <2>1, <2>2, <2>3 DEF Init, TypeOK, MainPC, RxPC, Parser
  <1>3. RingEmpty
    BY DEF Init, Ring!Init, RingEmpty, Held
  <1> QED
    BY <1>2, <1>3 DEF Init, ThreadsInv, Lifecycle, FilterInv, GrantsInv, TakenInv,
           AnswersInv, AnswersInOrder, OnlyFirstIsStale, RingEmpty

LEMMA SendType ==
    ASSUME TypeOK, NEW next \in Parser, Send(next)
    PROVE  parser' \in Parser /\ exited' \in BOOLEAN
  BY DEF Send, TypeOK, sentVars

LEMMA ParserType ==
    /\ AfterHeader \in Parser
    /\ AfterLoaded("main") \in Parser /\ AfterLoaded("rx") \in Parser
    /\ AfterData("main") \in Parser /\ AfterData("rx") \in Parser
  BY DEF AfterHeader, AfterLoaded, AfterData, Parser

\* The invariant is kept when the actions that stay off the ring keep what is
\* not about the ring.
LEMMA QuietStep ==
    ASSUME ThreadsInv, RingInv', UNCHANGED <<ringVars, conn, asked, answers>>,
           rx' = "header" => rx = "header",
           main' \in MainPC, rx' \in RxPC, frame' \in Sizes \cup {0},
           sock' \in {"open", "gone", "closed"},
           exited' \in BOOLEAN, parser' \in Parser, filtered' \in 0 .. MaxConn,
           Lifecycle', FilterInv'
    PROVE  ThreadsInv'
  <1>1. TypeOK'
    BY DEF TypeOK, RingInv, ThreadsInv
  <1> QED
    BY <1>1, QuietKeeps DEF ThreadsInv

LEMMA QuietActions ==
    ASSUME ThreadsInv, RingInv',
           \/ PeerGone \/ Import \/ StatusIn \/ TxOut \/ DescriptorIn
           \/ SendTxData \/ DescriptorPayload \/ SetFilter \/ Quit \/ RecvShort \/ Close
           \/ DropFrame \/ SendPayload \/ \E len \in Sizes : ReceiveFrame(len)
    PROVE  ThreadsInv'
  <1>0. TypeOK /\ Lifecycle /\ FilterInv
    BY DEF ThreadsInv
  <1> USE <1>0 DEF At, RxAt, sockVars, sentVars, history, MainPC, RxPC, TypeOK
  <1>1. CASE PeerGone
    <2>1. parser' \in Parser /\ exited' \in BOOLEAN
      BY <1>1 DEF PeerGone
    <2>2. Lifecycle'
      BY <1>1 DEF PeerGone, Lifecycle, RingEmpty, Held, ringVars
    <2>3. FilterInv'
      BY <1>1 DEF PeerGone, FilterInv, Lifecycle, ringVars
    <2> QED
      BY <1>1, <2>1, <2>2, <2>3, QuietStep DEF PeerGone
  <1>2. CASE Import
    <2>1. parser' \in Parser /\ exited' \in BOOLEAN
      BY <1>2, SendType, ParserType DEF Import
    <2>2. Lifecycle'
      BY <1>2 DEF Import, Lifecycle, RingEmpty, Held, ringVars
    <2>3. FilterInv'
      BY <1>2 DEF Import, FilterInv, Lifecycle, ringVars
    <2> QED
      BY <1>2, <2>1, <2>2, <2>3, QuietStep DEF Import
  <1>3. CASE StatusIn
    <2>1. parser' \in Parser /\ exited' \in BOOLEAN
      BY <1>3, SendType, ParserType DEF StatusIn
    <2>2. Lifecycle'
      BY <1>3 DEF StatusIn, Lifecycle, RingEmpty, Held, ringVars
    <2>3. FilterInv'
      BY <1>3 DEF StatusIn, FilterInv, Lifecycle, ringVars
    <2> QED
      BY <1>3, <2>1, <2>2, <2>3, QuietStep DEF StatusIn
  <1>4. CASE TxOut
    <2>1. parser' \in Parser /\ exited' \in BOOLEAN
      BY <1>4, SendType, ParserType DEF TxOut
    <2>2. Lifecycle'
      BY <1>4 DEF TxOut, Lifecycle, RingEmpty, Held, ringVars
    <2>3. FilterInv'
      BY <1>4 DEF TxOut, FilterInv, Lifecycle, ringVars
    <2> QED
      BY <1>4, <2>1, <2>2, <2>3, QuietStep DEF TxOut
  <1>5. CASE DescriptorIn
    <2>1. parser' \in Parser /\ exited' \in BOOLEAN
      BY <1>5, SendType, ParserType DEF DescriptorIn
    <2>2. Lifecycle'
      BY <1>5 DEF DescriptorIn, Lifecycle, RingEmpty, Held, ringVars
    <2>3. FilterInv'
      BY <1>5 DEF DescriptorIn, FilterInv, Lifecycle, ringVars
    <2> QED
      BY <1>5, <2>1, <2>2, <2>3, QuietStep DEF DescriptorIn
  <1>6. CASE DescriptorPayload
    <2>1. parser' \in Parser /\ exited' \in BOOLEAN
      BY <1>6, SendType, ParserType DEF DescriptorPayload
    <2>2. Lifecycle'
      BY <1>6 DEF DescriptorPayload, Lifecycle, RingEmpty, Held, ringVars
    <2>3. FilterInv'
      BY <1>6 DEF DescriptorPayload, FilterInv, Lifecycle, ringVars
    <2> QED
      BY <1>6, <2>1, <2>2, <2>3, QuietStep DEF DescriptorPayload
  <1>7. CASE SetFilter
    <2>1. parser' \in Parser /\ exited' \in BOOLEAN
      BY <1>7, SendType, ParserType DEF SetFilter
    <2>2. Lifecycle'
      BY <1>7 DEF SetFilter, Lifecycle, RingEmpty, Held, ringVars
    <2>3. FilterInv'
      BY <1>7 DEF SetFilter, FilterInv, Lifecycle, ringVars
    <2> QED
      BY <1>7, <2>1, <2>2, <2>3, QuietStep DEF SetFilter
  <1>8. CASE Quit
    <2>1. parser' \in Parser /\ exited' \in BOOLEAN
      BY <1>8 DEF Quit
    <2>2. Lifecycle'
      BY <1>8 DEF Quit, Lifecycle, RingEmpty, Held, ringVars
    <2>3. FilterInv'
      BY <1>8 DEF Quit, FilterInv, Lifecycle, ringVars
    <2> QED
      BY <1>8, <2>1, <2>2, <2>3, QuietStep DEF Quit
  <1>9. CASE RecvShort
    <2>1. parser' \in Parser /\ exited' \in BOOLEAN
      BY <1>9 DEF RecvShort
    <2>2. Lifecycle'
      BY <1>9 DEF RecvShort, Lifecycle, RingEmpty, Held, ringVars
    <2>3. FilterInv'
      BY <1>9 DEF RecvShort, FilterInv, Lifecycle, ringVars
    <2> QED
      BY <1>9, <2>1, <2>2, <2>3, QuietStep DEF RecvShort
  <1>10. CASE Close
    <2>1. parser' \in Parser /\ exited' \in BOOLEAN
      BY <1>10 DEF Close
    <2>2. Lifecycle'
      BY <1>10 DEF Close, Lifecycle, RingEmpty, Held, ringVars
    <2>3. FilterInv'
      BY <1>10 DEF Close, FilterInv, Lifecycle, ringVars
    <2> QED
      BY <1>10, <2>1, <2>2, <2>3, QuietStep DEF Close
  <1>11. CASE DropFrame
    <2>1. parser' \in Parser /\ exited' \in BOOLEAN
      BY <1>11 DEF DropFrame
    <2>2. Lifecycle'
      BY <1>11 DEF DropFrame, Lifecycle, RingEmpty, Held, ringVars
    <2>3. FilterInv'
      BY <1>11 DEF DropFrame, FilterInv, Lifecycle, ringVars
    <2> QED
      BY <1>11, <2>1, <2>2, <2>3, QuietStep DEF DropFrame
  <1>12. CASE SendPayload
    <2>1. parser' \in Parser /\ exited' \in BOOLEAN
      BY <1>12, SendType, ParserType DEF SendPayload
    <2>2. Lifecycle'
      BY <1>12 DEF SendPayload, Lifecycle, RingEmpty, Held, ringVars
    <2>3. FilterInv'
      BY <1>12 DEF SendPayload, FilterInv, Lifecycle, ringVars
    <2> QED
      BY <1>12, <2>1, <2>2, <2>3, QuietStep DEF SendPayload
  <1>13. ASSUME NEW len \in Sizes, ReceiveFrame(len) PROVE ThreadsInv'
    <2>1. parser' \in Parser /\ exited' \in BOOLEAN
      BY <1>13 DEF ReceiveFrame
    <2>2. Lifecycle'
      BY <1>13 DEF ReceiveFrame, Lifecycle, RingEmpty, Held, ringVars
    <2>3. FilterInv'
      BY <1>13 DEF ReceiveFrame, FilterInv, Lifecycle, ringVars
    <2> QED
      BY <1>13, <2>1, <2>2, <2>3, QuietStep DEF ReceiveFrame
  <1>14. CASE SendTxData
    <2>1. parser' \in Parser /\ exited' \in BOOLEAN
      BY <1>14 DEF SendTxData
    <2>2. Lifecycle'
      BY <1>14 DEF SendTxData, Lifecycle, RingEmpty, Held, ringVars
    <2>3. FilterInv'
      BY <1>14 DEF SendTxData, FilterInv, Lifecycle, ringVars
    <2> QED
      BY <1>14, <2>1, <2>2, <2>3, QuietStep DEF SendTxData
  <1> QED
    BY <1>1, <1>2, <1>3, <1>4, <1>5, <1>6, <1>7, <1>8, <1>9, <1>10, <1>11, <1>12, <1>13, <1>14

\* A new connection has the number after all that were answered, and no grant.
LEMMA AcceptStep ==
    ASSUME ThreadsInv, RingInv', Accept
    PROVE  ThreadsInv'
  <1> USE DEF ThreadsInv, Accept, At, history, ringVars, Held, Ring!Distance
  <1>1. TypeOK'
    <2>1. conn \in 0 .. MaxConn /\ conn' = conn + 1 /\ conn < MaxConn
      BY DEF TypeOK
    <2>2. conn' \in 0 .. MaxConn
      BY <2>1, EtherAssumption
    <2>3. Ring!TypeOK'
      BY DEF RingInv
    <2> QED
      BY <2>2, <2>3 DEF TypeOK, MainPC, Parser
  <1>2. RingEmpty /\ RingEmpty'
    BY DEF Lifecycle, RingEmpty
  <1>3. Lifecycle'
    BY <1>1, <1>2, EtherAssumption DEF Lifecycle, TypeOK
  <1>4. FilterInv'
    BY DEF FilterInv
  <1>5. GrantsInv' /\ AnswersInv' /\ TakenInv'
    <2>1. \A k \in 1 .. Len(answers) : answers[k].conn <= conn' /\ answers[k].conn # conn'
      <3>1. \A k \in 1 .. Len(answers) : answers[k] \in [conn: 1 .. MaxConn, seq: Seqnums, len: Sizes]
        BY ElementOfSeq DEF TypeOK
      <3> QED
        BY <3>1 DEF AnswersInv, TypeOK
    <2>2. AnswersInv'
      BY <1>2, <2>1 DEF AnswersInv, RingEmpty, TypeOK
    <2>3. GrantsInv'
      BY <1>2 DEF GrantsInv, RingEmpty
    <2>4. TakenInv'
      BY <1>2, <2>1 DEF TakenInv, RingEmpty, TypeOK
    <2> QED
      BY <2>2, <2>3, <2>4
  <1>6. AnswersInOrder' /\ OnlyFirstIsStale'
    BY DEF AnswersInOrder, OnlyFirstIsStale, Stale
  <1> QED
    BY <1>1, <1>3, <1>4, <1>5, <1>6

\* A grant goes behind the others, with a number above all that were given out.
LEMMA GrantInStep ==
    ASSUME ThreadsInv, RingInv, RingInv', NEW bl \in Sizes, GrantIn(bl),
           Window <= ArraySize
    PROVE  ThreadsInv'
  <1> DEFINE g == [conn |-> conn, size |-> bl]
             n == Len(asked) + 1
  <1>1. /\ Ring!Submit(n, bl)
        /\ asked' = Append(asked, g)
        /\ UNCHANGED <<main, rx, frame, sock, conn, parser, exited, answers, filtered>>
        /\ ~exited /\ main = "urb" /\ n \in 1 .. MaxSeqnum
    <2>1. Len(asked) \in Nat
      BY LenProperties DEF ThreadsInv, TypeOK
    <2> QED
      BY <2>1, EtherAssumption DEF GrantIn, At, sockVars, sentVars
  <1>2. conn \in 1 .. MaxConn
    BY <1>1 DEF ThreadsInv, Lifecycle
  <1>3. asked \in Seq([conn: 1 .. MaxConn, size: Sizes])
    BY DEF ThreadsInv, TypeOK
  <1>4. /\ asked' \in Seq([conn: 1 .. MaxConn, size: Sizes])
        /\ Len(asked') = n
        /\ asked'[n] = g
        /\ \A k \in 1 .. Len(asked) : asked'[k] = asked[k]
    <2>1. g \in [conn: 1 .. MaxConn, size: Sizes]
      BY <1>2
    <2> HIDE DEF g
    <2> QED
      BY <1>1, <1>3, <2>1, AppendProperties
  <1>5. Len(asked) \in Nat
    BY <1>3, LenProperties
  <1>6. /\ next_pos \in Ring!Pos
        /\ Ring!Distance(next_pos) = outstanding
        /\ \A i \in Ring!Pos : /\ Ring!Distance(i) \in Nat
                               /\ Ring!Distance(i)' = Ring!Distance(i)
                               /\ Held(i) => Ring!Distance(i) < outstanding
        /\ ~Held(next_pos)
    BY <1>1, SubmitPlace
  <1>7. /\ seq_array'[next_pos] = n /\ size_array'[next_pos] = bl
        /\ \A i \in Ring!Pos \ {next_pos} :
              seq_array'[i] = seq_array[i] /\ size_array'[i] = size_array[i]
        /\ enable' = enable /\ taken' = taken
    <2>1. DOMAIN seq_array = Ring!Pos /\ DOMAIN size_array = Ring!Pos
      BY DEF RingInv, Ring!TypeOK
    <2> QED
      BY <1>1, <1>6, <2>1 DEF Ring!Submit
  <1>8. TypeOK'
    BY <1>1, <1>4 DEF TypeOK, RingInv, ThreadsInv
  <1>9. Lifecycle' /\ FilterInv'
    BY <1>1, <1>7 DEF ThreadsInv, Lifecycle, FilterInv
  <1>10. \A i \in Ring!Pos : Held(i)' <=> Held(i) \/ i = next_pos
    BY <1>5, <1>6, <1>7 DEF Held, Ring!NoSeq
  <1>11. \A i \in Ring!Pos : Held(i) =>
            /\ seq_array[i] \in 1 .. Len(asked)
            /\ asked[seq_array[i]].conn = conn
            /\ asked[seq_array[i]].size = size_array[i]
    BY DEF ThreadsInv, GrantsInv
  <1>12. GrantsInv'
    <2>1. ASSUME NEW i \in Ring!Pos, Held(i)'
          PROVE  /\ seq_array'[i] \in 1 .. n
                 /\ asked'[seq_array'[i]].conn = conn
                 /\ asked'[seq_array'[i]].size = size_array'[i]
      <3>1. CASE i = next_pos
        BY <3>1, <1>4, <1>5, <1>7
      <3>2. CASE i # next_pos
        BY <3>2, <2>1, <1>4, <1>5, <1>7, <1>10, <1>11
      <3> QED
        BY <3>1, <3>2
    <2>2. ASSUME NEW i \in Ring!Pos, NEW j \in Ring!Pos, Held(i)', Held(j)',
                 Ring!Distance(i) < Ring!Distance(j)
          PROVE  seq_array'[i] < seq_array'[j]
      <3>1. i # next_pos
        BY <2>2, <1>6, <1>10
      <3>2. Held(i) /\ seq_array'[i] = seq_array[i] /\ seq_array[i] \in 1 .. Len(asked)
        BY <3>1, <2>2, <1>7, <1>10, <1>11
      <3>3. CASE j = next_pos
        BY <3>2, <3>3, <1>5, <1>7
      <3>4. CASE j # next_pos
        BY <3>2, <3>4, <2>2, <1>7, <1>10 DEF ThreadsInv, GrantsInv
      <3> QED
        BY <3>3, <3>4
    <2> QED
      BY <2>1, <2>2, <1>1, <1>4, <1>6 DEF GrantsInv
  <1>13. TakenInv'
    <2> SUFFICES ASSUME rx = "header" PROVE TakenInv'
      BY <1>1 DEF TakenInv
    <2>1. /\ taken.seq \in 1 .. Len(asked)
          /\ taken.len \in Sizes
          /\ taken.len <= asked[taken.seq].size
          /\ \A i \in Ring!Pos : Held(i) => taken.seq < seq_array[i]
          /\ \A k \in 1 .. Len(answers) : answers[k].seq < taken.seq
          /\ asked[taken.seq].conn # conn =>
                \A k \in 1 .. Len(answers) : answers[k].conn # conn
      BY DEF ThreadsInv, TakenInv
    <2>2. \A i \in Ring!Pos : Held(i)' => taken.seq < seq_array'[i]
      BY <2>1, <1>5, <1>7, <1>10
    <2>3. asked'[taken.seq] = asked[taken.seq] /\ taken.seq \in 1 .. n
      BY <2>1, <1>4, <1>5
    <2> QED
      BY <2>1, <2>2, <2>3, <1>1, <1>4, <1>7 DEF TakenInv
  <1>14. AnswersInv'
    <2>1. ASSUME NEW k \in 1 .. Len(answers)
          PROVE  /\ answers[k].seq \in 1 .. Len(asked)
                 /\ answers[k].conn <= conn
                 /\ \A i \in Ring!Pos : Held(i) => answers[k].seq < seq_array[i]
      BY DEF ThreadsInv, AnswersInv
    <2>2. ASSUME NEW k \in 1 .. Len(answers), NEW i \in Ring!Pos, Held(i)'
          PROVE  answers[k].seq < seq_array'[i]
      BY <2>1, <2>2, <1>5, <1>7, <1>10
    <2> QED
      BY <2>1, <2>2, <1>1, <1>4, <1>5 DEF AnswersInv
  <1>15. \A k \in 1 .. Len(answers) : /\ answers[k].seq \in 1 .. Len(asked)
                                     /\ asked'[answers[k].seq] = asked[answers[k].seq]
    BY <1>4 DEF ThreadsInv, AnswersInv
  <1>16. DOMAIN answers = 1 .. Len(answers)
    BY LenProperties DEF ThreadsInv, TypeOK
  <1>17. AnswersInOrder'
    BY <1>1, <1>15, <1>16 DEF ThreadsInv, AnswersInOrder
  <1>18. OnlyFirstIsStale'
    <2>1. \A k \in 1 .. Len(answers) : Stale(k)' <=> Stale(k)
      BY <1>1, <1>15 DEF Stale
    <2>2. OnlyFirstIsStale
      BY DEF ThreadsInv
    <2> QED
      BY <1>1, <1>16, <2>1, <2>2 DEF OnlyFirstIsStale
  <1> QED
    BY <1>8, <1>9, <1>12, <1>13, <1>14, <1>17, <1>18 DEF ThreadsInv

LEMMA StartRxStep ==
    ASSUME ThreadsInv, RingInv', StartRx
    PROVE  ThreadsInv'
  <1>1. /\ UNCHANGED <<seq_array, size_array, current_pos, taken, outstanding>>
        /\ UNCHANGED <<frame, sock, conn, parser, exited, asked, answers, filtered>>
        /\ enable' = TRUE /\ main' = "urb" /\ main = "start"
        /\ rx' = IF rx = "none" THEN "recv" ELSE rx
    BY DEF StartRx, At, Ring!Enable, sockVars, sentVars, history
  <1>2. TypeOK'
    BY <1>1 DEF ThreadsInv, TypeOK, RingInv, MainPC, RxPC
  <1>3. Lifecycle' /\ FilterInv'
    BY <1>1 DEF ThreadsInv, Lifecycle, FilterInv
  <1>4. GrantsInv' /\ AnswersInv' /\ TakenInv'
    BY <1>1 DEF ThreadsInv, GrantsInv, AnswersInv, TakenInv, Held, Ring!Distance
  <1>5. AnswersInOrder' /\ OnlyFirstIsStale'
    BY <1>1 DEF ThreadsInv, AnswersInOrder, OnlyFirstIsStale, Stale
  <1> QED
    BY <1>2, <1>3, <1>4, <1>5 DEF ThreadsInv

LEMMA ProcessStopStep ==
    ASSUME ThreadsInv, RingInv', ProcessStop
    PROVE  ThreadsInv'
  <1>1. /\ UNCHANGED <<rx, frame, sock, conn, parser, exited, asked, answers, filtered, taken>>
        /\ enable' = FALSE /\ main' = "close" /\ main = "stop"
        /\ \A i \in Ring!Pos : ~Held(i)'
    BY DEF ProcessStop, At, Ring!Stop, sockVars, sentVars, history, Held
  <1>2. TypeOK'
    BY <1>1 DEF ThreadsInv, TypeOK, RingInv, MainPC
  <1>3. Lifecycle' /\ FilterInv'
    BY <1>1 DEF ThreadsInv, Lifecycle, FilterInv, RingEmpty
  <1>4. GrantsInv' /\ AnswersInv' /\ TakenInv'
    BY <1>1 DEF ThreadsInv, GrantsInv, AnswersInv, TakenInv
  <1>5. AnswersInOrder' /\ OnlyFirstIsStale'
    BY <1>1 DEF ThreadsInv, AnswersInOrder, OnlyFirstIsStale, Stale
  <1> QED
    BY <1>2, <1>3, <1>4, <1>5 DEF ThreadsInv

\* rx takes the grant that was submitted before all others in the ring.
LEMMA TakeGrantStep ==
    ASSUME ThreadsInv, InputInv, RingInv, RingInv', TakeGrant
    PROVE  ThreadsInv'
  <1> PICK c \in Ring!Pos : c = current_pos
    BY TakePlace DEF TakeGrant
  <1>1. /\ UNCHANGED <<main, frame, sock, conn, parser, exited, asked, answers, filtered>>
        /\ rx' = "header" /\ rx = "wait" /\ Ring!Take(frame)
    BY DEF TakeGrant, RxAt, sockVars, sentVars, history
  <1>2. /\ c \in Ring!Pos
        /\ Held(c)
        /\ Ring!Distance(c) = 0
        /\ \A i \in Ring!Pos \ {c} : /\ Ring!Distance(i) \in Nat \ {0}
                                     /\ Ring!Distance(i)' = Ring!Distance(i) - 1
    BY <1>1, TakePlace
  <1>3. /\ ~Held(c)'
        /\ \A i \in Ring!Pos \ {c} : seq_array'[i] = seq_array[i] /\ (Held(i)' <=> Held(i))
        /\ taken'.seq = seq_array[c] /\ taken'.len = frame
        /\ frame <= size_array[c]
        /\ size_array' = size_array /\ enable' = enable
    <2>1. DOMAIN seq_array = Ring!Pos
      BY DEF RingInv, Ring!TypeOK
    <2>2. size_array[c] \in Nat /\ frame \in Nat
      <3>1. size_array[c] \in Sizes \cup {0}
        BY DEF RingInv, Ring!TypeOK
      <3>2. frame \in Sizes
        BY <1>1 DEF InputInv
      <3>3. \A m \in Sizes \cup {0} : m \in Nat
        BY EtherAssumption
      <3> QED
        BY <3>1, <3>2, <3>3
    <2>3. /\ taken' = [seq |-> seq_array[c], len |-> frame]
          /\ seq_array' = [seq_array EXCEPT ![c] = Ring!NoSeq]
          /\ size_array[c] >= frame
          /\ size_array' = size_array /\ enable' = enable
      BY <1>1 DEF Ring!Take
    <2> QED
      BY <2>1, <2>2, <2>3 DEF Held
  <1>4. TypeOK'
    BY <1>1 DEF ThreadsInv, TypeOK, RingInv, RxPC
  <1>5. Lifecycle' /\ FilterInv'
    BY <1>1, <1>2, <1>3 DEF ThreadsInv, Lifecycle, FilterInv, RingEmpty
  <1>6. \A i \in Ring!Pos : Held(i)' => i # c /\ Held(i)
    BY <1>3
  <1>7. GrantsInv
    BY DEF ThreadsInv
  <1>8. GrantsInv'
    <2>1. ASSUME NEW i \in Ring!Pos, Held(i)'
          PROVE  /\ seq_array'[i] \in 1 .. Len(asked)
                 /\ asked[seq_array'[i]].conn = conn
                 /\ asked[seq_array'[i]].size = size_array'[i]
      BY <2>1, <1>3, <1>6, <1>7 DEF GrantsInv
    <2>2. ASSUME NEW i \in Ring!Pos, NEW j \in Ring!Pos, Held(i)', Held(j)',
                 Ring!Distance(i)' < Ring!Distance(j)'
          PROVE  seq_array'[i] < seq_array'[j]
      <3>1. i # c /\ j # c /\ Held(i) /\ Held(j) /\ Ring!Distance(i) < Ring!Distance(j)
        BY <2>2, <1>2, <1>6
      <3> QED
        BY <3>1, <1>3, <1>7 DEF GrantsInv
    <2> QED
      BY <2>1, <2>2, <1>1 DEF GrantsInv
  <1>9. TakenInv'
    <2>1. /\ taken'.seq \in 1 .. Len(asked)
          /\ asked[taken'.seq].conn = conn
          /\ asked[taken'.seq].size = size_array[c]
      BY <1>2, <1>3, <1>7 DEF GrantsInv
    <2>2. taken'.len \in Sizes
      BY <1>1, <1>3 DEF InputInv
    <2>3. \A i \in Ring!Pos : Held(i)' => taken'.seq < seq_array'[i]
      BY <1>2, <1>3, <1>6, <1>7 DEF GrantsInv
    <2>4. \A k \in 1 .. Len(answers) : answers[k].seq < taken'.seq
      BY <1>2, <1>3 DEF ThreadsInv, AnswersInv
    <2> QED
      BY <1>1, <1>3, <2>1, <2>2, <2>3, <2>4 DEF TakenInv
  <1>10. AnswersInv'
    BY <1>1, <1>3, <1>6 DEF ThreadsInv, AnswersInv
  <1>11. AnswersInOrder' /\ OnlyFirstIsStale'
    BY <1>1 DEF ThreadsInv, AnswersInOrder, OnlyFirstIsStale, Stale
  <1> QED
    BY <1>4, <1>5, <1>8, <1>9, <1>10, <1>11 DEF ThreadsInv

\* The answer goes behind the others, and is above them all.
LEMMA SendHeaderStep ==
    ASSUME ThreadsInv, RingInv, RingInv', SendHeader
    PROVE  ThreadsInv'
  <1> DEFINE a == [conn |-> conn, seq |-> taken.seq, len |-> taken.len]
             n == Len(answers) + 1
  <1>1. /\ UNCHANGED <<ringVars, main, frame, sock, conn, asked, filtered>>
        /\ rx' = "payload" /\ rx = "header" /\ ~exited
        /\ Send(AfterLoaded("rx"))
    BY DEF SendHeader, RxAt, sockVars
  <1>2. TypeOK /\ answers \in Seq([conn: 1 .. MaxConn, seq: Seqnums, len: Sizes])
    BY DEF ThreadsInv, TypeOK
  <1>3. parser' \in Parser /\ exited' \in BOOLEAN
    BY <1>1, <1>2, SendType, ParserType
  <1>4. Lifecycle' /\ FilterInv'
    <2>1. exited => exited'
      BY <1>1
    <2> QED
      BY <2>1, <1>1 DEF ThreadsInv, Lifecycle, FilterInv, RingEmpty, Held, ringVars
  <1>5. CASE sock # "open"
    <2>1. answers' = answers
      BY <1>5 DEF SendHeader
    <2> QED
      BY <2>1, <1>1, <1>2, <1>3, <1>4, QuietStep DEF TypeOK, MainPC, RxPC
  <1>6. CASE sock = "open"
    <2>1. answers' = Append(answers, a) /\ conn \in 1 .. MaxConn
      BY <1>6 DEF SendHeader, ThreadsInv, Lifecycle
    <2>2. /\ taken.seq \in 1 .. Len(asked)
          /\ taken.len \in Sizes
          /\ taken.len <= asked[taken.seq].size
          /\ \A i \in Ring!Pos : Held(i) => taken.seq < seq_array[i]
          /\ \A k \in 1 .. Len(answers) : answers[k].seq < taken.seq
          /\ asked[taken.seq].conn # conn =>
                \A k \in 1 .. Len(answers) : answers[k].conn # conn
      BY <1>1 DEF ThreadsInv, TakenInv
    <2>3. taken.seq \in Seqnums
      <3>1. taken.seq \in Seqnums \cup {0}
        BY DEF RingInv, Ring!TypeOK
      <3>2. taken.seq # 0
        BY <2>2
      <3> QED
        BY <3>1, <3>2
    <2>4. /\ answers' \in Seq([conn: 1 .. MaxConn, seq: Seqnums, len: Sizes])
          /\ Len(answers') = n
          /\ answers'[n] = a
          /\ \A k \in 1 .. Len(answers) : answers'[k] = answers[k]
      <3>1. a \in [conn: 1 .. MaxConn, seq: Seqnums, len: Sizes]
        BY <2>1, <2>2, <2>3
      <3> HIDE DEF a
      <3> QED
        BY <1>2, <2>1, <3>1, AppendProperties
    <2>5. Len(answers) \in Nat /\ DOMAIN answers = 1 .. Len(answers) /\ DOMAIN answers' = 1 .. n
      BY <1>2, <2>4, LenProperties
    <2>6. TypeOK'
      BY <1>1, <1>2, <1>3, <2>4 DEF TypeOK, RingInv, RxPC, MainPC
    <2>7. GrantsInv'
      BY <1>1 DEF ThreadsInv, GrantsInv, ringVars, Held, Ring!Distance
    <2>8. TakenInv'
      BY <1>1 DEF TakenInv
    <2>9. \A k \in 1 .. Len(answers) : Stale(k)' <=> Stale(k)
      BY <1>1, <2>4 DEF Stale
    <2>10. AnswersInv'
      <3>1. ASSUME NEW k \in 1 .. n
            PROVE  /\ answers'[k].seq \in 1 .. Len(asked)
                   /\ answers'[k].conn <= conn
                   /\ \A i \in Ring!Pos : Held(i) => answers'[k].seq < seq_array[i]
        <4>1. CASE k = n
          BY <4>1, <2>1, <2>2, <2>4
        <4>2. CASE k # n
          BY <4>2, <2>4, <2>5 DEF ThreadsInv, AnswersInv
        <4> QED
          BY <4>1, <4>2
      <3> QED
        BY <3>1, <1>1, <2>4 DEF AnswersInv, ringVars, Held
    <2>11. AnswersInOrder'
      <3>1. ASSUME NEW i \in 1 .. n, NEW j \in 1 .. n, i < j
            PROVE  answers'[i].seq < answers'[j].seq
        <4>1. i \in 1 .. Len(answers)
          BY <3>1, <2>5
        <4>2. CASE j = n
          BY <4>1, <4>2, <2>2, <2>4
        <4>3. CASE j # n
          <5>1. j \in 1 .. Len(answers)
            BY <4>3, <2>5
          <5>2. answers[i].seq < answers[j].seq
            BY <3>1, <4>1, <5>1, <2>5 DEF ThreadsInv, AnswersInOrder
          <5> QED
            BY <4>1, <5>1, <5>2, <2>4
        <4> QED
          BY <4>2, <4>3
      <3>2. ASSUME NEW i \in 1 .. n
            PROVE  answers'[i].len <= asked[answers'[i].seq].size
        <4>1. CASE i = n
          BY <4>1, <2>2, <2>4
        <4>2. CASE i # n
          BY <4>2, <2>4, <2>5 DEF ThreadsInv, AnswersInOrder
        <4> QED
          BY <4>1, <4>2
      <3> QED
        BY <3>1, <3>2, <1>1, <2>5 DEF AnswersInOrder
    <2>12. OnlyFirstIsStale'
      <3>1. ASSUME NEW i \in 1 .. n, NEW j \in 1 .. n, i < j,
                   answers'[i].conn = answers'[j].conn
            PROVE  ~Stale(j)'
        <4>1. i \in 1 .. Len(answers)
          BY <3>1, <2>5
        <4>2. CASE j = n
          <5>1. answers[i].conn = conn
            BY <3>1, <4>1, <4>2, <2>4
          <5>2. asked[taken.seq].conn = conn
            BY <4>1, <5>1, <2>2
          <5> QED
            BY <4>2, <5>2, <1>1, <2>4 DEF Stale
        <4>3. CASE j # n
          <5>1. j \in 1 .. Len(answers) /\ answers[i].conn = answers[j].conn
            BY <3>1, <4>1, <4>3, <2>4, <2>5
          <5>2. ~Stale(j)
            BY <3>1, <4>1, <5>1, <2>5 DEF ThreadsInv, OnlyFirstIsStale
          <5> QED
            BY <5>1, <5>2, <2>9
        <4> QED
          BY <4>2, <4>3
      <3> QED
        BY <3>1, <2>5 DEF OnlyFirstIsStale
    <2> QED
      BY <1>4, <2>6, <2>7, <2>8, <2>10, <2>11, <2>12 DEF ThreadsInv
  <1> QED
    BY <1>5, <1>6

LEMMA StutterStep ==
    ASSUME ThreadsInv, RingInv', UNCHANGED vars
    PROVE  ThreadsInv'
  <1>1. Lifecycle' /\ FilterInv'
    BY DEF vars, ringVars, sockVars, sentVars, history, ThreadsInv, Lifecycle, FilterInv,
           RingEmpty, Held
  <1>2. TypeOK
    BY DEF ThreadsInv
  <1> QED
    BY <1>1, <1>2, QuietStep DEF vars, sockVars, sentVars, history, TypeOK

LEMMA ThreadsNext ==
    ASSUME ThreadsInv, InputInv, RingInv, RingInv', [Next]_vars, Window <= ArraySize
    PROVE  ThreadsInv'
  BY AcceptStep, GrantInStep, StartRxStep, ProcessStopStep, TakeGrantStep,
     SendHeaderStep, QuietActions, StutterStep
     DEF Next, Requests, MainRuns, RxRuns
-----------------------------------------------------------------------------
(* What a reader should know of the two threads.                           *)

LEMMA EtherThreadsInv ==
    ASSUME Window <= ArraySize
    PROVE  Spec => []ThreadsInv
  <1>1. ThreadsInv /\ InputInv /\ RingInv /\ RingInv' /\ [Next]_vars => ThreadsInv'
    BY ThreadsNext
  <1> QED
    BY <1>1, ThreadsInit, InputInit, InputNext, EtherRingInv, PTL DEF Spec

\* Every variable keeps its type, whatever the interleaving of the two threads.
THEOREM EtherTypeCorrect ==
    ASSUME Window <= ArraySize
    PROVE  Spec => []TypeOK
  <1>1. ThreadsInv => TypeOK
    BY DEF ThreadsInv
  <1> QED
    BY <1>1, EtherThreadsInv, PTL

\* No grant outlives its connection (rx_data_process_stop, called between the
\* last request and close()).
THEOREM EtherRestartIsClean ==
    ASSUME Window <= ArraySize
    PROVE  Spec => []GrantsOfThisConn
  <1>1. ThreadsInv => GrantsOfThisConn
    BY DEF ThreadsInv, Lifecycle, GrantsInv, GrantsOfThisConn, Held, RingEmpty
  <1> QED
    BY <1>1, EtherThreadsInv, PTL

\* Once rx runs, grants are only enabled on a connection that has asked for frames.
THEOREM EtherSilentUnlessAsked ==
    ASSUME Window <= ArraySize
    PROVE  Spec => []GrantsUsedIfAsked
  <1>1. ThreadsInv => GrantsUsedIfAsked
    BY DEF ThreadsInv, FilterInv, GrantsUsedIfAsked
  <1> QED
    BY <1>1, EtherThreadsInv, PTL

\* rx answers in the order of submission, at most once, with frames that fit.
THEOREM EtherAnswers ==
    ASSUME Window <= ArraySize
    PROVE  Spec => []AnswersInOrder
  <1>1. ThreadsInv => AnswersInOrder
    BY DEF ThreadsInv
  <1> QED
    BY <1>1, EtherThreadsInv, PTL

\* Of the answers that rx gives on a connection at most the first belongs to a
\* transfer of an earlier one.
THEOREM EtherOneStaleAnswer ==
    ASSUME Window <= ArraySize
    PROVE  Spec => []OnlyFirstIsStale
  <1>1. ThreadsInv => OnlyFirstIsStale
    BY DEF ThreadsInv
  <1> QED
    BY <1>1, EtherThreadsInv, PTL
=============================================================================
