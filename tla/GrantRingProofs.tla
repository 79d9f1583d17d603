-------------------------- MODULE GrantRingProofs ---------------------------
(***************************************************************************)
(* The ring of c/cdc-ether.c is sound for rings of every size, as long as  *)
(* the client keeps no more transfers submitted than the ring has slots.   *)
(***************************************************************************)
EXTENDS GrantRing, SequenceTheorems, TLAPS

-----------------------------------------------------------------------------
(* The arithmetic of positions.                                            *)

\* Going k <= ArraySize steps ahead wraps at most once.
LEMMA AheadValue ==
    ASSUME NEW p \in Pos, NEW k \in 0 .. ArraySize
    PROVE  /\ Ahead(p, k) = IF p + k < ArraySize THEN p + k ELSE p + k - ArraySize
           /\ Ahead(p, k) \in Pos
  BY RingAssumption DEF Ahead, Pos

LEMMA SuccValue ==
    ASSUME NEW p \in Pos
    PROVE  /\ Succ(p) = IF p + 1 = ArraySize THEN 0 ELSE p + 1
           /\ Succ(p) \in Pos
  BY RingAssumption DEF Succ, Pos

-----------------------------------------------------------------------------
IndInv == TypeOK /\ Shape /\ SizesMatch

LEMMA InitIndInv == Init => IndInv
  <1> SUFFICES ASSUME Init PROVE IndInv
    OBVIOUS
  <1>1. 0 \in Pos
    BY RingAssumption DEF Pos
  <1>2. TypeOK
    BY <1>1 DEF Init, TypeOK
  <1>3. Shape
    <2>1. next_pos = Ahead(current_pos, outstanding)
      BY <1>1, RingAssumption, AheadValue DEF Init
    <2> QED
      BY <2>1, <1>1, RingAssumption DEF Init, Shape, Distance, Pos
  <1>4. SizesMatch
    BY DEF Init, SizesMatch
  <1> QED
    BY <1>2, <1>3, <1>4 DEF IndInv

LEMMA SubmitIndInv ==
    ASSUME Window <= ArraySize, IndInv,
           NEW s \in Seqnums, NEW bl \in Sizes, Submit(s, bl)
    PROVE  IndInv'
  <1> USE DEF IndInv
  <1>1. outstanding \in 0 .. ArraySize - 1 /\ outstanding + 1 \in 0 .. ArraySize
    BY RingAssumption DEF Submit, TypeOK
  <1>2. next_pos \in Pos /\ current_pos \in Pos /\ Succ(next_pos) \in Pos
    BY SuccValue DEF TypeOK
  <1>3. s # NoSeq /\ bl # 0
    BY RingAssumption DEF NoSeq
  <1>4. TypeOK'
    BY <1>1, <1>2 DEF Submit, TypeOK
  <1>5. Shape'
    <2>1. (outstanding <= ArraySize)'
      BY <1>1 DEF Submit
    <2>2. next_pos = IF current_pos + outstanding < ArraySize
                       THEN current_pos + outstanding
                       ELSE current_pos + outstanding - ArraySize
      BY <1>1, <1>2, AheadValue DEF Shape
    <2>3. next_pos' = Ahead(current_pos, outstanding + 1)
      <3>1. Ahead(current_pos, outstanding + 1) =
              IF current_pos + (outstanding + 1) < ArraySize
                THEN current_pos + (outstanding + 1)
                ELSE current_pos + (outstanding + 1) - ArraySize
        BY <1>1, <1>2, AheadValue
      <3>2. next_pos' = IF next_pos + 1 = ArraySize THEN 0 ELSE next_pos + 1
        BY <1>2, SuccValue DEF Submit
      <3> QED
        BY <1>1, <1>2, <2>2, <3>1, <3>2, RingAssumption DEF Pos
    <2>4. Distance(next_pos) = outstanding
      BY <1>1, <1>2, <2>2, RingAssumption DEF Distance, Pos
    <2>5. ASSUME NEW i \in Pos, i # next_pos
          PROVE  Distance(i) # outstanding /\ Distance(i) \in Nat
      BY <1>1, <1>2, <2>2, <2>5, RingAssumption DEF Distance, Pos
    <2>6. ASSUME NEW i \in Pos
          PROVE  (seq_array[i] # NoSeq <=> Distance(i) < outstanding)'
      <3>1. CASE i = next_pos
        BY <1>1, <1>3, <2>4, <3>1 DEF Submit, TypeOK, Distance
      <3>2. CASE i # next_pos
        BY <1>1, <2>5, <3>2 DEF Submit, TypeOK, Shape, Distance
      <3> QED
        BY <3>1, <3>2
    <2> QED
      BY <2>1, <2>3, <2>6 DEF Submit, Shape, Pos
  <1>6. SizesMatch'
    BY <1>2, <1>3 DEF Submit, TypeOK, SizesMatch
  <1> QED
    BY <1>4, <1>5, <1>6

LEMMA TakeIndInv ==
    ASSUME IndInv, NEW len \in Sizes, Take(len)
    PROVE  IndInv'
  <1> USE DEF IndInv
  <1>1. current_pos \in Pos /\ Succ(current_pos) \in Pos
    BY SuccValue DEF TypeOK
  <1>2. outstanding \in 1 .. ArraySize /\ outstanding - 1 \in 0 .. ArraySize
    BY <1>1, RingAssumption DEF Take, TypeOK, Shape, Distance, Pos
  <1>3. TypeOK'
    BY <1>1, <1>2 DEF Take, TypeOK
  <1>4. Shape'
    <2>1. (outstanding <= ArraySize)'
      BY <1>2, RingAssumption DEF Take
    <2>2. next_pos = Ahead(Succ(current_pos), outstanding - 1)
      <3>1. next_pos = IF current_pos + outstanding < ArraySize
                         THEN current_pos + outstanding
                         ELSE current_pos + outstanding - ArraySize
        BY <1>1, <1>2, AheadValue DEF Shape
      <3>2. Ahead(Succ(current_pos), outstanding - 1) =
              IF Succ(current_pos) + (outstanding - 1) < ArraySize
                THEN Succ(current_pos) + (outstanding - 1)
                ELSE Succ(current_pos) + (outstanding - 1) - ArraySize
        BY <1>1, <1>2, AheadValue
      <3>3. Succ(current_pos) = IF current_pos + 1 = ArraySize THEN 0 ELSE current_pos + 1
        BY <1>1, SuccValue
      <3> QED
        BY <1>1, <1>2, <3>1, <3>2, <3>3, RingAssumption DEF Pos
    <2>3. ASSUME NEW i \in Pos, i # current_pos
          PROVE  /\ Distance(i)' = Distance(i) - 1
                 /\ Distance(i) \in Nat
      BY <1>1, <2>3, RingAssumption, SuccValue DEF Take, Distance, Pos
    <2>4. ASSUME NEW i \in Pos, i = current_pos
          PROVE  Distance(i)' = ArraySize - 1
      BY <2>4, <1>1, RingAssumption, SuccValue DEF Take, Distance, Pos
    <2>5. ASSUME NEW i \in Pos
          PROVE  (seq_array[i] # NoSeq <=> Distance(i) < outstanding)'
      <3>1. CASE i = current_pos
        <4>1. Distance(i)' = ArraySize - 1 /\ seq_array'[i] = NoSeq
          BY <2>4, <3>1 DEF Take, TypeOK
        <4>2. ~(ArraySize - 1 < outstanding')
          BY <1>2, RingAssumption DEF Take
        <4> QED
          BY <4>1, <4>2
      <3>2. CASE i # current_pos
        BY <1>2, <2>3, <3>2 DEF Take, TypeOK, Shape
      <3> QED
        BY <3>1, <3>2
    <2> QED
      BY <2>1, <2>2, <2>5 DEF Take, Shape, Pos
  <1>5. SizesMatch'
    BY <1>1 DEF Take, TypeOK, SizesMatch
  <1> QED
    BY <1>3, <1>4, <1>5

LEMMA StopIndInv == ASSUME Stop, TypeOK PROVE IndInv'
  <1>1. 0 \in Pos
    BY RingAssumption DEF Pos
  <1>2. TypeOK'
    BY <1>1 DEF Stop, TypeOK
  <1>3. Shape'
    <2>1. (next_pos = Ahead(current_pos, outstanding))'
      BY <1>1, RingAssumption, AheadValue DEF Stop
    <2> QED
      BY <2>1, <1>1, RingAssumption DEF Stop, Shape, Distance, Pos
  <1>4. SizesMatch'
    BY DEF Stop, SizesMatch, Pos
  <1> QED
    BY <1>2, <1>3, <1>4 DEF IndInv

LEMMA NextIndInv ==
    ASSUME Window <= ArraySize, IndInv, [Next]_ringVars
    PROVE  IndInv'
  <1>1. ASSUME NEW s \in Seqnums, NEW bl \in Sizes, Submit(s, bl) PROVE IndInv'
    BY <1>1, SubmitIndInv
  <1>2. ASSUME NEW len \in Sizes, Take(len) PROVE IndInv'
    BY <1>2, TakeIndInv
  <1>3. CASE Enable
    BY <1>3 DEF Enable, IndInv, TypeOK, Shape, SizesMatch, Distance, Pos
  <1>4. CASE Stop
    BY <1>4, StopIndInv DEF IndInv
  <1>5. CASE UNCHANGED ringVars
    BY <1>5 DEF ringVars, IndInv, TypeOK, Shape, SizesMatch, Distance, Pos
  <1> QED
    BY <1>1, <1>2, <1>3, <1>4, <1>5 DEF Next

LEMMA RingInvariant ==
    ASSUME Window <= ArraySize
    PROVE  Spec => []IndInv
  <1>1. Init => IndInv
    BY InitIndInv
  <1>2. IndInv /\ [Next]_ringVars => IndInv'
    BY NextIndInv
  <1> QED
    BY <1>1, <1>2, PTL DEF Spec

\* Every variable of the ring keeps its type.
THEOREM RingTypeCorrect ==
    ASSUME Window <= ArraySize
    PROVE  Spec => []TypeOK
  <1>1. IndInv => TypeOK
    BY DEF IndInv
  <1> QED
    BY <1>1, RingInvariant, PTL

\* The two positions and the markers of c/cdc-ether.c agree in every reachable
\* state: the grants are exactly the slots from the read position up to the
\* write position, none is lost and none is overwritten.
THEOREM RingSound ==
    ASSUME Window <= ArraySize
    PROVE  Spec => []Shape
  <1>1. IndInv => Shape
    BY DEF IndInv
  <1> QED
    BY <1>1, RingInvariant, PTL

\* The array of sizes has the size of each grant that the other array holds.
THEOREM RingSizesMatch ==
    ASSUME Window <= ArraySize
    PROVE  Spec => []SizesMatch
  <1>1. IndInv => SizesMatch
    BY DEF IndInv
  <1> QED
    BY <1>1, RingInvariant, PTL
-----------------------------------------------------------------------------
(* The ring is a bounded queue.                                            *)

\* The k-th grant that the reader comes to is in a slot that holds one.
LEMMA HeldSlot ==
    ASSUME IndInv, NEW k \in 1 .. outstanding
    PROVE  LET i == Ahead(current_pos, k - 1)
           IN  /\ i \in Pos
               /\ seq_array[i] \in Seqnums
               /\ size_array[i] \in Sizes
  <1> USE DEF IndInv
  <1> DEFINE i == Ahead(current_pos, k - 1)
  <1>1. current_pos \in Pos /\ k - 1 \in 0 .. ArraySize /\ k - 1 < outstanding
    BY RingAssumption DEF TypeOK, Shape
  <1>2. /\ i = IF current_pos + (k - 1) < ArraySize
                 THEN current_pos + (k - 1)
                 ELSE current_pos + (k - 1) - ArraySize
        /\ i \in Pos
    BY <1>1, AheadValue
  <1>3. k - 1 < ArraySize
    BY <1>1, RingAssumption DEF Shape, TypeOK
  <1>4. Distance(i) = k - 1
    BY <1>1, <1>2, <1>3, RingAssumption DEF Distance, Pos
  <1>5. seq_array[i] # NoSeq
    BY <1>1, <1>2, <1>4 DEF Shape
  <1>6. seq_array[i] \in Seqnums /\ size_array[i] \in Sizes
    BY <1>2, <1>5 DEF TypeOK, SizesMatch
  <1> QED
    BY <1>2, <1>6

\* Contents is a sequence of as many grants as the client waits for.
ContentsOK ==
    /\ Contents \in Seq(Queue!Grant)
    /\ Len(Contents) = outstanding
    /\ outstanding \in Nat
    /\ \A k \in 1 .. outstanding :
          Contents[k] = [seq  |-> seq_array[Ahead(current_pos, k - 1)],
                         size |-> size_array[Ahead(current_pos, k - 1)]]

LEMMA ContentsIsQueue == IndInv => ContentsOK
  <1> SUFFICES ASSUME IndInv PROVE ContentsOK
    OBVIOUS
  <1>1. outstanding \in Nat
    BY DEF IndInv, TypeOK
  <1>2. \A k \in 1 .. outstanding :
           [seq  |-> seq_array[Ahead(current_pos, k - 1)],
            size |-> size_array[Ahead(current_pos, k - 1)]] \in Queue!Grant
    BY HeldSlot DEF Queue!Grant
  <1>3. Contents \in [1 .. outstanding -> Queue!Grant]
    BY <1>2 DEF Contents
  <1>4. Contents \in Seq(Queue!Grant)
    BY <1>1, <1>3, SeqDef
  <1>5. DOMAIN Contents = 1 .. outstanding
    BY <1>3
  <1>6. Len(Contents) = outstanding
    BY <1>1, <1>4, <1>5, LenProperties
  <1> QED
    BY <1>1, <1>4, <1>6 DEF Contents, ContentsOK

\* The same of the next state.
LEMMA ContentsIsQueueNext == IndInv' => ContentsOK'
  BY ContentsIsQueue, PTL

LEMMA SubmitOffers ==
    ASSUME Window <= ArraySize, IndInv, IndInv',
           NEW s \in Seqnums, NEW bl \in Sizes, Submit(s, bl)
    PROVE  Queue!Offer([seq |-> s, size |-> bl])
  <1> DEFINE g == [seq |-> s, size |-> bl]
  <1>1. g \in Queue!Grant
    BY DEF Queue!Grant
  <1>2. Len(Contents) < Window
    BY ContentsIsQueue DEF Submit, ContentsOK
  <1>3. /\ Append(Contents, g) \in Seq(Queue!Grant)
        /\ Len(Append(Contents, g)) = outstanding + 1
        /\ Append(Contents, g)[outstanding + 1] = g
        /\ \A k \in 1 .. outstanding : Append(Contents, g)[k] = Contents[k]
    BY <1>1, ContentsIsQueue, AppendProperties DEF ContentsOK
  <1>4. /\ Contents' \in Seq(Queue!Grant)
        /\ Len(Contents') = outstanding + 1
        /\ \A k \in 1 .. outstanding + 1 :
              Contents'[k] = [seq  |-> seq_array'[Ahead(current_pos, k - 1)],
                              size |-> size_array'[Ahead(current_pos, k - 1)]]
    BY ContentsIsQueueNext DEF ContentsOK, Submit, Ahead, ContentsOK
  <1>5. /\ current_pos \in Pos /\ next_pos \in Pos
        /\ outstanding \in Nat /\ outstanding + 1 <= ArraySize
        /\ next_pos = Ahead(current_pos, outstanding)
    BY RingAssumption DEF IndInv, TypeOK, Shape, Submit
  <1>6. /\ seq_array' = [seq_array EXCEPT ![next_pos] = s]
        /\ size_array' = [size_array EXCEPT ![next_pos] = bl]
        /\ seq_array'[next_pos] = s
        /\ size_array'[next_pos] = bl
    BY <1>5 DEF IndInv, TypeOK, Submit
  <1>7. ASSUME NEW k \in 1 .. outstanding + 1
        PROVE  Append(Contents, g)[k] = Contents'[k]
    <2>1. CASE k = outstanding + 1
      BY <1>3, <1>4, <1>5, <1>6, <2>1
    <2>2. CASE k # outstanding + 1
      <3>1. k \in 1 .. outstanding
        BY <1>5, <2>2
      <3>2. Ahead(current_pos, k - 1) \in Pos
        BY <3>1, HeldSlot
      <3>3. Ahead(current_pos, k - 1) # next_pos
        <4>1. /\ Ahead(current_pos, k - 1) =
                   IF current_pos + (k - 1) < ArraySize
                     THEN current_pos + (k - 1)
                     ELSE current_pos + (k - 1) - ArraySize
              /\ next_pos = IF current_pos + outstanding < ArraySize
                              THEN current_pos + outstanding
                              ELSE current_pos + outstanding - ArraySize
          BY <1>5, <3>1, AheadValue, RingAssumption
        <4> QED
          BY <1>5, <3>1, <4>1, RingAssumption DEF Pos
      <3>4. /\ seq_array'[Ahead(current_pos, k - 1)] = seq_array[Ahead(current_pos, k - 1)]
            /\ size_array'[Ahead(current_pos, k - 1)] = size_array[Ahead(current_pos, k - 1)]
        BY <1>6, <3>2, <3>3 DEF IndInv, TypeOK
      <3> QED
        BY <1>3, <1>4, <3>1, <3>4, ContentsIsQueue DEF ContentsOK
    <2> QED
      BY <2>1, <2>2
  <1>8. Append(Contents, g) = Contents'
    BY <1>3, <1>4, <1>7, SeqEqual
  <1> QED
    BY <1>2, <1>8 DEF Queue!Offer, Submit

LEMMA TakeTakesOldest ==
    ASSUME IndInv, IndInv', NEW len \in Sizes, Take(len)
    PROVE  Queue!TakeOldest(len)
  <1>1. /\ current_pos \in Pos
        /\ seq_array[current_pos] # NoSeq
        /\ outstanding \in 1 .. ArraySize
        /\ outstanding' = outstanding - 1
        /\ current_pos' = Succ(current_pos)
    BY RingAssumption DEF Take, IndInv, TypeOK, Shape, Distance, Pos
  <1>2. Ahead(current_pos, 0) = current_pos
    BY <1>1, AheadValue, RingAssumption DEF Pos
  <1>3. Contents # << >>
    BY <1>1, ContentsIsQueue DEF ContentsOK
  <1>4. Contents[1] = [seq |-> seq_array[current_pos], size |-> size_array[current_pos]]
    BY <1>1, <1>2, ContentsIsQueue DEF ContentsOK
  <1>5. Head(Contents) = Contents[1]
    BY <1>3, ContentsIsQueue DEF ContentsOK
  <1>6. /\ Tail(Contents) \in Seq(Queue!Grant)
        /\ Len(Tail(Contents)) = outstanding - 1
        /\ \A k \in 1 .. outstanding - 1 : Tail(Contents)[k] = Contents[k + 1]
    BY <1>3, ContentsIsQueue, HeadTailProperties DEF ContentsOK
  <1>7. /\ Contents' \in Seq(Queue!Grant)
        /\ Len(Contents') = outstanding - 1
        /\ \A k \in 1 .. outstanding - 1 :
              Contents'[k] = [seq  |-> seq_array'[Ahead(Succ(current_pos), k - 1)],
                              size |-> size_array'[Ahead(Succ(current_pos), k - 1)]]
    BY <1>1, ContentsIsQueueNext DEF ContentsOK, Take, Ahead
  <1>8. ASSUME NEW k \in 1 .. outstanding - 1
        PROVE  Tail(Contents)[k] = Contents'[k]
    <2>1. k + 1 \in 1 .. outstanding /\ k \in 0 .. ArraySize /\ k - 1 \in 0 .. ArraySize
      BY <1>1, RingAssumption
    <2>2. /\ Ahead(current_pos, k) = IF current_pos + k < ArraySize
                                       THEN current_pos + k
                                       ELSE current_pos + k - ArraySize
          /\ Ahead(current_pos, k) \in Pos
      BY <1>1, <2>1, AheadValue
    <2>3. Succ(current_pos) = IF current_pos + 1 = ArraySize THEN 0 ELSE current_pos + 1
      BY <1>1, SuccValue
    <2>4. Ahead(Succ(current_pos), k - 1) =
            IF Succ(current_pos) + (k - 1) < ArraySize
              THEN Succ(current_pos) + (k - 1)
              ELSE Succ(current_pos) + (k - 1) - ArraySize
      BY <1>1, <2>1, SuccValue, AheadValue
    <2>5. Ahead(Succ(current_pos), k - 1) = Ahead(current_pos, k)
      BY <1>1, <2>1, <2>2, <2>3, <2>4, RingAssumption DEF Pos
    <2>6. Ahead(current_pos, k) # current_pos
      BY <1>1, <2>1, <2>2, RingAssumption DEF Pos
    <2>7. /\ seq_array'[Ahead(current_pos, k)] = seq_array[Ahead(current_pos, k)]
          /\ size_array'[Ahead(current_pos, k)] = size_array[Ahead(current_pos, k)]
      BY <2>2, <2>6 DEF Take, IndInv, TypeOK
    <2>8. Contents[k + 1] = [seq  |-> seq_array[Ahead(current_pos, k)],
                             size |-> size_array[Ahead(current_pos, k)]]
      <3>1. (k + 1) - 1 = k
        BY <2>1
      <3> QED
        BY <2>1, <3>1, ContentsIsQueue DEF ContentsOK
    <2> QED
      BY <1>6, <1>7, <2>5, <2>7, <2>8
  <1>9. Tail(Contents) = Contents'
    BY <1>6, <1>7, <1>8, SeqEqual
  <1>10. size_array[current_pos] >= len
         /\ taken' = [seq |-> seq_array[current_pos], len |-> len]
    BY DEF Take
  <1>11. size_array[current_pos] \in Int /\ len \in Int
    <2>1. size_array[current_pos] \in Sizes \cup {0}
      BY <1>1 DEF IndInv, TypeOK
    <2>2. \A x \in Sizes \cup {0} : x \in Int
      BY RingAssumption
    <2>3. len \in Int
      BY <2>2
    <2>4. size_array[current_pos] \in Int
      BY <2>1, <2>2
    <2> QED
      BY <2>3, <2>4
  <1> QED
    BY <1>3, <1>4, <1>5, <1>9, <1>10, <1>11 DEF Queue!TakeOldest

\* Whatever the receive thread and the connection do, the grants leave the ring
\* in the order in which the client submitted them, each at most once, and
\* each for a frame that fits.
THEOREM RingImplementsQueue ==
    ASSUME Window <= ArraySize
    PROVE  Spec => ImplementsQueue
  <1>1. Init => Queue!Init
    <2> SUFFICES ASSUME Init PROVE Queue!Init
      OBVIOUS
    <2>1. Contents = << >>
      BY InitIndInv, ContentsIsQueue, EmptySeq DEF Init, ContentsOK
    <2> QED
      BY <2>1 DEF Init, Queue!Init, Queue!NoUse
  <1>2. IndInv /\ IndInv' /\ [Next]_ringVars => [Queue!Next]_Queue!gqVars
    <2> SUFFICES ASSUME IndInv, IndInv', [Next]_ringVars
                 PROVE  [Queue!Next]_Queue!gqVars
      OBVIOUS
    <2>1. ASSUME NEW s \in Seqnums, NEW bl \in Sizes, Submit(s, bl)
          PROVE  Queue!Next
      BY <2>1, SubmitOffers DEF Queue!Next, Queue!Grant
    <2>2. ASSUME NEW len \in Sizes, Take(len) PROVE Queue!Next
      BY <2>2, TakeTakesOldest DEF Queue!Next
    <2>3. CASE Enable
      BY <2>3 DEF Enable, Contents, Ahead, Queue!gqVars
    <2>4. CASE Stop
      <3>1. Contents' = << >>
        BY <2>4, ContentsIsQueueNext, EmptySeq DEF Stop, ContentsOK
      <3> QED
        BY <2>4, <3>1 DEF Stop, Queue!Next, Queue!Forget
    <2>5. CASE UNCHANGED ringVars
      BY <2>5 DEF ringVars, Contents, Ahead, Queue!gqVars
    <2> QED
      BY <2>1, <2>2, <2>3, <2>4, <2>5 DEF Next
  <1>3. Init => IndInv
    BY InitIndInv
  <1>4. IndInv /\ [Next]_ringVars => IndInv'
    BY NextIndInv
  <1> QED
    BY <1>1, <1>2, <1>3, <1>4, PTL DEF Spec, ImplementsQueue, Queue!Spec
=============================================================================
