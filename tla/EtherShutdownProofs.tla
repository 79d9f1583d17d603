------------------------ MODULE EtherShutdownProofs ------------------------
(***************************************************************************)
(* Theorems about EtherShutdown.  The invariant is TypeOK and who may have *)
(* been cancelled: only the handler cancels, it runs on the main thread    *)
(* before it runs on the other, and no thread ever leaves it.  At the end  *)
(* is a number that counts the end down.                                   *)
(***************************************************************************)
EXTENDS EtherShutdown, TLAPS

\* No thread is cancelled or dead while main serves, rx runs the handler only
\* beside main, and main is cancelled last, or by rx from its handler.
OnlyHandlersCancel ==
    /\ \A t \in Threads : pc[t] = "dead" => canceled[t]
    /\ \A t \in Threads : canceled[t] => handler["main"] # "no"
    /\ handler["rx"] # "no" => handler["main"] # "no"
    /\ canceled["main"] => ~Alive("rx") \/ handler["rx"] # "no"

IInv == TypeOK /\ OnlyHandlersCancel

\* The initial state has it.
LEMMA InitIInv == Init => IInv
<1> SUFFICES ASSUME Init PROVE IInv
  OBVIOUS
<1>1. pc["main"] = "wait" /\ pc["rx"] = "none"
  BY DEF Init, Threads
<1>2. pc \in [Threads -> MainPC \cup RxPC]
  BY DEF Init, Threads, MainPC, RxPC
<1>3. \A l \in Locks : owner[l] = "nobody"
  BY DEF Init
<1>4. \A t \in Threads, l \in Locks : ~Holds(t, l) /\ owner[l] # t
  BY <1>1, <1>3 DEF Holds, Threads
<1>5. TypeOK
  <2>1. owner \in [Locks -> Threads \cup {"nobody"}] /\ signals \in 0 .. MaxSignals
    BY ShutdownAssumption DEF Init
  <2> QED BY <1>1, <1>2, <1>4, <2>1 DEF Init, TypeOK, MainPC, RxPC
<1>6. OnlyHandlersCancel
  BY <1>1 DEF Init, OnlyHandlersCancel, Alive, Threads
<1> QED BY <1>5, <1>6 DEF IInv

-----------------------------------------------------------------------------
(* A thread's own steps.                                                   *)

\* A step of a thread's own code that is not a thread's end keeps the part about
\* the handlers.
LEMMA GoKeepsHandlers ==
    ASSUME IInv, NEW t \in Threads, NEW from, NEW to, to # "dead", from \notin {"none", "dead"},
           Go(t, from, to)
    PROVE  OnlyHandlersCancel'
BY DEF IInv, TypeOK, OnlyHandlersCancel, Go, Alive, Threads, MainPC, RxPC

\* main's steps keep TypeOK.
LEMMA MainKeepsTypes ==
    ASSUME IInv, MainLocks \/ MainUnlocks \/ MainPrints \/ MainPrinted
    PROVE  TypeOK'
<1> USE DEF IInv, TypeOK, Go, Lock, Unlock, Holds, Threads, Locks, MainPC, RxPC
<1>1. CASE MainLocks
  BY <1>1 DEF MainLocks
<1>2. CASE MainUnlocks
  BY <1>2 DEF MainUnlocks
<1>3. CASE MainPrints
  BY <1>3 DEF MainPrints
<1>4. CASE MainPrinted
  BY <1>4 DEF MainPrinted
<1> QED BY <1>1, <1>2, <1>3, <1>4

\* So do the steps of rx that take or release a lock, and those that do not.
LEMMA RxKeepsTypes ==
    ASSUME IInv,
           Says \/ Said \/ Receive \/ Sleeps \/ Sends \/ RxLocks \/ RxUnlocks
             \/ TooSmall \/ Complains \/ Complained \/ GivesUp
    PROVE  TypeOK'
<1> USE DEF IInv, TypeOK, Go, Lock, Unlock, Holds, Threads, Locks, MainPC, RxPC
<1>1. CASE Says \/ Said
  BY <1>1 DEF Says, Said
<1>2. CASE Receive \/ Sleeps \/ Sends
  BY <1>2 DEF Receive, Sleeps, Sends
<1>3. CASE RxLocks \/ RxUnlocks
  BY <1>3 DEF RxLocks, RxUnlocks
<1>4. CASE TooSmall \/ Complains
  BY <1>4 DEF TooSmall, Complains
<1>5. CASE Complained \/ GivesUp
  BY <1>5 DEF Complained, GivesUp
<1> QED BY <1>1, <1>2, <1>3, <1>4, <1>5

\* The own steps of both keep the invariant.
LEMMA ServingKeeps ==
    ASSUME IInv,
           \/ MainLocks \/ MainUnlocks \/ MainPrints \/ MainPrinted
           \/ Says \/ Said \/ Receive \/ Sleeps \/ Sends \/ RxLocks \/ RxUnlocks
           \/ TooSmall \/ Complains \/ Complained \/ GivesUp
    PROVE  IInv'
<1>1. \E t \in Threads : \E from \in (MainPC \cup RxPC) \ {"none", "dead"},
                            to \in (MainPC \cup RxPC) \ {"dead"} : Go(t, from, to)
  BY Zenon DEF MainLocks, MainUnlocks, MainPrints, MainPrinted, Says, Said, Receive,
     Sleeps, Sends, RxLocks, RxUnlocks, TooSmall, Complains, Complained, GivesUp,
     Threads, MainPC, RxPC
<1>2. OnlyHandlersCancel'
  BY <1>1, GoKeepsHandlers
<1> QED BY <1>2, MainKeepsTypes, RxKeepsTypes DEF IInv

\* rx is created while main serves.
LEMMA CreateRxKeeps ==
    ASSUME IInv, CreateRx
    PROVE  IInv'
BY DEF IInv, TypeOK, OnlyHandlersCancel, CreateRx, Alive, Holds, Threads, Locks, MainPC,
       RxPC

-----------------------------------------------------------------------------
(* Signals and the handler.                                                *)

\* A signal, and its delivery: rx gets it only when main is in its handler.
LEMMA SignalKeeps ==
    ASSUME IInv, Kill \/ Signaled
    PROVE  IInv'
<1> USE DEF IInv, TypeOK, OnlyHandlersCancel, Alive, Holds, Threads, Locks, MainPC, RxPC
<1>1. CASE Kill
  <2>1. signals' \in 0 .. MaxSignals
    BY <1>1, ShutdownAssumption DEF Kill
  <2> QED BY <1>1, <2>1 DEF Kill
<1>2. CASE Signaled
  <2>1. PICK t \in Threads : Deliver(t)
    BY <1>2 DEF Signaled
  <2>2. t = "rx" => handler["main"] # "no"
    BY <2>1 DEF Deliver, Takes
  <2>3. TypeOK'
    BY <2>1, ZenonT(40) DEF Deliver
  <2>4. OnlyHandlersCancel'
    BY <2>1, <2>2 DEF Deliver
  <2> QED BY <2>3, <2>4
<1> QED BY <1>1, <1>2

\* A cancellation by a thread that is in its handler, of main only if rx is gone
\* or in its handler.
LEMMA CancelsKeeps ==
    ASSUME IInv, NEW t \in Threads, NEW u \in Threads, Cancels(t, u), handler[t] # "no",
           u = "main" => ~Alive("rx") \/ handler["rx"] # "no"
    PROVE  IInv'
BY DEF IInv, TypeOK, OnlyHandlersCancel, Cancels, Alive, Holds, Threads, Locks, MainPC, RxPC

\* All that the handler does.
LEMMA HandlerKeeps ==
    ASSUME IInv,
           (\E t \in Threads : HandlerPrints(t)) \/ JoinsRx \/ JoinRefused
    PROVE  IInv'
<1>1. ASSUME NEW t \in Threads, HandlerPrints(t) PROVE IInv'
  BY <1>1, CancelsKeeps DEF HandlerPrints, Alive, Threads
<1>2. CASE JoinsRx
  BY <1>2, CancelsKeeps DEF JoinsRx, Alive, Threads
<1>3. CASE JoinRefused
  BY <1>3, CancelsKeeps DEF JoinRefused, Threads
<1> QED BY <1>1, <1>2, <1>3

\* A thread that dies leaves no lock of stdout behind.
LEMMA DiesKeeps ==
    ASSUME IInv, NEW t \in Threads, Dies(t)
    PROVE  IInv'
<1>1. TypeOK'
  BY DEF IInv, TypeOK, Dies, Alive, Holds, Threads, Locks, MainPC, RxPC
<1>2. OnlyHandlersCancel'
  BY DEF IInv, TypeOK, OnlyHandlersCancel, Dies, Alive, Threads
<1> QED BY <1>1, <1>2 DEF IInv

-----------------------------------------------------------------------------
\* Every step keeps the invariant.
LEMMA NextIInv == IInv /\ [Next]_vars => IInv'
<1> SUFFICES ASSUME IInv, [Next]_vars PROVE IInv'
  OBVIOUS
<1>1. CASE UNCHANGED vars
  BY <1>1 DEF vars, IInv, TypeOK, OnlyHandlersCancel, Alive, Holds
<1>2. CASE MainServes \/ Receive
  BY <1>2, ServingKeeps, CreateRxKeeps DEF MainServes
<1>3. CASE Kill \/ Signaled
  BY <1>3, SignalKeeps
<1>4. CASE MainEnds
  BY <1>4, HandlerKeeps, DiesKeeps DEF MainEnds, Threads
<1>5. CASE RxRuns
  BY <1>5, ServingKeeps, HandlerKeeps, DiesKeeps DEF RxRuns, Threads
<1> QED BY <1>1, <1>2, <1>3, <1>4, <1>5 DEF Next

\* It holds in every behaviour.
LEMMA Invariance == Spec => []IInv
BY InitIInv, NextIInv, PTL DEF Spec

\* The types of int_handler's two threads, and who holds which lock.
THEOREM ShutdownTypeCorrect == Spec => []TypeOK
<1>1. IInv => TypeOK
  BY DEF IInv
<1> QED BY <1>1, Invariance, PTL

\* int_handler may leave rx_data_send_mutex locked for good, and then both threads
\* are in it or dead.
THEOREM NobodyWaitsForTheDead == Spec => []NoWaitForTheDead
<1>1. IInv => NoWaitForTheDead
  BY DEF IInv, OnlyHandlersCancel, NoWaitForTheDead, TypeOK, Alive, Threads
<1> QED BY <1>1, Invariance, PTL

-----------------------------------------------------------------------------
(* The end, once main waits for a thread: there is no way back, and no loop.*)

Ending == handler["main"] \in {"join", "joinMain"}

\* main joins rx, which it has cancelled, and itself when rx is no more.
JoinInv ==
    /\ handler["main"] = "join" => canceled["rx"]
    /\ handler["main"] = "joinMain" => ~Alive("rx")

\* How far rx is from a call that acts on a cancellation.
ToCancellation ==
    CASE pc["rx"] = "lock"                       -> 6
      [] pc["rx"] = "section"                    -> 5
      [] pc["rx"] = "full"                       -> 4
      [] pc["rx"] \in {"complain", "say"}        -> 3
      [] pc["rx"] \in {"unlock", "saying"}       -> 2
      [] pc["rx"] \in {"recv", "sleep", "send"}  -> 1
      [] pc["rx"] \in {"none", "dead"}           -> 0

\* What is left of int_handler.
HandlerSteps == [no |-> 4, print |-> 3, join |-> 2, joinMain |-> 1]
InHandler(t) == HandlerSteps[handler[t]]

MainLeft == IF Alive("main") THEN InHandler("main") ELSE 0
RxLeft   == IF Alive("rx")
              THEN InHandler("rx") + (IF handler["rx"] = "no" THEN ToCancellation ELSE 0)
              ELSE 0

Left == MainLeft + RxLeft

LEMMA LeftIs ==
    ASSUME TypeOK
    PROVE  /\ Left \in Nat /\ MainLeft \in Nat /\ RxLeft \in Nat
           /\ \A t \in Threads : InHandler(t) \in 1 .. 4
           /\ ToCancellation \in 0 .. 6
<1>1. \A t \in Threads : InHandler(t) \in 1 .. 4
  BY DEF TypeOK, InHandler, HandlerSteps
<1>2. ToCancellation \in 0 .. 6
  BY DEF TypeOK, ToCancellation, RxPC
<1>3. MainLeft \in Nat /\ RxLeft \in Nat
  BY <1>1, <1>2 DEF MainLeft, RxLeft, Threads
<1> QED BY <1>1, <1>2, <1>3 DEF Left

\* One thread has less to do, the other no more.
LEMMA LessLeft ==
    ASSUME MainLeft \in Nat, RxLeft \in Nat, MainLeft' \in Nat, RxLeft' \in Nat,
           MainLeft' <= MainLeft, RxLeft' <= RxLeft, MainLeft' < MainLeft \/ RxLeft' < RxLeft
    PROVE  Left' < Left
<1>1. \A a, b, c, d \in Nat : c <= a /\ d <= b /\ (c < a \/ d < b) => c + d < a + b
  OBVIOUS
<1>2. Left' = MainLeft' + RxLeft' /\ Left = MainLeft + RxLeft
  BY DEF Left
<1> QED BY <1>1, <1>2

LEMMA JoinInvStep ==
    ASSUME IInv, JoinInv, [Next]_vars
    PROVE  JoinInv'
<1> USE DEF IInv, TypeOK, JoinInv, Threads
<1>1. CASE UNCHANGED vars
  BY <1>1 DEF vars, Alive
<1>2. CASE MainServes
  <2>1. handler["main"] = "no" /\ handler' = handler
    BY <1>2 DEF MainServes, MainLocks, MainUnlocks, MainPrints, MainPrinted, CreateRx, Go
  <2> QED BY <2>1
<1>3. CASE Kill
  BY <1>3 DEF Kill, Alive
<1>4. CASE Signaled
  BY <1>4 DEF Signaled, Deliver, Alive
<1>5. ASSUME NEW t \in Threads, HandlerPrints(t) PROVE JoinInv'
  BY <1>5 DEF HandlerPrints, Cancels, Alive
<1>6. CASE JoinsRx \/ JoinRefused
  BY <1>6 DEF JoinsRx, JoinRefused, Cancels, Alive
<1>7. ASSUME NEW t \in Threads, Dies(t) PROVE JoinInv'
  BY <1>7 DEF Dies, Alive
<1>8. CASE \/ Says \/ Said \/ Receive \/ Sleeps \/ Sends
           \/ RxLocks \/ RxUnlocks \/ TooSmall \/ Complains \/ Complained \/ GivesUp
  <2>1. /\ Alive("rx") /\ UNCHANGED <<handler, canceled>>
    BY <1>8 DEF Says, Said, Receive, Sleeps, Sends, RxLocks, RxUnlocks, TooSmall, Complains,
       Complained, GivesUp, Go, Alive
  <2> QED BY <2>1
<1> QED BY <1>1, <1>2, <1>3, <1>4, <1>5, <1>6, <1>7, <1>8 DEF Next, MainEnds, RxRuns

\* rx goes on in its own code, to the next call that acts on its cancellation.
LEMMA RxGetsNearer ==
    ASSUME IInv, JoinInv, Ending,
           \/ Says \/ Said \/ Receive \/ Sleeps \/ Sends
           \/ RxLocks \/ RxUnlocks \/ TooSmall \/ Complains \/ Complained \/ GivesUp
    PROVE  Left' < Left
<1>1. /\ handler["rx"] = "no" /\ UNCHANGED <<handler, canceled>>
      /\ pc["main"]' = pc["main"] /\ Alive("rx") /\ pc \in [Threads -> MainPC \cup RxPC]
  BY DEF IInv, TypeOK, Threads, Says, Said, Receive, Sleeps, Sends, RxLocks, RxUnlocks, TooSmall,
     Complains, Complained, GivesUp, Go, Alive
<1>2. canceled["rx"]
  BY <1>1 DEF JoinInv, Ending
<1>3. Alive("rx")' /\ ToCancellation' < ToCancellation
  <2> USE <1>1 DEF Go, ToCancellation, Alive, Threads
  <2>1. CASE Says \/ Said
    BY <2>1 DEF Says, Said
  <2>2. CASE Receive \/ Sleeps \/ Sends
    BY <1>2, <2>2 DEF Receive, Sleeps, Sends
  <2>3. CASE RxLocks \/ RxUnlocks
    BY <2>3 DEF RxLocks, RxUnlocks
  <2>4. CASE TooSmall \/ Complains
    BY <2>4 DEF TooSmall, Complains
  <2>5. CASE Complained \/ GivesUp
    BY <2>5 DEF Complained, GivesUp
  <2> QED BY <2>1, <2>2, <2>3, <2>4, <2>5
<1>4. MainLeft' = MainLeft /\ InHandler("rx")' = InHandler("rx")
  BY <1>1 DEF MainLeft, Alive, InHandler
<1>5. TypeOK /\ TypeOK'
  BY RxKeepsTypes DEF IInv
<1>6. ToCancellation' \in 0 .. 6
  BY <1>5 DEF TypeOK, ToCancellation, RxPC
<1>7. RxLeft' < RxLeft /\ RxLeft' \in Nat
  BY <1>1, <1>3, <1>4, <1>5, <1>6, LeftIs DEF RxLeft, Threads
<1> QED BY <1>4, <1>5, <1>7, LeftIs DEF Left

\* int_handler goes on, on either thread.
LEMMA HandlerGetsOn ==
    ASSUME IInv, JoinInv, Ending,
           \/ \E t \in Threads : HandlerPrints(t) \/ Dies(t) \/ Deliver(t)
           \/ JoinsRx \/ JoinRefused
    PROVE  Left' < Left
<1> USE DEF IInv, TypeOK, JoinInv, Threads
<1>1. MainLeft \in Nat /\ RxLeft \in Nat /\ \A t \in Threads : InHandler(t) \in 1 .. 4
  BY LeftIs
<1>2. ToCancellation \in 0 .. 6
  BY LeftIs
<1>3. ASSUME NEW t \in Threads, Alive(t), pc' = pc, handler' = [handler EXCEPT ![t] = handler'[t]],
             InHandler(t)' < InHandler(t), InHandler(t)' \in Nat, handler'[t] # "no"
      PROVE  Left' < Left
  <2>1. Alive("main")' = Alive("main") /\ Alive("rx")' = Alive("rx")
    BY <1>3 DEF Alive
  <2>2. ToCancellation' = ToCancellation
    BY <1>3 DEF ToCancellation
  <2>3. CASE t = "main"
    <3>1. InHandler("rx")' = InHandler("rx") /\ handler'["rx"] = handler["rx"]
      BY <1>3, <2>3 DEF InHandler
    <3>2. RxLeft' = RxLeft
      BY <2>1, <2>2, <3>1 DEF RxLeft
    <3>3. MainLeft' = InHandler("main")' /\ MainLeft = InHandler("main")
      BY <1>3, <2>1, <2>3 DEF MainLeft
    <3>4. InHandler("main")' < InHandler("main") /\ InHandler("main")' \in Nat
      BY <1>3, <2>3 DEF InHandler
    <3>5. MainLeft' < MainLeft /\ MainLeft' \in Nat
      BY <3>3, <3>4
    <3>6. MainLeft \in Nat /\ RxLeft \in Nat
      BY LeftIs
    <3> QED BY <3>2, <3>5, <3>6, LessLeft
  <2>4. CASE t = "rx"
    <3>1. InHandler("main")' = InHandler("main")
      BY <1>3, <2>4 DEF InHandler
    <3>2. MainLeft' = MainLeft
      BY <2>1, <3>1 DEF MainLeft
    <3>3. RxLeft' = InHandler("rx")' /\ InHandler("rx") \in Nat
      BY <1>1, <1>3, <2>1, <2>4 DEF RxLeft
    <3>4. RxLeft >= InHandler("rx")
      BY <1>1, <1>2, <1>3, <2>4 DEF RxLeft
    <3>5. InHandler("rx")' < InHandler("rx") /\ InHandler("rx")' \in Nat
      BY <1>3, <2>4 DEF InHandler
    <3>6. RxLeft' < RxLeft /\ RxLeft' \in Nat
      BY <1>1, <3>3, <3>4, <3>5
    <3>7. MainLeft \in Nat /\ RxLeft \in Nat
      BY LeftIs
    <3> QED BY <3>2, <3>6, <3>7, LessLeft
  <2> QED BY <2>3, <2>4
<1>4. ASSUME NEW t \in Threads, HandlerPrints(t) PROVE Left' < Left
  <2>1. /\ Alive(t) /\ pc' = pc /\ handler[t] = "print"
        /\ handler' = [handler EXCEPT ![t] = handler'[t]] /\ handler'[t] \in {"join", "joinMain"}
    BY <1>4 DEF HandlerPrints, Cancels
  <2>2. InHandler(t)' < InHandler(t) /\ InHandler(t)' \in Nat
    BY <2>1 DEF InHandler, HandlerSteps
  <2> QED BY <1>3, <2>1, <2>2
<1>5. ASSUME NEW t \in Threads, Deliver(t) PROVE Left' < Left
  <2>1. /\ Alive(t) /\ pc' = pc /\ handler[t] = "no"
        /\ handler' = [handler EXCEPT ![t] = handler'[t]] /\ handler'[t] = "print"
    BY <1>5 DEF Deliver, Takes
  <2>2. InHandler(t)' < InHandler(t) /\ InHandler(t)' \in Nat
    BY <2>1 DEF InHandler, HandlerSteps
  <2> QED BY <1>3, <2>1, <2>2
<1>6. CASE JoinsRx \/ JoinRefused
  <2>1. PICK t \in Threads :
          /\ Alive(t) /\ pc' = pc /\ handler[t] = "join"
          /\ handler' = [handler EXCEPT ![t] = handler'[t]] /\ handler'[t] = "joinMain"
    BY <1>6 DEF JoinsRx, JoinRefused, Cancels
  <2>2. InHandler(t)' < InHandler(t) /\ InHandler(t)' \in Nat
    BY <2>1 DEF InHandler, HandlerSteps
  <2> QED BY <1>3, <2>1, <2>2
<1>7. ASSUME NEW t \in Threads, Dies(t) PROVE Left' < Left
  <2>1. /\ Alive(t) /\ pc' = [pc EXCEPT ![t] = "dead"] /\ handler' = handler
    BY <1>7 DEF Dies
  <2>2. ~Alive(t)'
    BY <2>1 DEF Alive
  <2>3. CASE t = "main"
    <3>1. RxLeft' = RxLeft
      <4>1. pc'["rx"] = pc["rx"]
        BY <2>1, <2>3
      <4>2. ToCancellation' = ToCancellation /\ InHandler("rx")' = InHandler("rx")
            /\ Alive("rx")' = Alive("rx")
        BY <2>1, <4>1 DEF ToCancellation, InHandler, Alive
      <4> QED BY <2>1, <4>2 DEF RxLeft
    <3>2. MainLeft' = 0 /\ MainLeft > 0
      BY <1>1, <2>1, <2>2, <2>3 DEF MainLeft
    <3> QED BY <1>1, <3>1, <3>2 DEF Left
  <2>4. CASE t = "rx"
    <3>1. MainLeft' = MainLeft
      <4>1. pc'["main"] = pc["main"]
        BY <2>1, <2>4
      <4> QED BY <2>1, <4>1 DEF MainLeft, InHandler, Alive
    <3>2. RxLeft' = 0 /\ RxLeft > 0
      BY <1>1, <1>2, <2>1, <2>2, <2>4 DEF RxLeft
    <3> QED BY <1>1, <3>1, <3>2 DEF Left
  <2> QED BY <2>3, <2>4
<1> QED BY <1>4, <1>5, <1>6, <1>7

\* Once main is in pthread_join the process ends, or waits, within a bounded number of
\* steps: neither the loops of rx_data_thread nor more signals keep it from that, and
\* nothing is served any more.
THEOREM ShutdownEnds ==
    Spec => /\ [](Left \in 0 .. 14)
            /\ [][Ending => signals' # signals \/ Left' < Left]_vars
<1>1. Init => JoinInv
  BY DEF Init, JoinInv, Threads
<1>2. IInv => Left \in 0 .. 14
  BY LeftIs DEF IInv, Left, MainLeft, RxLeft, Threads
<1>3. IInv /\ JoinInv /\ [Next]_vars => [Ending => signals' # signals \/ Left' < Left]_vars
  <2> SUFFICES ASSUME IInv, JoinInv, Next, Ending, signals' = signals PROVE Left' < Left
    OBVIOUS
  <2>1. CASE MainServes
    BY <2>1 DEF Ending, MainServes, MainLocks, MainUnlocks, MainPrints, MainPrinted, CreateRx, Go
  <2>2. CASE Kill
    BY <2>2 DEF Kill, IInv, TypeOK
  <2>3. CASE Receive
    BY <2>3, RxGetsNearer
  <2>4. CASE Signaled \/ MainEnds
    BY <2>4, HandlerGetsOn DEF Signaled, MainEnds, Threads
  <2>5. CASE RxRuns
    BY <2>5, RxGetsNearer, HandlerGetsOn DEF RxRuns, Threads
  <2> QED BY <2>1, <2>2, <2>3, <2>4, <2>5 DEF Next
<1>4. IInv /\ JoinInv /\ [Next]_vars => JoinInv'
  BY JoinInvStep
<1> QED BY Invariance, <1>1, <1>2, <1>3, <1>4, PTL DEF Spec
=============================================================================
