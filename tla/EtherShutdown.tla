---------------------------- MODULE EtherShutdown ----------------------------
(***************************************************************************)
(* How cdc-ether ends: int_handler of c/cdc-ether.c, which a SIGTERM runs  *)
(* on a thread wherever that thread is, its critical sections included.    *)
(* The handler cancels rx_data_thread and joins it, and then does the same *)
(* to the main thread, which in the end is itself.                         *)
(*                                                                         *)
(* The two threads are those of EtherRx; what counts of them here is which *)
(* locks they hold (rx_data_send_mutex and stdio's lock of stdout), which  *)
(* ones they wait for, and where they can be cancelled.  Cancellation is   *)
(* deferred: recv, send, usleep, close and pthread_join act on it, printf  *)
(* may, pthread_mutex_lock does not.  signal() masks the signal while its  *)
(* handler runs, for the thread that runs it; Linux gives a signal to the  *)
(* main thread unless that masks it.  What ends the process otherwise (an  *)
(* exit() of either thread) is left out.                                   *)
(***************************************************************************)
EXTENDS Naturals

CONSTANT
    MaxSignals      \* bound: how often the process is killed

ASSUME ShutdownAssumption == MaxSignals \in Nat

VARIABLES
    pc,         \* where each thread is, see MainPC and RxPC
    handler,    \* where it is in int_handler, "no" outside
    canceled,   \* pthread_cancel has been called for it
    owner,      \* the thread that holds each lock, or nobody
    pending,    \* a signal waits for a thread
    signals     \* signals there have been

vars == <<pc, handler, canceled, owner, pending, signals>>

Threads == {"main", "rx"}
Locks   == {"ring", "stdout"}

MainPC == {"wait", "section", "print", "dead"}
RxPC   == {"none", "say", "saying", "recv", "lock", "section", "full", "complain",
           "unlock", "sleep", "send", "dead"}

Init ==
    /\ pc = [t \in Threads |-> IF t = "main" THEN "wait" ELSE "none"]
    /\ handler = [t \in Threads |-> "no"]
    /\ canceled = [t \in Threads |-> FALSE]
    /\ owner = [l \in Locks |-> "nobody"]
    /\ pending = FALSE
    /\ signals = 0

Alive(t) == pc[t] \notin {"none", "dead"}
Ended    == ~\E t \in Threads : Alive(t)

\* t goes on in its own code.
Go(t, from, to) ==
    /\ handler[t] = "no"
    /\ pc[t] = from
    /\ pc' = [pc EXCEPT ![t] = to]
    /\ UNCHANGED <<handler, canceled, pending, signals>>

Lock(t, l) == owner[l] = "nobody" /\ owner' = [owner EXCEPT ![l] = t]
Unlock(l)  == owner' = [owner EXCEPT ![l] = "nobody"]

-----------------------------------------------------------------------------
(* The main thread: start_rx_data, handle_data and rx_data_process_stop    *)
(* have a section of the mutex each, and usbip_run prints.                 *)

MainLocks   == Go("main", "wait", "section") /\ Lock("main", "ring")
MainUnlocks == Go("main", "section", "wait") /\ Unlock("ring")
MainPrints  == Go("main", "wait", "print") /\ Lock("main", "stdout")
MainPrinted == Go("main", "print", "wait") /\ Unlock("stdout")

CreateRx ==
    /\ handler["main"] = "no"
    /\ pc["main"] = "wait"
    /\ pc["rx"] = "none"
    /\ pc' = [pc EXCEPT !["rx"] = "say"]
    /\ UNCHANGED <<handler, canceled, owner, pending, signals>>

-----------------------------------------------------------------------------
(* rx_data_thread and send_usb_req_data.                                   *)

\* "Listenning" at its begin, "packet is not ipv4" of a frame.
Says == Go("rx", "say", "saying") /\ Lock("rx", "stdout")
Said == Go("rx", "saying", "recv") /\ Unlock("stdout")

\* A thread that has been cancelled gets no further than the next call that
\* acts on it.
Receive == /\ ~canceled["rx"]
           /\ \E to \in {"lock", "say"} : Go("rx", "recv", to)
           /\ UNCHANGED owner
Sleeps  == ~canceled["rx"] /\ Go("rx", "sleep", "lock") /\ UNCHANGED owner
Sends   == ~canceled["rx"] /\ Go("rx", "send", "recv") /\ UNCHANGED owner

RxLocks == Go("rx", "lock", "section") /\ Lock("rx", "ring")

\* Variant: the early return forgets the mutex.
RxUnlocksOnce ==
    \/ Go("rx", "section", "recv") /\ UNCHANGED owner
    \/ \E to \in {"sleep", "send"} : Go("rx", "section", to) /\ Unlock("ring")

\* Disabled; no grant yet; a grant is taken.
RxUnlocks == \E to \in {"recv", "sleep", "send"} :
                Go("rx", "section", to) /\ Unlock("ring")

\* The grant is too small, which is printed before the mutex is released.
TooSmall   == Go("rx", "section", "full") /\ UNCHANGED owner
Complains  == Go("rx", "full", "complain") /\ Lock("rx", "stdout")
Complained == Go("rx", "complain", "unlock") /\ Unlock("stdout")
GivesUp    == Go("rx", "unlock", "recv") /\ Unlock("ring")

-----------------------------------------------------------------------------
(* int_handler.                                                            *)

Kill ==
    /\ ~Ended
    /\ signals < MaxSignals
    /\ signals' = signals + 1
    /\ pending' = TRUE
    /\ UNCHANGED <<pc, handler, canceled, owner>>

\* Variant: rx masks the signal.
TakesMainOnly(t) == Alive(t) /\ handler[t] = "no" /\ t = "main"

\* The signal is not masked.
Takes(t) == Alive(t) /\ handler[t] = "no"

Deliver(t) ==
    /\ pending
    /\ Takes(t)
    /\ t = "rx" => ~Takes("main")
    /\ pending' = FALSE
    /\ handler' = [handler EXCEPT ![t] = "print"]
    /\ UNCHANGED <<pc, canceled, owner, signals>>

\* t cancels u and joins it next; rx first, when there is one.
Cancels(t, u) ==
    /\ handler' = [handler EXCEPT ![t] = IF u = "rx" THEN "join" ELSE "joinMain"]
    /\ canceled' = [canceled EXCEPT ![u] = TRUE]
    /\ UNCHANGED <<pc, owner, pending, signals>>

\* printf("TERM"), for which t needs stdout if it has not interrupted itself
\* holding it, and pthread_cancel.
HandlerPrints(t) ==
    /\ Alive(t)
    /\ handler[t] = "print"
    /\ owner["stdout"] \in {"nobody", t}
    /\ Cancels(t, IF pc["rx"] = "none" THEN "main" ELSE "rx")

\* Variant: the handler has no need to cancel the thread that runs it.
JoinsRxReturns ==
    /\ Alive("main")
    /\ handler["main"] = "join"
    /\ pc["rx"] = "dead"
    /\ handler' = [handler EXCEPT !["main"] = "no"]
    /\ UNCHANGED <<pc, canceled, owner, pending, signals>>

\* pthread_join returns in main when rx has ended.
JoinsRx ==
    /\ Alive("main")
    /\ handler["main"] = "join"
    /\ pc["rx"] = "dead"
    /\ Cancels("main", "main")

\* It returns at once (EINVAL) in rx when main is waiting for rx too.
JoinRefused ==
    /\ Alive("rx") /\ Alive("main")
    /\ handler["rx"] = "join"
    /\ handler["main"] = "join"
    /\ Cancels("rx", "main")

\* A call that acts on a cancellation.  In the handler these are pthread_join,
\* which for the caller itself would return at once without one, and printf.
CancellationPoint(t) ==
    \/ handler[t] = "no" /\ pc[t] \in {"recv", "sleep", "send", "saying", "complain"}
    \/ handler[t] = "print" /\ owner["stdout"] \in {"nobody", t}
    \/ handler[t] \in {"join", "joinMain"}

\* stdio lets go of stdout when it is left this way; the mutex stays locked.
Dies(t) ==
    /\ Alive(t)
    /\ canceled[t]
    /\ CancellationPoint(t)
    /\ pc' = [pc EXCEPT ![t] = "dead"]
    /\ owner' = IF owner["stdout"] = t THEN [owner EXCEPT !["stdout"] = "nobody"]
                                       ELSE owner
    /\ UNCHANGED <<handler, canceled, pending, signals>>

-----------------------------------------------------------------------------
MainServes == MainLocks \/ MainUnlocks \/ MainPrints \/ MainPrinted \/ CreateRx

MainEnds == HandlerPrints("main") \/ JoinsRx \/ Dies("main")

RxRuns ==
    \/ Says \/ Said \/ Sleeps \/ Sends
    \/ RxLocks \/ RxUnlocks \/ TooSmall \/ Complains \/ Complained \/ GivesUp
    \/ HandlerPrints("rx") \/ JoinRefused \/ Dies("rx")

Signaled == \E t \in Threads : Deliver(t)

Next == MainServes \/ Receive \/ Kill \/ Signaled \/ MainEnds \/ RxRuns

\* The threads are scheduled and signals are delivered; a thread that waits for
\* stdout gets it when it is free again and again.  Nothing is assumed of frames,
\* requests and who sends a signal.
Spec == Init /\ [][Next]_vars /\ WF_vars(Signaled) /\ SF_vars(MainEnds) /\ WF_vars(RxRuns)
-----------------------------------------------------------------------------
\* Where a thread holds a lock, unless it has died with it.
Holds(t, l) ==
    IF l = "stdout" THEN pc[t] \in {"print", "saying", "complain"}
                    ELSE pc[t] \in {"section", "full", "complain", "unlock"}

\* The types; and every way out of a critical section lets go of its lock.
TypeOK ==
    /\ pc \in [Threads -> MainPC \cup RxPC]
    /\ pc["main"] \in MainPC /\ pc["rx"] \in RxPC
    /\ handler \in [Threads -> {"no", "print", "join", "joinMain"}]
    /\ canceled \in [Threads -> BOOLEAN]
    /\ owner \in [Locks -> Threads \cup {"nobody"}]
    /\ pending \in BOOLEAN
    /\ signals \in 0 .. MaxSignals
    /\ \A t \in Threads, l \in Locks :
          /\ Holds(t, l) => owner[l] = t
          /\ owner[l] = t => Holds(t, l) \/ (l = "ring" /\ pc[t] = "dead")

\* A thread may be cancelled with the mutex locked, and then no thread serves
\* on that would wait for it: all that are left run int_handler.
NoWaitForTheDead ==
    \A t \in Threads :
        pc[t] = "dead" /\ owner["ring"] = t =>
            \A u \in Threads : Alive(u) => handler[u] # "no"

\* main was interrupted with a lock in its hands and waits for rx, and rx waits
\* for that lock.
Stuck ==
    /\ handler["main"] = "join"
    /\ \/ owner["ring"] = "main" /\ handler["rx"] = "no" /\ pc["rx"] = "lock"
       \/ owner["stdout"] = "main" /\ handler["rx"] = "no" /\ pc["rx"] \in {"say", "full"}
       \/ owner["stdout"] = "main" /\ handler["rx"] = "print"

\* A signal ends the process, but for the deadlock that is Stuck.
EndsUnlessStuck == signals > 0 ~> (Ended \/ Stuck)

\* A signal that comes while main waits for rx resolves the deadlock over the
\* mutex: rx runs the handler and cancels main.
SecondSignalEnds ==
    (pending /\ handler["main"] = "join" /\ owner["stdout"] # "main") ~> Ended
=============================================================================
