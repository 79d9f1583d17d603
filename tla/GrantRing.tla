----------------------------- MODULE GrantRing ------------------------------
(***************************************************************************)
(* The grant arrays of c/cdc-ether.c: two parallel arrays used as a ring,  *)
(* a position to read from, a position to write to, an enable flag, and    *)
(* the mutex rx_data_send_mutex that guards the five of them.  Each action *)
(* is one critical section of that mutex, from lock to unlock.             *)
(*                                                                         *)
(* The code never compares the two positions: an empty ring and a full one *)
(* both have current = next, and only the marker -1 in a slot tells them   *)
(* apart.  Nor does a writer look at the slot it writes to.  What keeps    *)
(* the ring sound is the client, which must not have more than             *)
(* RX_DATA_SEND_SEQ_ARRAY_SIZE transfers submitted at a time: Window.      *)
(***************************************************************************)
EXTENDS Integers, Sequences

CONSTANTS
    Seqnums,    \* sequence numbers a client gives its transfers
    Sizes,      \* lengths of transfers and of frames (bl, num_bytes)
    Window,     \* transfers a client keeps submitted at any one time
    ArraySize   \* RX_DATA_SEND_SEQ_ARRAY_SIZE

\* The marker of a slot that holds no grant: -1 in the code.
NoSeq == -1

\* handle_data drops bl = 0 before the lock, and the vhci client counts its
\* transfers from 1 up, so that no seqnum is the marker.
ASSUME RingAssumption ==
    /\ ArraySize \in Nat \ {0}
    /\ Window \in Nat
    /\ Seqnums \subseteq Nat
    /\ Sizes \subseteq Nat \ {0}

VARIABLES
    seq_array,      \* rx_data_send_seq_array
    size_array,     \* rx_data_send_size_array
    current_pos,    \* rx_data_current_send_seq_pos
    next_pos,       \* rx_data_next_send_seq_pos
    enable,         \* rx_data_enable
    taken,          \* usb_req.seqnum and size of the receive thread
    outstanding     \* transfers the client has submitted and the ring not used

ringVars == <<seq_array, size_array, current_pos, next_pos, enable, taken,
              outstanding>>

Pos == 0 .. ArraySize - 1

\* Variant: the position runs off the end of the arrays.
SuccNoWrap(p) == p + 1

\* The position after p.
Succ(p) == (p + 1) % ArraySize

\* The position k steps after p.
Ahead(p, k) == (p + k) % ArraySize

Init ==
    /\ seq_array = [i \in Pos |-> NoSeq]
    /\ size_array = [i \in Pos |-> 0]
    /\ current_pos = 0
    /\ next_pos = 0
    /\ enable = TRUE
    /\ taken = [seq |-> 0, len |-> 0]
    /\ outstanding = 0

\* Variant: the size goes to the slot that is read next.
SubmitSizeAtCurrent(s, bl) ==
    /\ outstanding < Window
    /\ seq_array' = [seq_array EXCEPT ![next_pos] = s]
    /\ size_array' = [size_array EXCEPT ![current_pos] = bl]
    /\ next_pos' = Succ(next_pos)
    /\ outstanding' = outstanding + 1
    /\ UNCHANGED <<current_pos, enable, taken>>

\* A slot is written although it still holds a grant unless the client obeys
\* its window; the guard is the client's, the rest is handle_data's.
Submit(s, bl) ==
    /\ outstanding < Window
    /\ seq_array' = [seq_array EXCEPT ![next_pos] = s]
    /\ size_array' = [size_array EXCEPT ![next_pos] = bl]
    /\ next_pos' = Succ(next_pos)
    /\ outstanding' = outstanding + 1
    /\ UNCHANGED <<current_pos, enable, taken>>

\* What send_usb_req_data finds when it has the lock and a frame of length len:
\* the gadget is stopped, no grant, a grant that is too small, or one to take.
\* The array holds an int and len is unsigned; the lengths of transfers are
\* positive (RingAssumption), for which the comparison is the one of numbers.
Disabled    == ~enable
NoGrant     == enable /\ seq_array[current_pos] = NoSeq
TooSmall(len) ==
    /\ enable
    /\ seq_array[current_pos] # NoSeq
    /\ size_array[current_pos] < len

\* Variants: the size is not looked at; the slot keeps its grant.
TakeAnySize(len) ==
    /\ enable
    /\ seq_array[current_pos] # NoSeq
    /\ taken' = [seq |-> seq_array[current_pos], len |-> len]
    /\ seq_array' = [seq_array EXCEPT ![current_pos] = NoSeq]
    /\ current_pos' = Succ(current_pos)
    /\ outstanding' = outstanding - 1
    /\ UNCHANGED <<size_array, next_pos, enable>>

TakeKeepsSlot(len) ==
    /\ enable
    /\ seq_array[current_pos] # NoSeq
    /\ size_array[current_pos] >= len
    /\ taken' = [seq |-> seq_array[current_pos], len |-> len]
    /\ current_pos' = Succ(current_pos)
    /\ outstanding' = outstanding - 1
    /\ UNCHANGED <<seq_array, size_array, next_pos, enable>>

\* The grant at the read position is used for a frame of length len.
Take(len) ==
    /\ enable
    /\ seq_array[current_pos] # NoSeq
    /\ size_array[current_pos] >= len
    /\ taken' = [seq |-> seq_array[current_pos], len |-> len]
    /\ seq_array' = [seq_array EXCEPT ![current_pos] = NoSeq]
    /\ current_pos' = Succ(current_pos)
    /\ outstanding' = outstanding - 1
    /\ UNCHANGED <<size_array, next_pos, enable>>

\* start_rx_data
Enable ==
    /\ enable' = TRUE
    /\ UNCHANGED <<seq_array, size_array, current_pos, next_pos, taken,
                   outstanding>>

\* Variants: the write position, or the flag, is not reset.
StopKeepsNext ==
    /\ enable' = FALSE
    /\ current_pos' = 0
    /\ seq_array' = [i \in Pos |-> NoSeq]
    /\ size_array' = [i \in Pos |-> 0]
    /\ outstanding' = 0
    /\ UNCHANGED <<next_pos, taken>>

StopKeepsEnable ==
    /\ current_pos' = 0
    /\ next_pos' = 0
    /\ seq_array' = [i \in Pos |-> NoSeq]
    /\ size_array' = [i \in Pos |-> 0]
    /\ outstanding' = 0
    /\ UNCHANGED <<enable, taken>>

\* rx_data_process_stop.  The client is gone: it waits for nothing any more.
Stop ==
    /\ enable' = FALSE
    /\ current_pos' = 0
    /\ next_pos' = 0
    /\ seq_array' = [i \in Pos |-> NoSeq]
    /\ size_array' = [i \in Pos |-> 0]
    /\ outstanding' = 0
    /\ UNCHANGED taken

Next ==
    \/ \E s \in Seqnums, bl \in Sizes : Submit(s, bl)
    \/ \E len \in Sizes : Take(len)
    \/ Enable
    \/ Stop

Spec == Init /\ [][Next]_ringVars
-----------------------------------------------------------------------------
TypeOK ==
    /\ seq_array \in [Pos -> Seqnums \cup {NoSeq}]
    /\ size_array \in [Pos -> Sizes \cup {0}]
    /\ current_pos \in Pos
    /\ next_pos \in Pos
    /\ enable \in BOOLEAN
    /\ taken \in [seq: Seqnums \cup {0}, len: Sizes \cup {0}]
    /\ outstanding \in Nat

\* How many steps it takes the reader to reach position i.
Distance(i) == IF i >= current_pos THEN i - current_pos
                                   ELSE i - current_pos + ArraySize

\* The ring holds as many grants as the client waits for, in the slots that
\* the reader comes to next, and nothing anywhere else: neither position
\* moves past a grant or before a hole.  The code keeps no count to say so.
Shape ==
    /\ outstanding <= ArraySize
    /\ next_pos = Ahead(current_pos, outstanding)
    /\ \A i \in Pos : seq_array[i] # NoSeq <=> Distance(i) < outstanding

\* A slot that holds a grant holds its size too: no frame is measured against
\* the 0 or the size that an earlier grant left in the parallel array.
SizesMatch == \A i \in Pos : seq_array[i] # NoSeq => size_array[i] # 0

\* The grants the ring holds, in the order the reader comes to them.
Contents ==
    [k \in 1 .. outstanding |->
        [seq  |-> seq_array[Ahead(current_pos, k - 1)],
         size |-> size_array[Ahead(current_pos, k - 1)]]]

\* The ring is a bounded queue of grants.
Queue == INSTANCE GrantQueue WITH queue <- Contents
ImplementsQueue == Queue!Spec
=============================================================================
