--------------------------- MODULE ChecksumProofs ---------------------------
(***************************************************************************)
(* Theorems about Checksum, for a byte of any size and segments of any     *)
(* length.  Two bytes add at most Word - 1, so that a whole segment adds   *)
(* at most half of Width; what a fold takes away is a multiple of Word - 1.*)
(* At the end is a measure that each step makes less: the loops end.       *)
(***************************************************************************)
EXTENDS Checksum, TLAPS

\* 2 * total is at most this after n bytes of the segment.
Bound(n) ==
    IF n % 2 = 0 THEN n * (Word - 1)
                 ELSE (n - 1) * (Word - 1) + 2 * (Word - Byte)

\* total, as long as it is added up, and how the two sums differ afterwards.
SumInv ==
    /\ pc = "payload" => sum = total /\ i <= Length /\ 2 * total <= Bound(i)
    /\ pc = "addrs" => /\ sum = total /\ i <= 8
                       /\ 2 * total <= Word * (Word - 1) + 2 * (i * Word)
    /\ pc = "fold" => \E k \in Nat : total = sum + k * (Word - 1)

IInv ==
    /\ TypeOK
    /\ pc = "frame" => i = 0 /\ sum = 0 /\ total = 0
    /\ SumInv
    /\ Accepted

-----------------------------------------------------------------------------
(* Arithmetic.                                                             *)

\* What is known of the sizes.
LEMMA WordFacts ==
    /\ Byte \in Nat /\ Word \in Nat /\ Width \in Nat
    /\ 25 <= Word /\ 5 * Byte <= Word /\ Word <= Width
    /\ \A b \in 0 .. Byte - 1 : b * Byte \in 0 .. Word - Byte
<1>1. Byte \in Nat /\ Byte >= 5
  BY ChecksumAssumption
<1>2. Word \in Nat /\ 5 * Byte <= Word
  BY <1>1 DEF Word
<1>3. Width \in Nat /\ Word <= Width
  <2>1. \A w \in Nat : w >= 25 => w * w \in Nat /\ w <= w * w
    OBVIOUS
  <2> QED BY <1>1, <1>2, <2>1 DEF Width
<1>4. ASSUME NEW b \in 0 .. Byte - 1 PROVE b * Byte \in 0 .. Word - Byte
  <2>1. b * Byte <= (Byte - 1) * Byte /\ b * Byte \in Nat
    BY <1>1
  <2>2. (Byte - 1) * Byte = Word - Byte
    BY <1>1 DEF Word
  <2> QED BY <1>1, <1>2, <2>1, <2>2
<1> QED BY <1>1, <1>2, <1>3, <1>4

\* What is shifted is at most two bytes' worth, and the low byte of two fits.
LEMMA ShiftedFacts ==
    ASSUME NEW b \in 0 .. Byte - 1, i \in Nat
    PROVE  /\ Shifted(b) \in 0 .. Word - Byte
           /\ i % 2 = 1 => Shifted(b) \in 0 .. Byte - 1
BY WordFacts DEF Shifted

\* The bound grows with the bytes.
LEMMA BoundGrows ==
    ASSUME NEW n \in Nat
    PROVE  /\ Bound(n) \in Nat
           /\ n % 2 = 0 => Bound(n) + 2 * (Word - Byte) <= Bound(n + 1)
           /\ n % 2 = 1 => Bound(n) + 2 * (Byte - 1) <= Bound(n + 1)
<1> DEFINE w == Word - 1
<1>1. w \in Nat /\ Word - Byte \in Nat /\ Byte - 1 \in Nat
  BY WordFacts, ChecksumAssumption
<1>2. n * w \in Nat /\ (n + 1 - 1) * w = n * w /\ (n + 1) * w = n * w + w
  BY <1>1
<1>3. n >= 1 => (n - 1) * w \in Nat /\ (n - 1) * w = n * w - w
  BY <1>1
<1>4. n % 2 = 0 \/ n % 2 = 1
  OBVIOUS
<1>5. n % 2 = 0 => (n + 1) % 2 = 1
  OBVIOUS
<1>6. n % 2 = 1 => (n + 1) % 2 = 0 /\ n >= 1
  OBVIOUS
<1> HIDE DEF w
<1>7. n % 2 = 0 => Bound(n) = n * w /\ Bound(n + 1) = n * w + 2 * (Word - Byte)
  BY <1>2, <1>5 DEF Bound, w
<1>8. n % 2 = 1 => /\ Bound(n) = n * w - w + 2 * (Word - Byte)
                   /\ Bound(n + 1) = n * w + w
  BY <1>2, <1>3, <1>6 DEF Bound, w
<1>9. 2 * (Word - Byte) + 2 * (Byte - 1) = 2 * w
  BY WordFacts DEF w
<1> QED BY <1>1, <1>2, <1>3, <1>4, <1>6, <1>7, <1>8, <1>9

\* The bound of the longest segment.
LEMMA BoundOfAll ==
    ASSUME NEW n \in 0 .. Word - 1
    PROVE  Bound(n) <= Word * (Word - 1)
<1> DEFINE w == Word - 1
<1>1. w \in Nat /\ n \in Nat /\ n <= w /\ Word - Byte \in Nat /\ Word - Byte <= w
  BY WordFacts, ChecksumAssumption
<1>2. n * w <= w * w /\ Word * w = w * w + w /\ w * w \in Nat
  BY <1>1, WordFacts
<1>3. (n - 1) * w = n * w - w
  BY <1>1
<1> QED BY <1>1, <1>2, <1>3 DEF Bound

\* 32 bits are enough.
LEMMA Fits ==
    /\ Word * (Word - 1) + 2 * (8 * Word) + 2 * (2 * Word) < 2 * Width
    /\ Word * (Word - 1) \in Nat
<1>1. Word \in Nat /\ Word >= 25
  BY WordFacts
<1>2. Word * (Word - 1) = Width - Word /\ Width \in Nat
  BY <1>1 DEF Width
<1>3. 25 * Word <= Width
  BY <1>1 DEF Width
<1> QED BY <1>1, <1>2, <1>3

\* A sum that fits is not changed by the width.
LEMMA SmallMod ==
    ASSUME NEW m \in Nat, NEW n \in Nat, n < m
    PROVE  n % m = n
OBVIOUS

\* Of a negative number as well, % gives what an unsigned type holds.
LEMMA ModRange ==
    ASSUME NEW n \in Int, NEW m \in Int, m > 0
    PROVE  n % m \in 0 .. m - 1 /\ n = (n \div m) * m + (n % m)
OBVIOUS

\* The two parts of a sum, low and high.
LEMMA Parts ==
    ASSUME NEW s \in Nat
    PROVE  /\ s % Word \in 0 .. Word - 1
           /\ s \div Word \in Nat
           /\ s = (s \div Word) * Word + (s % Word)
           /\ s >= Word => s \div Word >= 1
           /\ s < Width => s \div Word < Word
<1>1. ASSUME NEW m \in Nat \ {0}
      PROVE  s % m \in 0 .. m - 1 /\ s \div m \in Int /\ s = (s \div m) * m + (s % m)
  OBVIOUS
<1>2. /\ s % Word \in 0 .. Word - 1 /\ s \div Word \in Int
      /\ s = (s \div Word) * Word + (s % Word)
  BY <1>1, WordFacts
<1> DEFINE q == s \div Word
<1> HIDE DEF q
<1>3. ASSUME NEW a \in Int, NEW m \in Nat, m >= 1
      PROVE  (a <= -1 => a * m <= -m) /\ (a <= 0 => a * m <= 0) /\ (a >= m => a * m >= m * m)
  OBVIOUS
<1>4. q \in Int /\ s = q * Word + (s % Word)
  BY <1>2 DEF q
<1>5. /\ q <= -1 => q * Word <= -Word
      /\ q <= 0 => q * Word <= 0
      /\ q >= Word => q * Word >= Width
  BY <1>3, <1>4, WordFacts DEF Width
<1>6. q >= 0 /\ (s >= Word => q >= 1) /\ (s < Width => q < Word)
  BY <1>2, <1>4, <1>5, WordFacts
<1> QED BY <1>2, <1>6 DEF q

\* A multiple is one.
LEMMA MultipleMod ==
    ASSUME NEW m \in Nat \ {0}, NEW k \in Nat
    PROVE  (k * m) % m = 0
<1> DEFINE q == (k * m) \div m
           r == (k * m) % m
<1>1. k * m \in Nat
  OBVIOUS
<1>2. q \in Int /\ r \in 0 .. m - 1 /\ k * m = q * m + r
  BY <1>1
<1>3. (k - q) * m = r
  BY <1>2
<1> HIDE DEF q, r
<1>4. k - q >= 1 => (k - q) * m >= m
  BY <1>2
<1>5. k - q <= -1 => (k - q) * m <= -m
  BY <1>2
<1>6. k - q = 0
  BY <1>2, <1>3, <1>4, <1>5
<1>7. r = 0
  BY <1>2, <1>3, <1>6
<1> QED BY <1>7 DEF r

-----------------------------------------------------------------------------
(* The steps.                                                              *)

\* The length is one of 16 bits, also when the difference is negative.
LEMMA LengthFits ==
    ASSUME TypeOK
    PROVE  Length \in 0 .. Word - 1
<1>1. frame.tot_len \in TotalLengths /\ frame.iph_len \in HeaderLengths
  BY DEF TypeOK, Frames
<1>2. frame.tot_len \in 0 .. Word - 1 /\ frame.iph_len \in Nat
  BY <1>1, ChecksumAssumption
<1>3. frame.tot_len - frame.iph_len \in Int
  BY <1>2, WordFacts
<1> QED BY <1>3, ModRange, WordFacts DEF Length

\* One byte more: the bound holds for it, and the sum fits.
LEMMA PayloadKeeps == IInv /\ Payload => IInv'
<1> SUFFICES ASSUME IInv, Payload PROVE IInv'
  OBVIOUS
<1>1. PICK b \in 0 .. Byte - 1 : Adds(Shifted(b))
  BY DEF Payload, AddByte
<1>2. /\ pc = "payload" /\ i \in Nat /\ i < Length /\ i' = i + 1
      /\ sum = total /\ total \in Nat /\ 2 * total <= Bound(i)
      /\ UNCHANGED <<frame, pc, check>>
  BY DEF Payload, AddByte, IInv, SumInv, TypeOK
<1>3. Length \in 0 .. Word - 1 /\ Length' = Length
  BY <1>2, LengthFits DEF IInv, Length
<1>4. 2 * (total + Shifted(b)) <= Bound(i + 1) /\ Shifted(b) \in Nat
  BY <1>2, ShiftedFacts, BoundGrows, WordFacts
<1>5. 2 * (total + Shifted(b)) <= Word * (Word - 1)
  BY <1>2, <1>3, <1>4, BoundOfAll, BoundGrows, Fits, WordFacts
<1>6. total + Shifted(b) < Width
  BY <1>2, <1>4, <1>5, Fits, WordFacts
<1>7. sum' = total + Shifted(b) /\ total' = total + Shifted(b) /\ sum' \in 0 .. Width - 1
  BY <1>1, <1>2, <1>4, <1>6, SmallMod, WordFacts DEF Adds
<1>8. TypeOK'
  BY <1>2, <1>3, <1>4, <1>7, WordFacts DEF IInv, TypeOK
<1>9. Bound(i)' = Bound(i')
  BY DEF Bound
<1>10. SumInv'
  BY <1>2, <1>3, <1>4, <1>7, <1>9 DEF SumInv
<1> QED BY <1>2, <1>8, <1>10 DEF IInv, Accepted

\* A byte of an address: eight times Word is room enough.
LEMMA AddressesKeep == IInv /\ Addresses => IInv'
<1> SUFFICES ASSUME IInv, Addresses PROVE IInv'
  OBVIOUS
<1>1. PICK b \in 0 .. Byte - 1 : Adds(Shifted(b))
  BY DEF Addresses, AddByte
<1>2. /\ pc = "addrs" /\ i \in Nat /\ i < 8 /\ i' = i + 1
      /\ sum = total /\ total \in Nat
      /\ 2 * total <= Word * (Word - 1) + 2 * (i * Word)
      /\ UNCHANGED <<frame, pc, check>>
  BY DEF Addresses, AddByte, IInv, SumInv, TypeOK
<1>3. Shifted(b) \in Nat /\ Shifted(b) <= Word
  BY <1>2, ShiftedFacts, WordFacts
<1>4. i * Word + Word = (i + 1) * Word /\ (i + 1) * Word <= 8 * Word /\ i * Word \in Nat
  BY <1>2, WordFacts
<1>5. 2 * (total + Shifted(b)) <= Word * (Word - 1) + 2 * ((i + 1) * Word)
  BY <1>2, <1>3, <1>4, WordFacts, Fits
<1>6. total + Shifted(b) < Width
  BY <1>2, <1>3, <1>4, <1>5, Fits, WordFacts
<1>7. sum' = total + Shifted(b) /\ total' = total + Shifted(b) /\ sum' \in 0 .. Width - 1
  BY <1>1, <1>2, <1>3, <1>6, SmallMod, WordFacts DEF Adds
<1>8. TypeOK'
  BY <1>2, <1>3, <1>7, WordFacts DEF IInv, TypeOK
<1>9. SumInv'
  BY <1>2, <1>5, <1>7 DEF SumInv
<1> QED BY <1>2, <1>8, <1>9 DEF IInv, Accepted

\* The end of the segment: what has been added is at most half of Width.
LEMMA PayloadEndsKeeps == IInv /\ PayloadEnds => IInv'
<1> SUFFICES ASSUME IInv, PayloadEnds PROVE IInv'
  OBVIOUS
<1>1. /\ pc = "payload" /\ i = Length /\ sum = total /\ 2 * total <= Bound(i)
      /\ pc' = "addrs" /\ i' = 0 /\ UNCHANGED <<frame, sum, total, check>>
  BY DEF PayloadEnds, IInv, SumInv
<1>2. Length \in 0 .. Word - 1
  BY LengthFits DEF IInv
<1>3. 2 * total <= Word * (Word - 1)
  BY <1>1, <1>2, BoundOfAll, BoundGrows, Fits DEF IInv, TypeOK
<1>4. TypeOK'
  BY <1>1, WordFacts DEF IInv, TypeOK, PC
<1>5. SumInv'
  BY <1>1, <1>3, Fits, WordFacts DEF SumInv
<1> QED BY <1>1, <1>4, <1>5 DEF IInv, Accepted

\* Protocol and length, after which the sums begin to differ.
LEMMA PseudoHeaderKeeps == IInv /\ PseudoHeader => IInv'
<1> SUFFICES ASSUME IInv, PseudoHeader PROVE IInv'
  OBVIOUS
<1> DEFINE n == frame.protocol + Length
<1>1. /\ pc = "addrs" /\ i = 8 /\ pc' = "fold" /\ UNCHANGED <<frame, i, check>>
      /\ sum = total /\ total \in Nat
      /\ 2 * total <= Word * (Word - 1) + 2 * (8 * Word)
      /\ Adds(n)
  BY DEF PseudoHeader, IInv, SumInv, TypeOK
<1>2. n \in Nat /\ n <= 2 * Word
  <2>1. frame.protocol \in 0 .. Byte - 1
    BY ChecksumAssumption DEF IInv, TypeOK, Frames
  <2> QED BY <2>1, LengthFits, WordFacts DEF IInv
<1> HIDE DEF n
<1>3. total + n < Width /\ total + n \in Nat
  BY <1>1, <1>2, Fits, WordFacts
<1>4. sum' = total + n /\ total' = total + n
  BY <1>1, <1>3, SmallMod, WordFacts DEF Adds
<1>5. TypeOK'
  BY <1>1, <1>3, <1>4, WordFacts DEF IInv, TypeOK, PC
<1>6. SumInv'
  <2>1. total' = sum' + 0 * (Word - 1)
    BY <1>3, <1>4, WordFacts
  <2> QED BY <1>1, <2>1 DEF SumInv
<1> QED BY <1>1, <1>5, <1>6 DEF IInv, Accepted

\* A fold takes a multiple of Word - 1 away, at least one.
LEMMA FoldKeeps == IInv /\ Fold => IInv'
<1> SUFFICES ASSUME IInv, Fold PROVE IInv'
  OBVIOUS
<1> DEFINE low  == sum % Word
           high == sum \div Word
<1>1. /\ pc = "fold" /\ sum \in Nat /\ sum < Width /\ sum' = low + high
      /\ UNCHANGED <<frame, pc, i, total, check>>
  BY WordFacts DEF IInv, TypeOK, Fold
<1>2. low \in 0 .. Word - 1 /\ high \in Nat /\ sum = high * Word + low
  BY <1>1, Parts
<1> HIDE DEF low, high
<1>3. sum = sum' + high * (Word - 1) /\ sum' \in Nat /\ sum' <= sum
  BY <1>1, <1>2, WordFacts
<1>4. PICK k \in Nat : total = sum + k * (Word - 1)
  BY <1>1 DEF IInv, SumInv
<1>5. total = sum' + (k + high) * (Word - 1) /\ k + high \in Nat
  BY <1>2, <1>3, <1>4, WordFacts
<1>6. TypeOK'
  BY <1>1, <1>3, WordFacts DEF IInv, TypeOK
<1>7. SumInv'
  BY <1>1, <1>5 DEF SumInv
<1> QED BY <1>1, <1>6, <1>7 DEF IInv, Accepted

\* The complement fills sum up to Word - 1.
LEMMA FinishKeeps == IInv /\ Finish => IInv'
<1> SUFFICES ASSUME IInv, Finish PROVE IInv'
  OBVIOUS
<1>1. /\ pc = "fold" /\ pc' = "checked" /\ sum \in Nat /\ sum < Word /\ total \in Nat
      /\ check' = Word - 1 - sum /\ UNCHANGED <<frame, i, sum, total>>
  BY WordFacts DEF IInv, TypeOK, Finish
<1>2. PICK k \in Nat : total = sum + k * (Word - 1)
  BY <1>1 DEF IInv, SumInv
<1>3. total' + check' = (k + 1) * (Word - 1) /\ k + 1 \in Nat /\ Word - 1 \in Nat \ {0}
  BY <1>1, <1>2, WordFacts
<1>4. (total' + check') % (Word - 1) = 0
  BY <1>3, MultipleMod
<1>5. total' + check' > 0
  <2>1. k * (Word - 1) \in Nat
    BY <1>2, WordFacts
  <2> QED BY <1>1, <1>2, <2>1, WordFacts
<1>6. TypeOK'
  BY <1>1, WordFacts DEF IInv, TypeOK, PC
<1>7. SumInv'
  BY <1>1 DEF SumInv
<1> QED BY <1>1, <1>4, <1>5, <1>6, <1>7 DEF IInv, Accepted

\* The first step: nothing has been added.
LEMMA DispatchKeeps == IInv /\ Dispatch => IInv'
<1> SUFFICES ASSUME IInv, Dispatch PROVE IInv'
  OBVIOUS
<1>1. /\ pc = "frame" /\ pc' \in {"payload", "kept", "dropped"}
      /\ i = 0 /\ sum = 0 /\ total = 0 /\ UNCHANGED <<frame, i, sum, total, check>>
  BY DEF IInv, Dispatch
<1>2. Length' = Length /\ Length \in 0 .. Word - 1
  BY <1>1, LengthFits DEF IInv, Length
<1>3. Bound(0) = 0 /\ Bound(i)' = Bound(i')
  BY WordFacts DEF Bound
<1>4. TypeOK'
  BY <1>1 DEF IInv, TypeOK, PC
<1>5. SumInv'
  BY <1>1, <1>2, <1>3, WordFacts DEF SumInv
<1> QED BY <1>1, <1>4, <1>5 DEF IInv, Accepted

-----------------------------------------------------------------------------
\* The initial state has the invariant.
LEMMA InitIInv == Init => IInv
<1> SUFFICES ASSUME Init PROVE IInv
  OBVIOUS
<1>1. TypeOK
  BY WordFacts DEF Init, TypeOK, PC
<1> QED BY <1>1 DEF Init, IInv, SumInv, Accepted

\* Every step keeps it.
LEMMA NextIInv == IInv /\ [Next]_vars => IInv'
<1>1. IInv /\ UNCHANGED vars => IInv'
  BY DEF vars, IInv, TypeOK, SumInv, Accepted, Bound, Length
<1> QED BY <1>1, DispatchKeeps, PayloadKeeps, PayloadEndsKeeps, AddressesKeep,
           PseudoHeaderKeeps, FoldKeeps, FinishKeeps DEF Next

\* It holds in every behaviour.
LEMMA Invariance == Spec => []IInv
BY InitIInv, NextIInv, PTL DEF Spec

\* The types of send_usb_req_data's variables, each in its width.
THEOREM ChecksumTypeCorrect == Spec => []TypeOK
<1>1. IInv => TypeOK
  BY DEF IInv
<1> QED BY <1>1, Invariance, PTL

\* net_checksum_add loses no carry, whatever the bytes and the length.
THEOREM ChecksumNoOverflow == Spec => []NoOverflow
<1>1. IInv => NoOverflow
  BY DEF IInv, SumInv, NoOverflow
<1> QED BY <1>1, Invariance, PTL

\* What net_checksum_finish returns makes the receiver take the segment.
THEOREM ChecksumAccepted == Spec => []Accepted
<1>1. IInv => Accepted
  BY DEF IInv
<1> QED BY <1>1, Invariance, PTL

-----------------------------------------------------------------------------
(* The loops end.                                                          *)

\* More steps than this are not left: each takes from it.  A fold makes the sum smaller,
\* and so counts for as much as it takes.
StepsLeft ==
    CASE pc = "frame"   -> Width + 10 + Word
      [] pc = "payload" -> Width + 10 + (Length - i)
      [] pc = "addrs"   -> Width + 1 + (8 - i)
      [] pc = "fold"    -> sum + 1
      [] pc \in {"checked", "kept", "dropped"} -> 0

LEMMA StepsLeftIs ==
    ASSUME TypeOK
    PROVE  /\ pc = "frame" => StepsLeft = Width + 10 + Word
           /\ pc = "payload" => StepsLeft = Width + 10 + (Length - i)
           /\ pc = "addrs" => StepsLeft = Width + 1 + (8 - i)
           /\ pc = "fold" => StepsLeft = sum + 1
           /\ pc \in {"checked", "kept", "dropped"} => StepsLeft = 0
BY DEF StepsLeft

LEMMA StepsLeftIsNext ==
    /\ pc' = "payload" => StepsLeft' = Width + 10 + (Length' - i')
    /\ pc' = "addrs" => StepsLeft' = Width + 1 + (8 - i')
    /\ pc' = "fold" => StepsLeft' = sum' + 1
    /\ pc' \in {"checked", "kept", "dropped"} => StepsLeft' = 0
BY DEF StepsLeft

LEMMA StepsLeftNat == IInv => StepsLeft \in Nat
<1> SUFFICES ASSUME IInv PROVE StepsLeft \in Nat
  OBVIOUS
<1>1. /\ Width \in Nat /\ Word \in Nat /\ Length \in Nat /\ i \in Nat /\ sum \in Nat
      /\ pc \in PC /\ TypeOK
  BY WordFacts, LengthFits DEF IInv, TypeOK
<1>2. (pc = "payload" => i <= Length) /\ (pc = "addrs" => i <= 8)
  BY DEF IInv, SumInv
<1> QED BY <1>1, <1>2, StepsLeftIs DEF PC

\* A fold takes at least Word - 1 away.
LEMMA FoldTakes ==
    ASSUME NEW s \in Nat, s >= Word
    PROVE  (s % Word) + (s \div Word) < s
<1> DEFINE q == s \div Word
           r == s % Word
<1>1. q \in Nat /\ r \in Nat /\ s = q * Word + r /\ q >= 1 /\ Word \in Nat /\ Word >= 25
  BY Parts, WordFacts
<1> HIDE DEF q, r
<1>2. q * Word >= q * 25 /\ q * Word \in Nat
  BY <1>1
<1> QED BY <1>1, <1>2 DEF q, r

\* Each step leaves fewer.
LEMMA StepTakes == IInv /\ Next => StepsLeft' < StepsLeft
<1> SUFFICES ASSUME IInv, Next PROVE StepsLeft' < StepsLeft
  OBVIOUS
<1>1. /\ Width \in Nat /\ Word \in Nat /\ Word <= Width /\ Length \in 0 .. Word - 1
      /\ i \in Nat /\ sum \in Nat /\ TypeOK
  BY WordFacts, LengthFits DEF IInv, TypeOK
<1>2. frame' = frame => Length' = Length
  BY DEF Length
<1>3. TypeOK'
  BY NextIInv DEF IInv
<1>4. sum' \in Nat /\ sum' <= Width - 1
  BY <1>1, <1>3 DEF TypeOK
<1>5. CASE Dispatch
  <2>1. pc = "frame" /\ i = 0 /\ pc' \in {"payload", "kept", "dropped"} /\ UNCHANGED <<frame, i>>
    BY <1>5 DEF Dispatch, IInv
  <2>2. StepsLeft = Width + 10 + Word
    BY <1>1, <2>1, StepsLeftIs
  <2>3. CASE pc' = "payload"
    <3>1. StepsLeft' = Width + 10 + (Length - 0)
      BY <1>2, <2>1, <2>3, StepsLeftIsNext
    <3> QED BY <1>1, <2>2, <3>1
  <2>4. CASE pc' \in {"kept", "dropped"}
    <3>1. StepsLeft' = 0
      BY <2>4, StepsLeftIsNext
    <3> QED BY <1>1, <2>2, <3>1
  <2> QED BY <2>1, <2>3, <2>4
<1>6. CASE Payload
  <2>1. pc = "payload" /\ pc' = "payload" /\ i' = i + 1 /\ Length' = Length
    BY <1>2, <1>6 DEF Payload, AddByte
  <2> QED BY <1>1, <2>1, StepsLeftIs, StepsLeftIsNext
<1>7. CASE PayloadEnds
  <2>1. pc = "payload" /\ pc' = "addrs" /\ i = Length /\ i' = 0
    BY <1>7 DEF PayloadEnds
  <2> QED BY <1>1, <2>1, StepsLeftIs, StepsLeftIsNext
<1>8. CASE Addresses
  <2>1. pc = "addrs" /\ pc' = "addrs" /\ i' = i + 1
    BY <1>8 DEF Addresses, AddByte
  <2> QED BY <1>1, <2>1, StepsLeftIs, StepsLeftIsNext
<1>9. CASE PseudoHeader
  <2>1. pc = "addrs" /\ pc' = "fold" /\ i = 8
    BY <1>9 DEF PseudoHeader
  <2>2. StepsLeft = Width + 1
    BY <1>1, <2>1, StepsLeftIs
  <2>3. StepsLeft' = sum' + 1
    BY <2>1, StepsLeftIsNext
  <2>4. \A s, w \in Nat : s <= w - 1 => s + 1 < w + 1
    OBVIOUS
  <2>5. sum' + 1 < Width + 1
    BY <1>1, <1>4, <2>4
  <2> QED BY <2>2, <2>3, <2>5
<1>10. CASE Fold
  <2>1. /\ pc = "fold" /\ pc' = "fold" /\ sum >= Word
        /\ sum' = (sum % Word) + (sum \div Word)
    BY <1>10 DEF Fold
  <2>2. sum' < sum
    BY <1>1, <2>1, FoldTakes
  <2> QED BY <1>1, <1>4, <2>1, <2>2, StepsLeftIs, StepsLeftIsNext
<1>11. CASE Finish
  <2>1. pc = "fold" /\ pc' = "checked"
    BY <1>11 DEF Finish
  <2> QED BY <1>1, <2>1, StepsLeftIs, StepsLeftIsNext
<1> QED BY <1>5, <1>6, <1>7, <1>8, <1>9, <1>10, <1>11 DEF Next

\* The loops of send_usb_req_data, net_checksum_add and net_checksum_finish end, for any
\* length and any bytes: there is a number that each of their steps makes smaller, and
\* that is never below 0.
THEOREM ChecksumEnds == Spec => [](StepsLeft \in Nat) /\ [][StepsLeft' < StepsLeft]_vars
<1>1. IInv => StepsLeft \in Nat
  BY StepsLeftNat
<1>2. IInv /\ [Next]_vars => [StepsLeft' < StepsLeft]_vars
  BY StepTakes
<1> QED BY Invariance, <1>1, <1>2, PTL DEF Spec
=============================================================================
