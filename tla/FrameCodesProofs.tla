--------------------------- MODULE FrameCodesProofs ---------------------------
(***************************************************************************)
(* Theorems about FrameCodes, for payloads and bursts of any length: the    *)
(* Viterbi decoder answers the most likely payload, wrong soft bits are     *)
(* corrected, a symbol's soft bits measure the distance to the decision     *)
(* levels, wrong bits of a Golay word are corrected or noticed, a header is *)
(* delivered or refused, and a frame comes back from its interleaver with   *)
(* a burst spread.                                                          *)
(* Interleaver's own theorems come first: a frame comes back in its order   *)
(* and with its bits for every size and every polynomial that permutes the  *)
(* positions, every randomizer sequence and every strength of the soft      *)
(* bits; and the polynomial of Numerology.h does permute them.              *)
(***************************************************************************)
EXTENDS FrameCodes, ConvolutionalCodeProofs, HeaderCodeProofs

Permutes == \A i, j \in Positions : Index(i) = Index(j) => i = j

-----------------------------------------------------------------------------
\* The interleaver's polynomial gives a position of the frame.
LEMMA IndexIsPosition == \A i \in Positions : Index(i) \in Positions
<1>1. SUFFICES ASSUME NEW i \in Positions PROVE Index(i) \in Positions
  OBVIOUS
<1>2. FrameBits \in Nat \ {0} /\ F1 \in Nat /\ F2 \in Nat /\ i \in Nat
  BY InterleaverAssumption DEF Positions
<1>3. (i * i) % FrameBits \in Nat /\ F1 * i \in Nat
  BY <1>2
<1>4. F1 * i + F2 * ((i * i) % FrameBits) \in Nat
  BY <1>2, <1>3
<1>5. QED
  BY <1>2, <1>4 DEF Index, Positions

\* Every bit is deinterleaved from where it was interleaved to.
LEMMA SourceOfIndex ==
  ASSUME Permutes, NEW i \in Positions
  PROVE  Source[Index(i)] = i
<1>1. Index(i) \in Positions
  BY IndexIsPosition
<1>2. \E k \in Positions : Index(k) = Index(i)
  OBVIOUS
<1>3. Source[Index(i)] = CHOOSE k \in Positions : Index(k) = Index(i)
  BY <1>1, <1>2 DEF Source
<1>4. \A k \in Positions : Index(k) = Index(i) => k = i
  BY DEF Permutes
<1>5. QED
  BY <1>2, <1>3, <1>4

\* A bit that was interleaved is deinterleaved to where it was.
LEMMA Deinterleaved ==
  ASSUME Permutes, NEW data
  PROVE  \A i \in Positions : DeinterleaveFrame(InterleaveFrame(data))[i] = data[i]
<1>1. SUFFICES ASSUME NEW i \in Positions
               PROVE  DeinterleaveFrame(InterleaveFrame(data))[i] = data[i]
  OBVIOUS
<1>2. Index(i) \in Positions /\ Source[Index(i)] = i /\ i # -1
  BY IndexIsPosition, SourceOfIndex, InterleaverAssumption DEF Positions
<1>3. InterleaveFrame(data)[Index(i)] = data[i]
  BY <1>2 DEF InterleaveFrame
<1>4. QED
  BY <1>3 DEF DeinterleaveFrame

\* Where the randomizer inverts a bit the derandomizer inverts the soft bit's sign.
LEMMA Derandomized ==
  ASSUME NEW bits, NEW p \in Positions, bits[p] \in {0, 1},
         NEW dc, dc[p] \in {-1, 1}, NEW strength, strength[p] \in Nat \ {0}
  PROVE  HardBit(Derandomize(SoftFrame(Randomize(bits, dc), strength), dc)[p]) = bits[p]
<1> DEFINE random == Randomize(bits, dc)
           soft == SoftFrame(random, strength)
<1>1. random[p] = IF dc[p] = -1 THEN 1 - bits[p] ELSE bits[p]
  BY DEF Randomize
<1>2. soft[p] = IF random[p] = 1 THEN strength[p] ELSE -strength[p]
  BY DEF SoftFrame
<1>3. Derandomize(soft, dc)[p] = soft[p] * dc[p]
  BY DEF Derandomize
<1> HIDE DEF random, soft
<1>4. CASE dc[p] = 1
  <2>1. Derandomize(soft, dc)[p] = IF bits[p] = 1 THEN strength[p] ELSE -strength[p]
    BY <1>1, <1>2, <1>3, <1>4
  <2>2. HardBit(Derandomize(soft, dc)[p]) = bits[p]
    BY <2>1 DEF HardBit
  <2>3. QED
    BY <2>2 DEF random, soft
<1>5. CASE dc[p] = -1
  <2>1. Derandomize(soft, dc)[p] = IF bits[p] = 1 THEN strength[p] ELSE -strength[p]
    BY <1>1, <1>2, <1>3, <1>5
  <2>2. HardBit(Derandomize(soft, dc)[p]) = bits[p]
    BY <2>1 DEF HardBit
  <2>3. QED
    BY <2>2 DEF random, soft
<1>6. QED
  BY <1>4, <1>5

-----------------------------------------------------------------------------
\* A frame that is received as it was sent, more or less strongly, comes back as it was,
\* whatever the randomizer's sequence is.
THEOREM FrameComesBack ==
  ASSUME Permutes,
         NEW data \in [Positions -> {0, 1}],
         NEW dc \in [Positions -> {-1, 1}],
         NEW strength \in [Positions -> Nat \ {0}]
  PROVE  LET onAir == Randomize(InterleaveFrame(data), dc)
             received == DeinterleaveFrame(Derandomize(SoftFrame(onAir, strength), dc))
         IN  \A i \in Positions : HardBit(received[i]) = data[i]
<1> DEFINE bits == InterleaveFrame(data)
           back == Derandomize(SoftFrame(Randomize(bits, dc), strength), dc)
<1>1. SUFFICES ASSUME NEW i \in Positions
               PROVE  HardBit(DeinterleaveFrame(back)[i]) = data[i]
  OBVIOUS
<1>2. Index(i) \in Positions
  BY IndexIsPosition
<1>3. DeinterleaveFrame(back)[i] = back[Index(i)]
  BY DEF DeinterleaveFrame
<1>4. bits[Index(i)] = data[i]
  BY Deinterleaved DEF DeinterleaveFrame
<1> HIDE DEF bits
<1>5. HardBit(back[Index(i)]) = bits[Index(i)]
  BY <1>2, <1>4, Derandomized
<1> HIDE DEF back
<1>6. QED
  BY <1>3, <1>4, <1>5

\* With K = 2152, F1 = 59 and F2 = 1076 = K/2 the quadratic term only adds K/2 at the odd
\* positions.
LEMMA QuadraticTerm ==
  ASSUME NEW i \in Nat
  PROVE  (1076 * ((i * i) % 2152)) % 2152 = 1076 * (i % 2)
<1>1. PICK m \in Nat, p \in {0, 1} : i = 2 * m + p
  <2>1. i = 2 * (i \div 2) + (i % 2) /\ i \div 2 \in Nat /\ i % 2 \in {0, 1}
    OBVIOUS
  <2>2. QED
    BY <2>1
<1>2. PICK s \in Nat : i * i = 2 * s + p
  <2>1. i * i = 2 * (2 * (m * m) + 2 * (m * p)) + p
    BY <1>1
  <2>2. 2 * (m * m) + 2 * (m * p) \in Nat
    BY <1>1
  <2>3. QED
    BY <2>1, <2>2
<1> DEFINE q == (i * i) \div 2152
           r == (i * i) % 2152
<1>3. 2 * s + p = 2152 * q + r /\ q \in Nat /\ r \in 0..2151
  <2>1. i * i \in Nat
    OBVIOUS
  <2>2. i * i = 2152 * q + r /\ q \in Nat /\ r \in 0..2151
    BY <2>1
  <2>3. QED
    BY <1>2, <2>2
<1> HIDE DEF q, r
<1>4. r % 2 = p /\ i % 2 = p
  BY <1>1, <1>2, <1>3
<1>5. (1076 * r) % 2152 = 1076 * (r % 2)
  BY <1>3
<1>6. QED
  BY <1>4, <1>5 DEF r

\* So the interleaver's polynomial is a linear one on either the even or the odd positions.
Linear(k) == 59 * k + 1076 * (k % 2)
Remainder(n) == n % 2152

\* The polynomial of Numerology.h is linear on the even positions and on the odd ones.
LEMMA IndexByParity ==
  ASSUME FrameBits = 2152, F1 = 59, F2 = 1076
  PROVE  \A k \in Nat : Index(k) = Remainder(Linear(k))
<1>0. SUFFICES ASSUME NEW k \in Nat PROVE Index(k) = Remainder(Linear(k))
  OBVIOUS
<1> DEFINE r == (k * k) % 2152
<1>1. r \in Nat
  <2>1. k * k \in Nat
    OBVIOUS
  <2>2. QED
    BY <2>1
<1>2. (1076 * r) % 2152 = 1076 * (k % 2)
  BY QuadraticTerm
<1>3. Index(k) = (59 * k + 1076 * r) % 2152
  BY DEF Index
<1> HIDE DEF r
<1>4. (59 * k + 1076 * r) % 2152 = (59 * k + ((1076 * r) % 2152)) % 2152
  BY <1>1
<1>5. QED
  BY <1>2, <1>3, <1>4 DEF Linear, Remainder

\* The interleaver's polynomial permutes the positions of a frame: no two bits of a
\* frame are written to the same place, and none is left unwritten.
THEOREM PolynomialPermutes ==
  ASSUME FrameBits = 2152, F1 = 59, F2 = 1076
  PROVE  Permutes
<1>1. SUFFICES ASSUME NEW i \in Positions, NEW j \in Positions, Index(i) = Index(j)
               PROVE  i = j
  BY DEF Permutes
<1>2. i \in 0..2151 /\ j \in 0..2151
  BY DEF Positions
<1>3. i \in Nat /\ j \in Nat
  BY <1>2
<1>4. Remainder(Linear(i)) = Remainder(Linear(j))
  BY <1>1, <1>3, IndexByParity
<1>5. PICK u \in Int : 59 * (i - j) + 1076 * ((i % 2) - (j % 2)) = 2152 * u
  <2> DEFINE x == Linear(i)
             y == Linear(j)
  <2>1. x \in Nat /\ y \in Nat
    BY <1>3 DEF Linear
  <2> HIDE DEF x, y
  <2>2. x % 2152 = y % 2152
    BY <1>4 DEF Remainder, x, y
  <2>3. x - y = 2152 * ((x \div 2152) - (y \div 2152))
    BY <2>1, <2>2
  <2>4. (x \div 2152) - (y \div 2152) \in Int
    BY <2>1
  <2>5. x - y = 59 * (i - j) + 1076 * ((i % 2) - (j % 2))
    BY <1>3 DEF Linear, x, y
  <2>6. QED
    BY <2>3, <2>4, <2>5
\* 59 * (i - j) is even, and so i and j are both even or both odd.
<1>6. i % 2 = j % 2
  BY <1>2, <1>5
<1>7. 59 * (i - j) = 2152 * u
  BY <1>2, <1>5, <1>6
\* 59 is a unit modulo 2152: 59 * 1459 = 1 + 2152 * 40.
<1>8. i - j = 2152 * (1459 * u - 40 * (i - j))
  <2> DEFINE d == i - j
  <2>1. d \in Int /\ 59 * d = 2152 * u
    BY <1>2, <1>7
  <2> HIDE DEF d
  <2>2. d = 2152 * (1459 * u - 40 * d)
    BY <2>1
  <2>3. QED
    BY <2>2 DEF d
<1>9. QED
  <2> DEFINE d == i - j
             w == 1459 * u - 40 * d
  <2>1. d \in Int /\ -2152 < d /\ d < 2152 /\ w \in Int /\ d = 2152 * w
    BY <1>2, <1>8
  <2> HIDE DEF d, w
  <2>2. d = 0
    BY <2>1
  <2>3. QED
    BY <1>2, <2>2 DEF d

-----------------------------------------------------------------------------
(***************************************************************************)
(* The payload's invariant: its decoder has searched the pairs it has       *)
(* taken, and what it answers is the chainback of a search of all of them.  *)
(***************************************************************************)
Pairs == PayloadBits + K

PayloadInv ==
  kind = "payload" =>
    /\ sent \in [1..PayloadBits -> {0, 1}]
    /\ stage \in {"sent", "air", "received"}
    /\ stage = "sent" => trellis = StartTrellis
    /\ stage # "sent" =>
         /\ errors \in Disturbances("payload")
         /\ air \in Receivable(Pairs)
         /\ Disturbed(air, sent \o Flush, errors.at, Pairs)
         /\ PairsDone \in 0..Pairs
         /\ Searched(trellis, air, Pairs, PairsDone)
    /\ stage = "received" => PairsDone = Pairs /\ decoded = Chainback(trellis, PayloadBits)

\* The payload and its flush are a natural number of pairs, whose costs do not reach the metric
\* of a state that is not reached.
LEMMA PairsType == PayloadBits \in Nat /\ Pairs \in Nat /\ PayloadBits \in 0..Pairs /\ 28 * Pairs < MaxMetric
<1>1. PayloadBits \in Nat /\ 4 * LlrLimit * (PayloadBits + K) < MaxMetric
  BY CodesAssumption
<1>2. 4 * LlrLimit = 28 /\ K = 4
  BY DEF K, LlrLimit
<1>3. 4 * LlrLimit * (PayloadBits + K) = 28 * Pairs
  BY <1>2, Zenon DEF Pairs
<1>4. PayloadBits + 4 \in Nat /\ PayloadBits \in 0..PayloadBits + 4
  BY <1>1
<1>5. QED
  BY <1>1, <1>2, <1>3, <1>4, Zenon DEF Pairs

\* A payload's messages and what the channel does to them.
LEMMA PayloadMessages ==
  /\ Messages("payload") = [1..PayloadBits -> {0, 1}]
  /\ \A e \in Disturbances("payload") : e.strength \in {1, LlrLimit}
<1>1. "payload" # "word" /\ "payload" # "header"
  OBVIOUS
<1>2. Messages("payload") = [1..PayloadBits -> {0, 1}]
  BY <1>1, Zenon DEF Messages
<1>3. \A e \in Disturbances("payload") : e.strength \in {1, LlrLimit}
  BY SMT DEF Disturbances
<1>4. QED
  BY <1>2, <1>3, Zenon

\* A function on an interval from 1 is a sequence.
LEMMA FunctionIsSeq ==
  ASSUME NEW S, NEW n \in Nat, NEW f \in [1..n -> S]
  PROVE  f \in Seq(S) /\ Len(f) = n
  OBVIOUS

\* Two such functions after each other are one.
LEMMA FunctionsConcat ==
  ASSUME NEW S, NEW m \in Nat, NEW s \in [1..m -> S], NEW n \in Nat, NEW f \in [1..n -> S]
  PROVE  s \o f \in [1..m+n -> S]
<1>1. s \in Seq(S) /\ Len(s) = m
  BY FunctionIsSeq
<1>2. f \in Seq(S) /\ Len(f) = n
  BY FunctionIsSeq
<1>3. s \o f \in Seq(S) /\ Len(s \o f) = m + n
  BY <1>1, <1>2, ConcatProperties
<1>4. \A r \in Seq(S) : r \in [1..Len(r) -> S]
  OBVIOUS
<1>5. QED
  BY <1>3, <1>4, Zenon

\* What the encoder is given, the payload and its flush, is a path.
LEMMA PathSent ==
  ASSUME NEW payload \in [1..PayloadBits -> {0, 1}]
  PROVE  payload \o Flush \in Bits(Pairs)
<1>1. Flush \in [1..4 -> {0, 1}] /\ 4 \in Nat
  <2>1. [i \in 1..4 |-> 0] \in [1..4 -> {0, 1}]
    OBVIOUS
  <2>2. QED
    BY <2>1 DEF Flush, K
<1>2. payload \o Flush \in [1..PayloadBits + 4 -> {0, 1}]
  BY <1>1, PairsType, FunctionsConcat
<1>3. QED
  BY <1>2, Numbers, Zenon DEF Bits, Pairs

\* What it sends for it are the path's coded bits.
LEMMA EncodedStream ==
  ASSUME NEW payload \in [1..PayloadBits -> {0, 1}]
  PROVE  \A n \in 1..2*Pairs : /\ EncodeStream(payload)[n] \in {0, 1}
                               /\ EncodeStream(payload)[n] = CodedBit(payload \o Flush, n)
<1>1. PICK b \in Bits(Pairs) : b = payload \o Flush
  BY PathSent, Zenon
<1>2. /\ \A m \in 1..2*Pairs : CodedBit(b, m) \in {0, 1}
      /\ EncodeBits(b) = [m \in 1..2*Pairs |-> CodedBit(b, m)]
  BY PairsType, EncodeBitsIs, Zenon
<1>3. EncodeStream(payload) = EncodeBits(b)
  BY <1>1, Zenon DEF EncodeStream
<1>4. QED
  BY <1>1, <1>2, <1>3, Zenon

\* Every soft bit on the air is one, and is what it should be unless the channel made it wrong.
LEMMA AirType ==
  ASSUME kind = "payload", sent \in [1..PayloadBits -> {0, 1}],
         errors' \in Disturbances(kind)
  PROVE  /\ OnAir \in Receivable(Pairs)
         /\ Disturbed(OnAir, sent \o Flush, errors'.at, Pairs)
<1>1. \A n \in 1..2*Pairs : /\ EncodeStream(sent)[n] \in {0, 1}
                            /\ EncodeStream(sent)[n] = CodedBit(sent \o Flush, n)
  BY EncodedStream
<1>2. errors'.strength \in {1, 7}
  BY PayloadMessages, Numbers, Zenon
<1>3. OnAir = [n \in 1..2 * Pairs |->
            IF n \in errors'.at
            THEN Ideal(1 - EncodeStream(sent)[n]) \div (LlrLimit \div errors'.strength)
            ELSE Ideal(EncodeStream(sent)[n])]
  BY DEF OnAir, Pairs
<1>4. \A c \in {0, 1} : Ideal(c) \in {-7, 7} /\ Ideal(1 - c) \in {-7, 7}
  BY DEF Ideal, LlrLimit
<1>5. \A v \in {-7, 7} : v \in Soft /\ v \div 7 \in Soft
  <2>1. 7 \div 7 = 1 /\ (-7) \div 7 = -1
    OBVIOUS
  <2>2. QED
    BY <2>1 DEF Soft
<1>6. \A v \in {-7, 7}, s \in {1, 7} : v \div (LlrLimit \div s) \in {v, v \div 7}
  <2>1. 7 \div 1 = 7 /\ 7 \div 7 = 1 /\ (-7) \div 1 = -7
    OBVIOUS
  <2>2. \A s \in {1, 7} : LlrLimit \div s \in {1, 7}
    BY <2>1 DEF LlrLimit
  <2>3. \A v \in {-7, 7}, d \in {1, 7} : v \div d \in {v, v \div 7}
    BY <2>1
  <2>4. QED
    BY <2>2, <2>3
<1>7. \A n \in 1..2*Pairs :
        LET c == CodedBit(sent \o Flush, n)
        IN  /\ n \notin errors'.at => OnAir[n] = Ideal(c)
            /\ n \in errors'.at => OnAir[n] \in {Ideal(1 - c), Ideal(1 - c) \div 7}
  BY <1>1, <1>2, <1>3, <1>4, <1>6, Zenon
<1>8. \A n \in 1..2*Pairs : OnAir[n] \in Soft
  <2>1. SUFFICES ASSUME NEW n \in 1..2*Pairs PROVE OnAir[n] \in Soft
    BY Zenon
  <2>2. PICK c \in {0, 1} : c = CodedBit(sent \o Flush, n)
    BY <1>1, Zenon
  <2>3. Ideal(c) \in Soft /\ Ideal(1 - c) \in Soft /\ Ideal(1 - c) \div 7 \in Soft
    BY <1>4, <1>5, Zenon
  <2>4. OnAir[n] \in {Ideal(c), Ideal(1 - c), Ideal(1 - c) \div 7}
    BY <1>7, <2>2, Zenon
  <2>5. QED
    BY <2>3, <2>4, Zenon
<1>9. QED
  BY <1>3, <1>7, <1>8, Zenon DEF Receivable, Disturbed

\* The invariant holds before a payload is sent.
LEMMA PayloadInit == Init => PayloadInv
<1>1. SUFFICES ASSUME Init, kind = "payload"
               PROVE  /\ sent \in [1..PayloadBits -> {0, 1}]
                      /\ stage = "sent" /\ trellis = StartTrellis
  BY Zenon DEF PayloadInv
<1>2. sent \in Messages("payload") /\ stage = "sent" /\ trellis = StartTrellis
  BY <1>1, Zenon DEF Init
<1>3. QED
  BY <1>2, PayloadMessages, Zenon

\* Sending a payload keeps it.
LEMMA PayloadTransmit ==
  ASSUME PayloadInv, Transmit
  PROVE  PayloadInv'
<1>1. CASE kind # "payload"
  BY <1>1, Zenon DEF Transmit, PayloadInv
<1>2. CASE kind = "payload"
  <2>1. /\ sent \in [1..PayloadBits -> {0, 1}] /\ trellis = StartTrellis
        /\ stage' = "air" /\ errors' \in Disturbances(kind) /\ air' = OnAir
        /\ kind' = kind /\ sent' = sent /\ trellis' = trellis
    BY <1>2, Zenon DEF Transmit, PayloadInv
  <2>2. PICK soft \in Receivable(Pairs) :
          soft = air' /\ Disturbed(air', sent' \o Flush, errors'.at, Pairs)
    BY <1>2, <2>1, AirType, Zenon
  <2>3. Searched(StartTrellis, soft, Pairs, 0)
    BY PairsType, SearchStarts, Zenon
  <2>4. Len(trellis'.history) = 0
    BY <2>1 DEF StartTrellis
  <2>5. 0 \in 0..Pairs /\ "air" # "sent" /\ "air" # "received"
    BY PairsType
  <2>6. QED
    BY <1>2, <2>1, <2>2, <2>3, <2>4, <2>5, Zenon DEF PayloadInv, PairsDone
<1>3. QED
  BY <1>1, <1>2, Zenon

\* An iteration of the decoder's loop keeps it.
LEMMA PayloadDecodePair ==
  ASSUME PayloadInv, DecodePair
  PROVE  PayloadInv'
<1>1. /\ kind = "payload" /\ stage = "air" /\ PairsDone < PayloadBits + K
      /\ trellis' = AddPair(trellis, <<air[2 * PairsDone + 1], air[2 * PairsDone + 2]>>)
      /\ stage' = stage /\ kind' = kind /\ sent' = sent /\ air' = air /\ errors' = errors
  BY Zenon DEF DecodePair
<1>2. "air" # "sent" /\ "air" # "received"
  OBVIOUS
<1>3. /\ sent \in [1..PayloadBits -> {0, 1}] /\ air \in Receivable(Pairs)
      /\ errors \in Disturbances("payload")
      /\ Disturbed(air, sent \o Flush, errors.at, Pairs)
      /\ PairsDone \in 0..Pairs /\ Searched(trellis, air, Pairs, PairsDone)
  BY <1>1, <1>2, Zenon DEF PayloadInv
<1>4. PICK soft \in Receivable(Pairs) : soft = air
  BY <1>3, Zenon
<1>5. PICK t \in 0..Pairs-1 : t = PairsDone
  <2>1. PICK n \in Nat : n = Pairs
    BY PairsType, Zenon
  <2>2. PairsDone \in 0..n /\ PairsDone < n
    BY <1>1, <1>3, <2>1, Zenon DEF Pairs
  <2>3. PairsDone \in 0..n-1
    BY <2>2
  <2>4. QED
    BY <2>1, <2>3, Zenon
<1>6. PICK old : old = trellis
  OBVIOUS
<1>7. PICK next : next = AddPair(old, <<soft[2 * t + 1], soft[2 * t + 2]>>)
  OBVIOUS
<1>8. Searched(old, soft, Pairs, t)
  BY <1>3, <1>4, <1>5, <1>6, Zenon
<1>9. Searched(next, soft, Pairs, t + 1)
  BY <1>7, <1>8, PairsType, SearchGoesOn
<1>10. trellis' = next
  BY <1>1, <1>4, <1>5, <1>6, <1>7, Zenon
<1>11. Len(next.history) = t + 1
  BY <1>9, Zenon DEF Searched, TrellisType
<1>12. t + 1 \in 0..Pairs
  BY PairsType
<1>13. QED
  BY <1>1, <1>2, <1>3, <1>4, <1>9, <1>10, <1>11, <1>12, Zenon DEF PayloadInv, PairsDone

\* The chainback keeps it.
LEMMA PayloadReceive ==
  ASSUME PayloadInv, Receive
  PROVE  PayloadInv'
<1>1. CASE kind # "payload"
  BY <1>1, Zenon DEF Receive, PayloadInv
<1>2. CASE kind = "payload"
  <2>1. /\ stage = "air" /\ stage' = "received" /\ PairsDone = Pairs /\ decoded' = Decoding
        /\ kind' = kind /\ sent' = sent /\ air' = air /\ trellis' = trellis
        /\ errors' = errors
    BY <1>2, Zenon DEF Receive, Pairs
  <2>2. "air" # "sent" /\ "received" # "sent" /\ "payload" # "word" /\ "payload" # "header"
    OBVIOUS
  <2>3. Decoding = Chainback(trellis, PayloadBits)
    BY <1>2, <2>2, Zenon DEF Decoding
  <2>4. QED
    BY <1>2, <2>1, <2>2, <2>3, Zenon DEF PayloadInv, PairsDone
<1>3. QED
  BY <1>1, <1>2, Zenon

\* Every step keeps it.
LEMMA PayloadStep == PayloadInv /\ [Next]_vars => PayloadInv'
<1>1. ASSUME PayloadInv, UNCHANGED vars PROVE PayloadInv'
  BY <1>1, Zenon DEF PayloadInv, vars, PairsDone
<1>2. QED
  BY <1>1, PayloadTransmit, PayloadDecodePair, PayloadReceive, Zenon DEF Next

\* The payload's decoder is always somewhere in a search whose metrics are the distances
\* of the nearest paths and whose history leads back along them.
THEOREM SearchSound == Spec => []PayloadInv
<1>1. QED
  BY PayloadInit, PayloadStep, PTL DEF Spec

\* CodeBook's entries are the sequences of bits with the ideal values of their codes.
LEMMA CodeBookEntry ==
  ASSUME NEW b \in Bits(Pairs), NEW soft \in Receivable(Pairs), soft = air
  PROVE  LET ideal == [n \in 1..Len(EncodeBits(b)) |-> Ideal(EncodeBits(b)[n])]
         IN  Distance(ideal) = DistanceTo(b, soft, Pairs)[Pairs]
<1>1. PICK n \in Nat : n = 2*Pairs
  BY PairsType
<1>2. PICK code \in [1..n -> {0, 1}] : code = EncodeBits(b)
  <2>1. /\ \A m \in 1..2*Pairs : CodedBit(b, m) \in {0, 1}
        /\ EncodeBits(b) = [m \in 1..2*Pairs |-> CodedBit(b, m)]
    BY PairsType, EncodeBitsIs, Zenon
  <2>2. EncodeBits(b) \in [1..n -> {0, 1}]
    BY <1>1, <2>1, Zenon
  <2>3. QED
    BY <2>2, Zenon
<1>3. \A m \in 1..n : code[m] = CodedBit(b, m)
  BY <1>1, <1>2, PairsType, EncodeBitsIs, Zenon
<1>4. Len(code) = n
  OBVIOUS
<1> DEFINE ideal == [m \in 1..Len(EncodeBits(b)) |-> Ideal(EncodeBits(b)[m])]
<1>5. \A m \in 1..2*Pairs : ideal[m] = Ideal(CodedBit(b, m))
  BY <1>1, <1>2, <1>3, <1>4, Zenon
<1> HIDE DEF ideal
<1>6. DistanceOf(ideal, soft) = DistanceTo(b, soft, Pairs)[Pairs]
  BY <1>5, PairsType, DistanceIs, Zenon
<1>7. Distance(ideal) = DistanceOf(ideal, air)
  BY Zenon DEF Distance, DistanceOf
<1>8. QED
  BY <1>6, <1>7, Zenon DEF ideal

\* With the invariant, the decoder's answer is a most likely one.
LEMMA PayloadMostLikely == PayloadInv => MostLikely
<1>1. SUFFICES ASSUME PayloadInv, kind = "payload", stage = "received"
               PROVE  /\ \A c \in CodeBook : decoded.metric <= Distance(c.ideal)
                      /\ \E c \in CodeBook :
                           /\ SubSeq(c.bits, 1, PayloadBits) = decoded.bits
                           /\ Distance(c.ideal) = decoded.metric
  BY Zenon DEF MostLikely, Received
<1>2. "received" # "sent"
  OBVIOUS
<1>3. /\ air \in Receivable(Pairs) /\ Searched(trellis, air, Pairs, Pairs)
      /\ decoded = Chainback(trellis, PayloadBits)
  BY <1>1, <1>2, Zenon DEF PayloadInv
<1>4. PICK soft \in Receivable(Pairs) : soft = air
  BY <1>3, Zenon
<1>5. PICK last : last = trellis
  OBVIOUS
<1>6. Searched(last, soft, Pairs, Pairs)
  BY <1>3, <1>4, <1>5, Zenon
<1> DEFINE answer == Chainback(last, PayloadBits)
<1>7. /\ \A c \in Bits(Pairs) : answer.metric <= DistanceTo(c, soft, Pairs)[Pairs]
      /\ \E b \in Bits(Pairs) : /\ answer.bits = [t \in 1..PayloadBits |-> b[t]]
                                /\ answer.metric = DistanceTo(b, soft, Pairs)[Pairs]
  <2>1. /\ \A c \in Bits(Pairs) : answer.metric <= DistanceTo(c, soft, Pairs)[Pairs]
        /\ \E b \in Bits(Pairs) :
             /\ answer.bits = [t \in 1..PayloadBits |-> b[t]]
             /\ answer.metric = DistanceTo(b, soft, Pairs)[Pairs]
             /\ State(b, Pairs) = 0 \/
                  \A c \in Bits(Pairs) : State(c, Pairs) = 0 =>
                    answer.metric < DistanceTo(c, soft, Pairs)[Pairs]
    BY <1>6, PairsType, ChainbackIs
  <2>2. QED
    BY <2>1, Zenon
<1> HIDE DEF answer
<1>8. decoded = answer
  BY <1>3, <1>5, Zenon DEF answer
<1> DEFINE ideal(b) == [n \in 1..Len(EncodeBits(b)) |-> Ideal(EncodeBits(b)[n])]
           entry(b) == [bits |-> b, ideal |-> ideal(b)]
<1>9. CodeBook = {entry(b) : b \in Bits(Pairs)}
  BY Zenon DEF CodeBook, Bits, Pairs
<1>10. \A b : entry(b).bits = b /\ entry(b).ideal = ideal(b)
  BY Zenon
<1>11. \A b \in Bits(Pairs) : Distance(ideal(b)) = DistanceTo(b, soft, Pairs)[Pairs]
  BY <1>4, CodeBookEntry, Zenon
<1> HIDE DEF entry, ideal
<1>12. \A c \in CodeBook : decoded.metric <= Distance(c.ideal)
  <2>1. SUFFICES ASSUME NEW c \in CodeBook PROVE decoded.metric <= Distance(c.ideal)
    OBVIOUS
  <2>2. PICK b \in Bits(Pairs) : c = entry(b)
    BY <1>9, Zenon
  <2>3. Distance(c.ideal) = DistanceTo(b, soft, Pairs)[Pairs]
    BY <1>10, <1>11, <2>2, Zenon
  <2>4. answer.metric <= DistanceTo(b, soft, Pairs)[Pairs]
    BY <1>7, Zenon
  <2>5. QED
    BY <1>8, <2>3, <2>4, Zenon
<1>13. PICK b \in Bits(Pairs) : /\ answer.bits = [t \in 1..PayloadBits |-> b[t]]
                                /\ answer.metric = DistanceTo(b, soft, Pairs)[Pairs]
  BY <1>7, Zenon
<1>14. SubSeq(b, 1, PayloadBits) = [t \in 1..PayloadBits |-> b[t]]
  BY PairsType DEF Bits
<1>15. QED
  BY <1>8, <1>9, <1>10, <1>11, <1>12, <1>13, <1>14, Zenon

\* The decoder's answer is the beginning of a most likely sequence, and its metric the
\* distance of that from what was received, for payloads of every length whose metrics
\* fit, whichever soft bits the channel makes wrong.  (For soft bits of any values see
\* ChainbackIs in ConvolutionalCodeProofs.)
THEOREM DecoderMostLikely == Spec => []MostLikely
<1>1. QED
  BY SearchSound, PayloadMostLikely, PTL

\* The sent path ends in state 0, and the payload is its beginning.
LEMMA SentPath ==
  ASSUME NEW payload \in [1..PayloadBits -> {0, 1}], NEW s, s = payload \o Flush
  PROVE  /\ \A n \in 1..PayloadBits : s[n] = payload[n]
         /\ State(s, Pairs) = 0
<1>1. PICK m \in Nat : m = PayloadBits
  BY PairsType, Zenon
<1>2. payload \in Seq({0, 1}) /\ Len(payload) = m
  BY <1>1, FunctionIsSeq
<1>3. Flush \in Seq({0, 1}) /\ Len(Flush) = 4 /\ \A n \in 1..4 : Flush[n] = 0
  BY DEF Flush, K
<1>4. Pairs = m + 4
  BY <1>1, Numbers, Zenon DEF Pairs
<1>5. /\ s \in Seq({0, 1})
      /\ \A n \in 1..m + 4 : s[n] = IF n <= m THEN payload[n] ELSE Flush[n - m]
  <2>1. PICK t \in Seq({0, 1}), u \in Seq({0, 1}) : t = payload /\ u = Flush
    BY <1>2, <1>3, Zenon
  <2>2. Len(t) = m /\ Len(u) = 4
    BY <1>2, <1>3, <2>1, Zenon
  <2>3. /\ t \o u \in Seq({0, 1})
        /\ \A n \in 1..Len(t) + Len(u) :
             (t \o u)[n] = IF n <= Len(t) THEN t[n] ELSE u[n - Len(t)]
    BY ConcatProperties
  <2>4. QED
    BY <2>1, <2>2, <2>3, Zenon
<1>6. \A n \in 1..m : s[n] = payload[n]
  <2>1. \A n \in 1..m : n \in 1..m+4 /\ n <= m
    OBVIOUS
  <2>2. QED
    BY <1>5, <2>1, Zenon
<1>7. \A n \in m+1..m+4 : Bit(s, n) = 0
  <2>1. \A n \in m+1..m+4 : n \in 1..m+4 /\ ~(n <= m) /\ n - m \in 1..4 /\ n >= 1
    OBVIOUS
  <2>2. QED
    BY <1>3, <1>5, <2>1, Zenon DEF Bit
<1>8. /\ (m+4)-3 \in m+1..m+4 /\ (m+4)-2 \in m+1..m+4 /\ (m+4)-1 \in m+1..m+4
      /\ m+4 \in m+1..m+4
  OBVIOUS
<1>9. State(s, m+4) = 8*0 + 4*0 + 2*0 + 0
  BY <1>7, <1>8, Zenon DEF State
<1>10. 8*0 + 4*0 + 2*0 + 0 = 0
  OBVIOUS
<1>11. QED
  BY <1>1, <1>4, <1>6, <1>9, <1>10, Zenon

\* At most two soft bits are wrong.
LEMMA FewWrong ==
  ASSUME NEW e \in Disturbances("payload")
  PROVE  \E i \in Nat, j \in Nat :
           e.at \subseteq {i, j} /\ (i # j => e.at = {i, j} /\ Cardinality(e.at) = 2)
<1>1. "payload" # "word" /\ "payload" # "header"
  OBVIOUS
<1>2. PICK m \in Nat : m = 2 * (PayloadBits + K)
  BY PairsType DEF Pairs
<1>3. e \in [at : {{i, j} : i, j \in 1..m} \cup {{}}, strength : {1, LlrLimit}]
  BY <1>1, <1>2, SMT DEF Disturbances
<1>4. e.at = {} \/ \E i \in 1..m, j \in 1..m : e.at = {i, j}
  BY <1>3, SMT
<1>5. CASE e.at = {}
  <2>1. 0 \in Nat
    OBVIOUS
  <2>2. QED
    BY <1>5, <2>1, SMT
<1>6. ASSUME NEW i \in 1..m, NEW j \in 1..m, e.at = {i, j}
      PROVE  i # j => Cardinality(e.at) = 2
  <2>1. SUFFICES ASSUME i # j PROVE Cardinality({i, j}) = 2
    BY <1>6, Zenon
  <2>2. IsFiniteSet({i}) /\ Cardinality({i}) = 1
    BY FS_Singleton
  <2>3. Cardinality({i} \cup {j}) = Cardinality({i}) + 1
    <3>1. j \notin {i}
      BY <2>1
    <3>2. QED
      BY <2>2, <3>1, FS_AddElement
  <2>4. {i, j} = {i} \cup {j} /\ 1 + 1 = 2
    OBVIOUS
  <2>5. QED
    BY <2>2, <2>3, <2>4, Zenon
<1>7. 1..m \subseteq Nat
  OBVIOUS
<1>8. QED
  BY <1>4, <1>5, <1>6, <1>7, Zenon

\* With the invariant, wrong soft bits are corrected.
LEMMA PayloadIsCorrected == PayloadInv => PayloadCorrected
<1>1. SUFFICES ASSUME PayloadInv, kind = "payload", stage = "received", decoded.bits # sent
               PROVE  Cardinality(errors.at) = 2 /\ \A n \in errors.at : n > 2 * (PayloadBits - 1)
  BY Zenon DEF PayloadCorrected, Received
<1>2. "received" # "sent"
  OBVIOUS
<1>3. /\ air \in Receivable(Pairs) /\ Searched(trellis, air, Pairs, Pairs)
      /\ decoded = Chainback(trellis, PayloadBits)
      /\ errors \in Disturbances("payload")
      /\ Disturbed(air, sent \o Flush, errors.at, Pairs)
      /\ sent \in [1..PayloadBits -> {0, 1}]
  BY <1>1, <1>2, Zenon DEF PayloadInv
<1>4. PICK soft \in Receivable(Pairs) : soft = air
  BY <1>3, Zenon
<1>5. PICK last : last = trellis
  OBVIOUS
<1>6. Searched(last, soft, Pairs, Pairs)
  BY <1>3, <1>4, <1>5, Zenon
<1>7. PICK payload \in [1..PayloadBits -> {0, 1}] : payload = sent
  BY <1>3, Zenon
<1>8. PICK s \in Bits(Pairs) : s = payload \o Flush
  BY PathSent, Zenon
<1>9. (\A n \in 1..PayloadBits : s[n] = payload[n]) /\ State(s, Pairs) = 0
  BY <1>8, SentPath, Zenon
<1> DEFINE answer == Chainback(last, PayloadBits)
           D(b) == DistanceTo(b, soft, Pairs)[Pairs]
<1>10. /\ \A c \in Bits(Pairs) : answer.metric <= D(c)
       /\ \E b \in Bits(Pairs) :
            /\ answer.bits = [t \in 1..PayloadBits |-> b[t]]
            /\ answer.metric = D(b)
            /\ State(b, Pairs) = 0 \/
                 \A c \in Bits(Pairs) : State(c, Pairs) = 0 => answer.metric < D(c)
  BY <1>6, PairsType, ChainbackIs
<1> HIDE DEF answer
<1>11. PICK b \in Bits(Pairs) :
         /\ answer.bits = [t \in 1..PayloadBits |-> b[t]]
         /\ answer.metric = D(b)
         /\ State(b, Pairs) = 0 \/
              \A c \in Bits(Pairs) : State(c, Pairs) = 0 => answer.metric < D(c)
  BY <1>10, Zenon
<1>12. D(b) <= D(s) /\ (State(b, Pairs) = 0 \/ D(b) < D(s))
  BY <1>9, <1>10, <1>11, Zenon
<1>13. \E n \in 1..PayloadBits : b[n] # s[n]
  <2>1. decoded.bits = [t \in 1..PayloadBits |-> b[t]]
    BY <1>3, <1>5, <1>11, Zenon DEF answer
  <2>2. sent = [t \in 1..PayloadBits |-> payload[t]]
    BY <1>7, Zenon
  <2>3. ASSUME \A n \in 1..PayloadBits : b[n] = s[n] PROVE FALSE
    <3>1. \A n \in 1..PayloadBits : b[n] = payload[n]
      BY <1>9, <2>3, Zenon
    <3>2. [t \in 1..PayloadBits |-> b[t]] = [t \in 1..PayloadBits |-> payload[t]]
      BY <3>1, Zenon
    <3>3. QED
      BY <1>1, <2>1, <2>2, <3>2, Zenon
  <2>4. QED
    BY <2>3, Zenon
<1>14. PICK N \in Nat : N = Pairs
  BY PairsType, Zenon
<1>15. N >= 4 /\ PayloadBits = N - 4 /\ PayloadBits - 1 = N - 5
  <2>1. PICK m \in Nat : m = PayloadBits
    BY PairsType, Zenon
  <2>2. N = m + 4
    BY <1>14, <2>1, Numbers, Zenon DEF Pairs
  <2>3. N >= 4 /\ m = N - 4 /\ m - 1 = N - 5
    BY <2>2
  <2>4. QED
    BY <2>1, <2>3, Zenon
<1>16. PICK wrong \in 1..N-4 : b[wrong] # s[wrong]
  BY <1>13, <1>15, Zenon
<1>17. PICK i \in Nat, j \in Nat :
         /\ errors.at \subseteq {i, j}
         /\ i # j => errors.at = {i, j} /\ Cardinality(errors.at) = 2
  BY <1>3, FewWrong, Zenon
<1>18. PICK E : E = errors.at
  OBVIOUS
<1>19. Misled(b, s, soft, E, i, j, N)
  <2>1. Disturbed(soft, s, E, N) /\ E \subseteq {i, j}
    BY <1>3, <1>4, <1>7, <1>8, <1>14, <1>17, <1>18, Zenon
  <2>2. /\ b \in Bits(N) /\ s \in Bits(N) /\ soft \in Receivable(N) /\ State(s, N) = 0
        /\ DistanceTo(b, soft, N)[N] <= DistanceTo(s, soft, N)[N]
        /\ State(b, N) = 0 \/ DistanceTo(b, soft, N)[N] < DistanceTo(s, soft, N)[N]
    BY <1>9, <1>12, <1>14, Zenon
  <2>3. N >= 4
    BY <1>15, Zenon
  <2>4. QED
    BY <1>16, <2>1, <2>2, <2>3, Zenon DEF Misled
<1>21. i # j /\ i > 2 * (N - 5) /\ j > 2 * (N - 5)
  BY <1>19, NearestIsSent
<1>22. QED
  BY <1>15, <1>17, <1>21, Zenon

\* A payload with one wrong soft bit is decoded, and one with two unless both are near its
\* end, for payloads of every length whose metrics fit.
THEOREM WrongBitsCorrected == Spec => []PayloadCorrected
<1>1. QED
  BY SearchSound, PayloadIsCorrected, PTL

\* The entries of the map, by the samples they are for: the first soft bit changes its sign
\* between entries 20 and 21, the second after 6 and after 34.
FirstOf(n) ==
  IF n <= 14 THEN 7 ELSE IF n <= 20 THEN 21 - n ELSE IF n <= 27 THEN 20 - n ELSE -7
SecondOf(n) ==
  IF n <= 6 THEN 7 - n ELSE IF n <= 13 THEN 6 - n ELSE IF n <= 28 THEN -7
  ELSE IF n <= 34 THEN n - 35 ELSE IF n <= 41 THEN n - 34 ELSE 7

\* The map that make_llr_map builds step by step has these entries.
LEMMA LlrMapIs == \A n \in 0..42 : LlrMap[n] = <<FirstOf(n), SecondOf(n)>>
<1> DEFINE choice(t, l, a, b, c) == CASE t <= -l -> a [] t \in (1-l)..l -> b [] OTHER -> c
           next(e, n) ==
             choice(Threshold(n-1), Limit, <<e[1], StepDown(e[2])>>, <<StepDown(e[1]), e[2]>>,
                    <<e[1], StepUp(e[2])>>)
           Body(f) == [n \in 0..MapSize-1 |-> IF n = 0 THEN <<Limit, Limit>> ELSE next(f[n-1], n)]
           G == [n \in 0..42 |-> <<FirstOf(n), SecondOf(n)>>]
           g == CHOOSE f : f = Body(f)
<1>1. 0..MapSize-1 = 0..42
  BY DEF MapSize, Limit
<1>2. G[0] = <<Limit, Limit>>
  BY DEF Limit, FirstOf, SecondOf
<1>3. ASSUME NEW n \in 1..42 PROVE G[n] = next(G[n-1], n)
  <2> DEFINE x == FirstOf(n-1)
             y == SecondOf(n-1)
  <2>1. G[n-1] = <<x, y>> /\ G[n] = <<FirstOf(n), SecondOf(n)>>
    <3>1. n \in 0..42 /\ n-1 \in 0..42
      OBVIOUS
    <3>2. QED
      BY <3>1, Zenon
  <2>2. \A u, v : <<u, v>>[1] = u /\ <<u, v>>[2] = v
    OBVIOUS
  <2>3. Threshold(n-1) = n - 21 /\ Limit = 7
    BY DEF Threshold, Limit
  <2>4. PICK a, b, c : a = <<x, StepDown(y)>> /\ b = <<StepDown(x), y>> /\ c = <<x, StepUp(y)>>
    OBVIOUS
  <2>5. next(G[n-1], n) = choice(n - 21, 7, a, b, c)
    <3> HIDE DEF G, x, y, choice
    <3>1. PICK v : v = G[n-1]
      OBVIOUS
    <3>2. v[1] = x /\ v[2] = y
      <4>1. v = <<x, y>>
        BY <2>1, <3>1, Zenon
      <4>2. QED
        BY <4>1
    <3>3. /\ <<v[1], StepDown(v[2])>> = a /\ <<StepDown(v[1]), v[2]>> = b
          /\ <<v[1], StepUp(v[2])>> = c
      BY <2>4, <3>2, Zenon
    <3>4. next(v, n) = choice(Threshold(n-1), Limit, a, b, c)
      BY <3>3, Zenon
    <3> HIDE DEF next
    <3>5. QED
      BY <2>3, <3>1, <3>4, Zenon
  <2>6. /\ n <= 14 => choice(n - 21, 7, a, b, c) = a
        /\ n \in 15..28 => choice(n - 21, 7, a, b, c) = b
        /\ n >= 29 => choice(n - 21, 7, a, b, c) = c
    <3> HIDE DEF x, y, G
    <3>1. QED
      BY SMT
  <2> HIDE DEF next, G, choice
  <2>7. /\ n <= 14 => FirstOf(n) = x /\ SecondOf(n) = StepDown(y)
        /\ n \in 15..28 => FirstOf(n) = StepDown(x) /\ SecondOf(n) = y
        /\ n >= 29 => FirstOf(n) = x /\ SecondOf(n) = StepUp(y)
    BY <2>3 DEF FirstOf, SecondOf, StepDown, StepUp
  <2>8. n <= 14 \/ n \in 15..28 \/ n >= 29
    OBVIOUS
  <2>9. QED
    BY <2>1, <2>4, <2>5, <2>6, <2>7, <2>8, Zenon
<1> HIDE DEF next
<1>4. G = Body(G)
  <2>1. \A n \in 0..42 : n # 0 => n \in 1..42
    OBVIOUS
  <2>2. G = [n \in 0..42 |-> G[n]]
    BY Zenon
  <2> HIDE DEF G
  <2>3. \A n \in 0..42 : G[n] = IF n = 0 THEN <<Limit, Limit>> ELSE next(G[n-1], n)
    BY <1>2, <1>3, <2>1, Zenon
  <2>4. QED
    BY <1>1, <2>2, <2>3, Zenon
<1>5. g = Body(g)
  <2> HIDE DEF Body, G
  <2>1. QED
    BY <1>4, Zenon
<1> HIDE DEF g
<1> DEFINE T == {n \in 0..42 : g[n] = G[n]}
<1>6. 0 \in T
  <2>1. 0 \in 0..42
    OBVIOUS
  <2>2. g[0] = <<Limit, Limit>>
    BY <1>1, <1>5, <2>1, Zenon
  <2> HIDE DEF G
  <2>3. QED
    BY <1>2, <2>1, <2>2, Zenon
<1>7. ASSUME NEW n \in 0..42-1, n \in T PROVE n + 1 \in T
  <2>1. n + 1 \in 0..42 /\ n + 1 # 0 /\ (n + 1) - 1 = n /\ n + 1 \in 1..42
    OBVIOUS
  <2> HIDE DEF G
  <2>2. g[n+1] = next(g[n], n + 1)
    BY <1>1, <1>5, <2>1, Zenon
  <2>3. g[n] = G[n]
    BY <1>7, Zenon
  <2>4. QED
    BY <1>3, <2>1, <2>2, <2>3, Zenon
<1>8. 0..42 \subseteq T
  <2>1. 42 \in Nat
    OBVIOUS
  <2> HIDE DEF T
  <2>2. QED
    BY <1>6, <1>7, <2>1, BoundedInduction
<1>9. LlrMap = g
  BY Zenon DEF LlrMap, g, next, choice
<1>10. QED
  BY <1>8, <1>9, Zenon

\* Which entry a sample takes.
EntryOf(sample) ==
  IF sample < -41 THEN 0 ELSE IF sample > 41 THEN 42 ELSE (sample - 1) \div 2 + 21

\* The soft bits of a sample are those of its entry, or of the last one beyond the map's ends.
LEMMA LlrIs ==
  ASSUME NEW sample \in Int, sample % 2 = 1
  PROVE  Llr(sample) = <<FirstOf(EntryOf(sample)), SecondOf(EntryOf(sample))>>
<1> DEFINE s == Clamped(sample)
           above == {n \in 0..MapSize-1 : 2 * Threshold(n) > s}
           m == EntryOf(sample)
<1>1. s \in -42..42 /\ m \in 0..42
  BY DEF Clamped, EntryOf
<1>2. MapSize - 1 = 42 /\ \A n \in 0..42 : 2 * Threshold(n) = 2 * n - 40
  BY DEF MapSize, Threshold, Limit
<1>3. \A n \in 0..42 : 2 * n - 40 > s <=> n >= m
  BY DEF Clamped, EntryOf
<1>4. above = m..42
  <2> HIDE DEF m, s
  <2>1. above = {n \in 0..42 : n >= m}
    BY <1>2, <1>3
  <2>2. QED
    BY <1>1, <2>1
<1> HIDE DEF m, s, above
<1>5. above # {} /\ m \in above /\ \A n \in above : m <= n
  BY <1>1, <1>4
<1>6. \A n \in above : (\A k \in above : n <= k) => n = m
  BY <1>1, <1>4
<1>7. (CHOOSE n \in above : \A k \in above : n <= k) = m
  BY <1>5, <1>6, Zenon
<1>8. Llr(sample) = LlrMap[m]
  BY <1>5, <1>7, Zenon DEF Llr, s, above
<1>9. QED
  BY <1>1, <1>8, LlrMapIs, Zenon DEF m

-----------------------------------------------------------------------------
(***************************************************************************)
(* What the other kinds' cases are made of: one message, one disturbance    *)
(* and the decoding of what results.                                        *)
(***************************************************************************)
WordAir(data, wrong) == SymDiff(Encode24(data), wrong)
HeaderAir(h, wrong) == [EncodeHeader(Raw(h)) EXCEPT ![wrong[1]] = SymDiff(@, wrong[2])]
SymbolAir(dibit, noise) == 14 * SymbolOf(dibit) + noise
FrameAir(data, burst) ==
  LET bits == Randomize(InterleaveFrame(data), Dc)
  IN  SoftFrame([p \in Positions |->
                   IF p \in burst..burst + BurstBits - 1 THEN 1 - bits[p] ELSE bits[p]],
                [p \in Positions |-> LlrLimit])

CaseInv ==
  /\ stage \in {"sent", "air", "received"}
  /\ sent \in Messages(kind)
  /\ stage # "sent" =>
       /\ errors \in Disturbances(kind)
       /\ kind = "word" => air = WordAir(sent, errors)
       /\ kind = "header" => air = HeaderAir(sent, errors)
       /\ kind = "symbol" => air = SymbolAir(sent, errors)
       /\ kind = "frame" => air = FrameAir(sent, errors)
  /\ stage = "received" => decoded = Decoding

\* The cases' invariant holds before a case is sent.
LEMMA CaseInit == Init => CaseInv
<1>1. "sent" # "received" /\ "sent" \in {"sent", "air", "received"}
  OBVIOUS
<1>2. QED
  BY <1>1, Zenon DEF Init, CaseInv

\* Sending keeps it.
LEMMA CaseTransmit ==
  ASSUME CaseInv, Transmit
  PROVE  CaseInv'
<1>1. /\ stage' = "air" /\ errors' \in Disturbances(kind) /\ air' = OnAir
      /\ kind' = kind /\ sent' = sent
  BY Zenon DEF Transmit
<1>2. "air" # "received" /\ "air" \in {"sent", "air", "received"}
  OBVIOUS
<1>3. sent' \in Messages(kind') /\ errors' \in Disturbances(kind')
  BY <1>1, Zenon DEF CaseInv
<1>4. kind = "symbol" => OnAir = 14 * SymbolOf(sent) + errors'
  BY SMT DEF OnAir
<1>5. kind = "frame" => OnAir = FrameAir(sent, errors')
  <2>1. kind = "frame" => OnAir =
         LET bits == Randomize(InterleaveFrame(sent), Dc)
         IN  SoftFrame([p \in Positions |-> IF InBurst(p) THEN 1 - bits[p] ELSE bits[p]],
                       [p \in Positions |-> LlrLimit])
    <3>1. /\ "frame" # "word" /\ "frame" # "header" /\ "frame" # "payload" /\ "frame" # "symbol"
      OBVIOUS
    <3>2. QED
      BY <3>1, Zenon DEF OnAir
  <2>2. QED
    BY <2>1, Zenon DEF InBurst, FrameAir
<1>6. kind = "word" => OnAir = WordAir(sent, errors')
  BY Zenon DEF OnAir, WordAir
<1>7. kind = "header" => OnAir = HeaderAir(sent, errors')
  <2>1. "header" # "word"
    OBVIOUS
  <2>2. QED
    BY <2>1, Zenon DEF OnAir, HeaderAir
<1>8. /\ (kind = "word" => air = WordAir(sent, errors))'
      /\ (kind = "header" => air = HeaderAir(sent, errors))'
      /\ (kind = "symbol" => air = SymbolAir(sent, errors))'
      /\ (kind = "frame" => air = FrameAir(sent, errors))'
  BY <1>1, <1>4, <1>5, <1>6, <1>7, Zenon DEF WordAir, HeaderAir, SymbolAir, FrameAir
<1>9. QED
  BY <1>1, <1>2, <1>3, <1>8, Zenon DEF CaseInv

\* An iteration of the Viterbi decoder's loop keeps it.
LEMMA CaseDecodePair ==
  ASSUME CaseInv, DecodePair
  PROVE  CaseInv'
<1>1. /\ stage = "air" /\ stage' = stage /\ kind' = kind /\ sent' = sent /\ errors' = errors
      /\ air' = air
  BY Zenon DEF DecodePair
<1>2. "air" # "received"
  OBVIOUS
<1>3. /\ WordAir(sent', errors') = WordAir(sent, errors)
      /\ HeaderAir(sent', errors') = HeaderAir(sent, errors)
      /\ SymbolAir(sent', errors') = SymbolAir(sent, errors)
      /\ FrameAir(sent', errors') = FrameAir(sent, errors)
  BY <1>1, Zenon
<1>4. QED
  BY <1>1, <1>2, <1>3, Zenon DEF CaseInv

\* Receiving keeps it.
LEMMA CaseReceive ==
  ASSUME CaseInv, Receive
  PROVE  CaseInv'
<1>1. /\ stage = "air" /\ stage' = "received" /\ decoded' = Decoding
      /\ kind' = kind /\ sent' = sent /\ errors' = errors /\ air' = air /\ trellis' = trellis
  BY Zenon DEF Receive
<1>2. "air" # "sent" /\ "received" # "sent" /\ "received" \in {"sent", "air", "received"}
  OBVIOUS
<1>3. Decoding' = Decoding
  BY <1>1, Zenon DEF Decoding
<1>4. QED
  BY <1>1, <1>2, <1>3, Zenon DEF CaseInv

\* Every step keeps it.
LEMMA CaseStep == CaseInv /\ [Next]_vars => CaseInv'
<1>1. ASSUME CaseInv, UNCHANGED vars PROVE CaseInv'
  BY <1>1, Zenon DEF CaseInv, vars, Decoding
<1>2. QED
  BY <1>1, CaseTransmit, CaseDecodePair, CaseReceive, Zenon DEF Next

\* What is received is the decoding of a message and a disturbance of its kind.
LEMMA CaseSound == Spec => []CaseInv
<1>1. QED
  BY CaseInit, CaseStep, PTL DEF Spec

-----------------------------------------------------------------------------
\* A dibit's symbol, with noise that stays inside the symbol's region, is measured.
LEMMA SymbolMeasured ==
  ASSUME NEW dibit \in Dibits, NEW n \in -6..7, NEW sample, sample = SymbolAir(dibit, 2 * n - 1)
  PROVE  Llr(sample) = <<Measured(dibit[1], Abs(sample)), Measured(dibit[2], Abs(Abs(sample) - 28))>>
<1>1. /\ dibit[1] \in {0, 1} /\ dibit[2] \in {0, 1}
      /\ SymbolOf(dibit) = (IF dibit[1] = 1 THEN -1 ELSE 1) * (IF dibit[2] = 1 THEN 3 ELSE 1)
  BY DEF Dibits, SymbolOf
<1>2. PICK x \in {0, 1}, y \in {0, 1} : x = dibit[1] /\ y = dibit[2]
  BY <1>1, Zenon
<1>3. sample = 14 * ((IF x = 1 THEN -1 ELSE 1) * (IF y = 1 THEN 3 ELSE 1)) + (2 * n - 1)
  BY <1>1, <1>2, Zenon DEF SymbolAir
<1>4. sample \in Int /\ sample % 2 = 1
  BY <1>3
<1>5. Llr(sample) = <<FirstOf(EntryOf(sample)), SecondOf(EntryOf(sample))>>
  BY <1>4, LlrIs
<1>6. FirstOf(EntryOf(sample)) = Measured(x, Abs(sample))
  BY <1>3 DEF FirstOf, EntryOf, Measured, Abs, LlrLimit
<1>7. SecondOf(EntryOf(sample)) = Measured(y, Abs(Abs(sample) - 28))
  BY <1>3 DEF SecondOf, EntryOf, Measured, Abs, LlrLimit
<1>8. QED
  BY <1>2, <1>5, <1>6, <1>7, Zenon

\* With the invariant, the soft bits of a symbol measure its sample.
LEMMA SymbolIsMeasured == CaseInv => SoftBitsMeasure
<1>1. SUFFICES ASSUME CaseInv, kind = "symbol", stage = "received"
               PROVE  decoded = <<Measured(sent[1], Abs(air)), Measured(sent[2], Abs(Abs(air) - 28))>>
  BY Zenon DEF SoftBitsMeasure, Received
<1>2. "received" # "sent"
  OBVIOUS
<1>3. /\ sent \in Messages("symbol") /\ errors \in Disturbances("symbol")
      /\ air = SymbolAir(sent, errors) /\ decoded = Decoding
  BY <1>1, <1>2, Zenon DEF CaseInv
<1>4. Messages("symbol") = Dibits
  BY SMT DEF Messages
<1>5. Disturbances("symbol") = {2 * n - 1 : n \in -6..7}
  BY SMT DEF Disturbances
<1>6. Decoding = Llr(air)
  <2>1. "symbol" # "word" /\ "symbol" # "header" /\ "symbol" # "payload"
    OBVIOUS
  <2>2. QED
    BY <1>1, <2>1, Zenon DEF Decoding
<1>7. PICK n \in -6..7 : errors = 2 * n - 1
  BY <1>3, <1>5, Zenon
<1>8. PICK dibit \in Dibits : dibit = sent
  BY <1>3, <1>4, Zenon
<1>9. PICK sample : sample = air
  OBVIOUS
<1>10. sample = SymbolAir(dibit, 2 * n - 1)
  BY <1>3, <1>7, <1>8, <1>9, Zenon
<1>11. Llr(sample) = <<Measured(dibit[1], Abs(sample)), Measured(dibit[2], Abs(Abs(sample) - 28))>>
  BY <1>10, SymbolMeasured, Zenon
<1>12. QED
  BY <1>3, <1>6, <1>8, <1>9, <1>11, Zenon

\* The soft bits of a symbol measure how far its sample is from where a bit changes.
THEOREM SymbolsMeasured == Spec => []SoftBitsMeasure
<1>1. QED
  BY CaseSound, SymbolIsMeasured, PTL

\* The position that a burst inverts comes back inverted, and no other.
LEMMA InvertedBack ==
  ASSUME NEW bits \in [Positions -> {0, 1}], NEW burst, NEW p \in Positions
  PROVE  HardBit(Derandomize(SoftFrame(
                   [k \in Positions |->
                      IF k \in burst..burst + BurstBits - 1
                      THEN 1 - Randomize(bits, Dc)[k] ELSE Randomize(bits, Dc)[k]],
                   [k \in Positions |-> LlrLimit]), Dc)[p])
           = IF p \in burst..burst + BurstBits - 1 THEN 1 - bits[p] ELSE bits[p]
<1> DEFINE hit(k) == k \in burst..burst + BurstBits - 1
           random == Randomize(bits, Dc)
           onAir == [k \in Positions |-> IF hit(k) THEN 1 - random[k] ELSE random[k]]
           strength == [k \in Positions |-> LlrLimit]
           flipped == [k \in Positions |-> IF hit(k) THEN 1 - bits[k] ELSE bits[k]]
<1>1. \A k \in Positions : Dc[k] \in {-1, 1}
  BY DEF Dc
<1>2. \A k \in Positions : bits[k] \in {0, 1}
  OBVIOUS
<1>3. onAir = Randomize(flipped, Dc)
  <2>1. ASSUME NEW k \in Positions
        PROVE  onAir[k] = IF Dc[k] = -1 THEN 1 - flipped[k] ELSE flipped[k]
    <3>1. PICK b \in {0, 1} : b = bits[k]
      BY <1>2, Zenon
    <3>2. random[k] = IF Dc[k] = -1 THEN 1 - b ELSE b
      BY <3>1, Zenon DEF Randomize
    <3>3. flipped[k] = IF hit(k) THEN 1 - b ELSE b
      BY <3>1, Zenon
    <3>4. onAir[k] = IF hit(k) THEN 1 - random[k] ELSE random[k]
      BY Zenon
    <3>5. 1 - (1 - b) = b
      OBVIOUS
    <3> HIDE DEF random, onAir, flipped, hit
    <3>6. QED
      BY <3>2, <3>3, <3>4, <3>5, Zenon
  <2>2. onAir = [k \in Positions |-> onAir[k]]
    BY Zenon
  <2> HIDE DEF onAir, flipped
  <2>3. QED
    BY <2>1, <2>2, Zenon DEF Randomize
<1>4. flipped[p] \in {0, 1}
  <2>1. 1 - 0 \in {0, 1} /\ 1 - 1 \in {0, 1}
    OBVIOUS
  <2>2. flipped[p] = IF hit(p) THEN 1 - bits[p] ELSE bits[p]
    BY Zenon
  <2>3. 1 - bits[p] \in {0, 1}
    BY <1>2, <2>1
  <2> HIDE DEF flipped, hit
  <2>4. QED
    BY <1>2, <2>2, <2>3, Zenon
<1>5. strength[p] \in Nat \ {0}
  BY DEF LlrLimit
<1>6. flipped[p] = IF hit(p) THEN 1 - bits[p] ELSE bits[p]
  BY Zenon
<1> HIDE DEF flipped, strength
<1>7. HardBit(Derandomize(SoftFrame(Randomize(flipped, Dc), strength), Dc)[p]) = flipped[p]
  BY <1>1, <1>4, <1>5, Derandomized
<1>8. QED
  BY <1>3, <1>6, <1>7, Zenon DEF strength

\* The interleaver's polynomial maps the positions of a frame onto themselves.
LEMMA IndexIsOnto ==
  ASSUME Permutes
  PROVE  \A p \in Positions : \E i \in Positions : Index(i) = p
<1> DEFINE f == [i \in Positions |-> Index(i)]
<1>1. f \in [Positions -> Positions]
  BY IndexIsPosition
<1>2. \A i \in Positions : f[i] = Index(i)
  BY Zenon
<1>3. IsFiniteSet(Positions)
  <2>1. FrameBits \in Nat
    BY InterleaverAssumption
  <2>2. 0 \in Int /\ FrameBits - 1 \in Int
    BY <2>1
  <2>3. QED
    BY <2>2, FS_Interval DEF Positions
<1> HIDE DEF f
<1>4. f \in Injection(Positions, Positions)
  BY <1>1, <1>2, Zenon DEF Permutes, Injection, IsInjective
<1>5. f \in Surjection(Positions, Positions)
  BY <1>3, <1>4, FS_Injection
<1>6. QED
  BY <1>2, <1>5, Zenon DEF Surjection

\* As many bits of a frame are hit as a burst hits on the air.
LEMMA AsManyHit ==
  ASSUME Permutes, NEW S
  PROVE  Cardinality({i \in Positions : Index(i) \in S}) = Cardinality(Positions \cap S)
<1> DEFINE W == {i \in Positions : Index(i) \in S}
           V == Positions \cap S
           f == [i \in W |-> Index(i)]
<1>1. IsFiniteSet(Positions)
  <2>1. FrameBits \in Nat
    BY InterleaverAssumption
  <2>2. 0 \in Int /\ FrameBits - 1 \in Int
    BY <2>1
  <2>3. QED
    BY <2>2, FS_Interval DEF Positions
<1>2. IsFiniteSet(W)
  <2>1. W \subseteq Positions
    OBVIOUS
  <2> HIDE DEF W
  <2>2. QED
    BY <1>1, <2>1, FS_Subset
<1>3. f \in [W -> V] /\ \A i \in W : f[i] = Index(i)
  BY IndexIsPosition
<1>4. \A i, j \in W : Index(i) = Index(j) => i = j
  BY DEF Permutes
<1>5. \A v \in V : \E i \in W : Index(i) = v
  BY IndexIsOnto
<1> HIDE DEF W, V, f
<1>6. f \in Injection(W, V) /\ f \in Surjection(W, V)
  BY <1>3, <1>4, <1>5, Zenon DEF Injection, IsInjective, Surjection
<1>7. ExistsBijection(W, V)
  BY <1>6, Zenon DEF ExistsBijection, Bijection
<1>8. Cardinality(V) = Cardinality(W)
  BY <1>2, <1>7, FS_Bijection
<1>9. QED
  BY <1>8 DEF W, V

\* Two bits next to each other in the frame are far apart on the air, and the other way
\* round (Numerology.h:61-64): 59 * d and 59 * d + 1076 are far from the multiples of 2152
\* when d is small and even, and small and odd.
Apart(d, e, u, w, r) ==
  /\ d \in Int /\ e \in Int /\ u \in Int /\ w \in Int /\ r \in -1..1
  /\ d # 0 /\ 59 * d + 1076 * r - 2152 * u = e /\ d = 2 * w + r

\* The arithmetic of the burst spread: 59 d + 1076 r is no nearer to a multiple of 2152 than
\* 64 - |d|.
LEMMA FarFromMultiples ==
  ASSUME NEW d, NEW e, NEW u, NEW w, NEW r, Apart(d, e, u, w, r)
  PROVE  Abs(d) + Abs(e) >= 64
<1>0. SUFFICES ASSUME d \in -63..63, e \in -63..63 PROVE Abs(d) + Abs(e) >= 64
  <2>1. d \in Int /\ e \in Int
    BY DEF Apart
  <2>2. QED
    BY <2>1 DEF Abs
<1> USE DEF Apart
<1>1. u \in -2..2
  BY <1>0
<1>2. CASE r = 0
  BY <1>0, <1>1, <1>2, SMTT(60) DEF Abs
<1>3. CASE r = 1
  BY <1>0, <1>1, <1>3, SMTT(60) DEF Abs
<1>4. CASE r = -1
  BY <1>0, <1>1, <1>4, SMTT(60) DEF Abs
<1>5. QED
  BY <1>2, <1>3, <1>4

\* Position i is sent at x.
SentAt(i, x, s, m, p) ==
  /\ i \in Int /\ x \in Int /\ s \in Int /\ m \in Int /\ p \in {0, 1}
  /\ i = 2 * m + p /\ 59 * i + 1076 * p = 2152 * s + x
Far(i, j, x, y) == Abs(i - j) + Abs(x - y) >= 64

\* Two positions of a frame and where they are sent: the two distances add up to 64.
LEMMA FarApart ==
  ASSUME NEW i, NEW j, NEW x, NEW y, NEW s, NEW t, NEW m, NEW n, NEW p, NEW q,
         i # j, SentAt(i, x, s, m, p), SentAt(j, y, t, n, q)
  PROVE  Far(i, j, x, y)
<1>1. Apart(i - j, x - y, s - t, m - n, p - q)
  <2>1. /\ i - j \in Int /\ x - y \in Int /\ i - j # 0 /\ s - t \in Int /\ m - n \in Int
        /\ p - q \in -1..1
        /\ 59 * (i - j) + 1076 * (p - q) - 2152 * (s - t) = x - y
        /\ i - j = 2 * (m - n) + (p - q)
    BY DEF SentAt
  <2>2. QED
    BY <2>1 DEF Apart
<1>2. QED
  BY <1>1, FarFromMultiples DEF Far

\* Where the linear polynomials send a position.
LEMMA SentSomewhere ==
  ASSUME NEW i \in Nat
  PROVE  \E s, m, p : SentAt(i, Remainder(Linear(i)), s, m, p)
<1>1. PICK p \in {0, 1} : p = i % 2
  OBVIOUS
<1>2. PICK m \in Int : i = 2 * m + p
  <2>1. i = 2 * (i \div 2) + p /\ i \div 2 \in Int
    BY <1>1
  <2>2. QED
    BY <2>1
<1>3. PICK v \in Nat : v = Linear(i)
  BY DEF Linear
<1>4. v = 59 * i + 1076 * p
  BY <1>1, <1>3 DEF Linear
<1>5. PICK x \in Int : x = Remainder(v)
  BY DEF Remainder
<1>6. PICK s \in Int : v = 2152 * s + x
  <2>1. v = 2152 * (v \div 2152) + (v % 2152) /\ v \div 2152 \in Int
    OBVIOUS
  <2>2. QED
    BY <1>5, <2>1 DEF Remainder
<1>7. SentAt(i, x, s, m, p)
  BY <1>2, <1>4, <1>6 DEF SentAt
<1>8. SentAt(i, Remainder(Linear(i)), s, m, p)
  BY <1>3, <1>5, <1>7, Zenon
<1>9. QED
  BY <1>8

\* Two bits of a frame are far apart in the frame or on the air.
LEMMA FrameSpread ==
  ASSUME FrameBits = 2152, F1 = 59, F2 = 1076,
         NEW i \in Positions, NEW j \in Positions, i # j
  PROVE  Abs(i - j) + Abs(Index(i) - Index(j)) >= 64
<1>1. i \in Nat /\ j \in Nat
  BY DEF Positions
<1>2. Index(i) = Remainder(Linear(i)) /\ Index(j) = Remainder(Linear(j))
  BY <1>1, IndexByParity
<1>3. PICK s, m, p : SentAt(i, Remainder(Linear(i)), s, m, p)
  BY <1>1, SentSomewhere
<1>4. PICK t, n, q : SentAt(j, Remainder(Linear(j)), t, n, q)
  BY <1>1, SentSomewhere
<1>5. Far(i, j, Remainder(Linear(i)), Remainder(Linear(j)))
  BY <1>3, <1>4, FarApart
<1>6. QED
  BY <1>2, <1>5 DEF Far

\* Every bit that was sent is a bit.
LEMMA FrameMessages ==
  ASSUME NEW data \in Messages("frame")
  PROVE  data \in [Positions -> {0, 1}] /\ InterleaveFrame(data) \in [Positions -> {0, 1}]
<1>1. data \in Frames
  BY SMT DEF Messages
<1>2. data \in [Positions -> {0, 1}]
  <2>1. \A i \in Positions : (i \div 5 + i \div 7) % 2 \in {0, 1}
    <3>1. Positions \subseteq Nat
      BY InterleaverAssumption DEF Positions
    <3>2. \A i \in Nat : (i \div 5 + i \div 7) % 2 \in {0, 1}
      OBVIOUS
    <3>3. QED
      BY <3>1, <3>2, Zenon
  <2>2. QED
    BY <1>1, <2>1 DEF Frames
<1>3. \A p \in Positions : Source[p] = -1 \/ Source[p] \in Positions
  <2>1. SUFFICES ASSUME NEW p \in Positions PROVE Source[p] = -1 \/ Source[p] \in Positions
    BY Zenon
  <2>2. CASE \E i \in Positions : Index(i) = p
    <3>1. Source[p] = CHOOSE i \in Positions : Index(i) = p
      BY <2>2 DEF Source
    <3>2. QED
      BY <2>2, <3>1
  <2>3. CASE ~ \E i \in Positions : Index(i) = p
    BY <2>3 DEF Source
  <2>4. QED
    BY <2>2, <2>3
<1>4. InterleaveFrame(data) \in [Positions -> {0, 1}]
  <2>1. \A p \in Positions :
          (IF Source[p] = -1 THEN 0 ELSE data[Source[p]]) \in {0, 1}
    BY <1>2, <1>3
  <2>2. QED
    BY <2>1, Zenon DEF InterleaveFrame
<1>5. QED
  BY <1>2, <1>4

\* A bit comes back inverted if its place on the air was hit, and else as it was.
LEMMA FrameBack ==
  ASSUME Permutes, NEW data \in Messages("frame"), NEW burst, NEW i \in Positions
  PROVE  HardBit(DeinterleaveFrame(Derandomize(FrameAir(data, burst), Dc))[i])
           = IF Index(i) \in burst..burst + BurstBits - 1 THEN 1 - data[i] ELSE data[i]
<1> DEFINE bits == InterleaveFrame(data)
           p == Index(i)
           soft == Derandomize(FrameAir(data, burst), Dc)
<1>1. p \in Positions /\ bits \in [Positions -> {0, 1}]
  BY IndexIsPosition, FrameMessages
<1>2. DeinterleaveFrame(soft)[i] = soft[p]
  BY Zenon DEF DeinterleaveFrame
<1>3. bits[p] = data[i]
  <2>1. DeinterleaveFrame(bits)[i] = data[i]
    BY Deinterleaved
  <2>2. DeinterleaveFrame(bits)[i] = bits[p]
    BY Zenon DEF DeinterleaveFrame
  <2>3. QED
    BY <2>1, <2>2, Zenon
<1>4. HardBit(soft[p]) = IF p \in burst..burst + BurstBits - 1 THEN 1 - bits[p] ELSE bits[p]
  <2> HIDE DEF bits, p
  <2>1. HardBit(Derandomize(SoftFrame(
                   [k \in Positions |->
                      IF k \in burst..burst + BurstBits - 1
                      THEN 1 - Randomize(bits, Dc)[k] ELSE Randomize(bits, Dc)[k]],
                   [k \in Positions |-> LlrLimit]), Dc)[p])
           = IF p \in burst..burst + BurstBits - 1 THEN 1 - bits[p] ELSE bits[p]
    BY <1>1, InvertedBack, Zenon
  <2>2. QED
    BY <2>1, Zenon DEF FrameAir, bits
<1> HIDE DEF bits, soft, p
<1>5. HardBit(DeinterleaveFrame(soft)[i])
        = IF p \in burst..burst + BurstBits - 1 THEN 1 - data[i] ELSE data[i]
  BY <1>2, <1>3, <1>4, Zenon
<1>6. QED
  BY <1>5, Zenon DEF soft, p

\* With the invariant, a frame comes back with the bits that the burst hit inverted.
LEMMA FrameIsRestored ==
  ASSUME Permutes,
         \A i, j \in Positions : i # j => Abs(i - j) + Abs(Index(i) - Index(j)) >= 64,
         CaseInv
  PROVE  FrameRestored
<1> DEFINE burst == errors..errors + BurstBits - 1
           wrong == {i \in Positions : decoded[i] # sent[i]}
<1>1. SUFFICES ASSUME kind = "frame", stage = "received"
               PROVE  /\ \A i \in wrong : Index(i) \in burst
                      /\ Cardinality(wrong) = Cardinality(Positions \cap burst)
                      /\ \A i \in wrong : \A j \in wrong \ {i} :
                           Abs(i - j) + Abs(Index(i) - Index(j)) >= 64
  BY Zenon DEF FrameRestored, Received
<1>2. "received" # "sent"
  OBVIOUS
<1>3. /\ sent \in Messages("frame") /\ air = FrameAir(sent, errors) /\ decoded = Decoding
  BY <1>1, <1>2, Zenon DEF CaseInv
<1>4. Decoding = [i \in Positions |-> HardBit(DeinterleaveFrame(Derandomize(air, Dc))[i])]
  <2>1. /\ "frame" # "word" /\ "frame" # "header" /\ "frame" # "payload" /\ "frame" # "symbol"
    OBVIOUS
  <2>2. QED
    BY <1>1, <2>1, Zenon DEF Decoding
<1>5. \A i \in Positions : decoded[i] = IF Index(i) \in burst THEN 1 - sent[i] ELSE sent[i]
  <2>1. SUFFICES ASSUME NEW i \in Positions
                 PROVE  decoded[i] = IF Index(i) \in burst THEN 1 - sent[i] ELSE sent[i]
    BY Zenon
  <2>2. decoded[i] = HardBit(DeinterleaveFrame(Derandomize(FrameAir(sent, errors), Dc))[i])
    BY <1>3, <1>4, Zenon
  <2>3. QED
    BY <1>3, <2>2, FrameBack, Zenon
<1>6. \A i \in Positions : sent[i] \in {0, 1}
  <2>1. sent \in [Positions -> {0, 1}]
    BY <1>3, FrameMessages
  <2>2. QED
    BY <2>1
<1>7. \A b \in {0, 1} : 1 - b # b
  OBVIOUS
<1>8. wrong = {i \in Positions : Index(i) \in burst}
  <2> HIDE DEF burst
  <2>1. \A i \in Positions : decoded[i] # sent[i] <=> Index(i) \in burst
    BY <1>5, <1>6, <1>7, Zenon
  <2>2. QED
    BY <2>1, Zenon
<1> HIDE DEF burst, wrong
<1>9. Cardinality(wrong) = Cardinality(Positions \cap burst)
  BY <1>8, AsManyHit, Zenon
<1>10. wrong \subseteq Positions
  BY <1>8, Zenon
<1>11. \A i \in wrong : \A j \in wrong \ {i} : Abs(i - j) + Abs(Index(i) - Index(j)) >= 64
  <2>1. SUFFICES ASSUME NEW i \in wrong, NEW j \in wrong \ {i}
                 PROVE  Abs(i - j) + Abs(Index(i) - Index(j)) >= 64
    BY Zenon
  <2>2. i \in Positions /\ j \in Positions /\ i # j
    BY <1>10
  <2>3. QED
    BY <2>2, Zenon
<1>12. QED
  BY <1>8, <1>9, <1>11, Zenon

\* It does so wherever the burst is, if the polynomial spreads the bits.
LEMMA SpreadFrame ==
  ASSUME Permutes,
         \A i, j \in Positions : i # j => Abs(i - j) + Abs(Index(i) - Index(j)) >= 64
  PROVE  Spec => []FrameRestored
<1>1. CaseInv => FrameRestored
  BY FrameIsRestored
<1>2. QED
  BY <1>1, CaseSound, PTL

\* With the code's polynomial and a frame of its size, a frame comes back with its bits in
\* their places, wrong just where the burst hit it, whatever the length of the burst.
THEOREM BurstSpread ==
  ASSUME FrameBits = 2152, F1 = 59, F2 = 1076
  PROVE  Spec => []FrameRestored
<1>1. Permutes
  BY PolynomialPermutes
<1>2. \A i, j \in Positions : i # j => Abs(i - j) + Abs(Index(i) - Index(j)) >= 64
  BY FrameSpread
<1>3. QED
  BY <1>1, <1>2, SpreadFrame, PTL

-----------------------------------------------------------------------------
(***************************************************************************)
(* Words and headers.                                                       *)
(***************************************************************************)
Fours(S) == {{i, j, m, n} : i, j, m, n \in S}

\* The elements of such a set are taken from S.
LEMMA FourOf ==
  ASSUME NEW S, NEW e \in Fours(S)
  PROVE  e \in SUBSET S
<1>1. \E i, j, m, n \in S : e = {i, j, m, n}
  BY SMT DEF Fours
<1>2. QED
  BY <1>1

\* The disturbances of a word are such sets of its bits, and none.
LEMMA FoursDisturb == UpToFour = Fours(0..23) \cup {{}}
  BY SMT DEF UpToFour, Fours

\* At most four bits of a word.
LEMMA WordDisturbed ==
  ASSUME NEW e \in UpToFour
  PROVE  e \in Words24
<1>1. UpToFour = Fours(0..23) \cup {{}}
  BY FoursDisturb, Zenon
<1>2. CASE e \in Fours(0..23)
  <2>1. \A S : \A x \in Fours(S) : x \in SUBSET S
    BY FourOf, Zenon
  <2>2. QED
    BY <1>2, <2>1, Zenon DEF Words24
<1>3. CASE e = {}
  BY <1>3 DEF Words24
<1>4. QED
  BY <1>1, <1>2, <1>3

\* A word's case: what is received, and what is made of it.
LEMMA WordCase ==
  ASSUME CaseInv, kind = "word", stage = "received"
  PROVE  /\ sent \in SUBSET (0..11) /\ errors \in Words24
         /\ decoded = Decode24(SymDiff(Encode24(sent), errors))
<1>1. "received" # "sent"
  OBVIOUS
<1>2. /\ sent \in Messages("word") /\ errors \in Disturbances("word")
      /\ air = WordAir(sent, errors) /\ decoded = Decoding
  BY <1>1, Zenon DEF CaseInv
<1>3. Messages("word") = {BitsOf(n) : n \in Words}
  BY SMT DEF Messages
<1>4. Disturbances("word") = UpToFour
  BY SMT DEF Disturbances
<1>5. sent \in SUBSET (0..11)
  <2>1. PICK n \in Words : sent = BitsOf(n)
    BY <1>2, <1>3, Zenon
  <2>2. BitsOf(n) \in SUBSET (0..11)
    BY DEF BitsOf
  <2>3. QED
    BY <2>1, <2>2
<1>6. Decoding = Decode24(air)
  BY Zenon DEF Decoding
<1>7. QED
  BY <1>2, <1>4, <1>5, <1>6, WordDisturbed, Zenon DEF WordAir

\* With the invariant, a word's errors are corrected.
LEMMA WordIsCorrected == CaseInv => WordCorrected
<1>1. SUFFICES ASSUME CaseInv, kind = "word", stage = "received", Cardinality(errors) <= 3
               PROVE  /\ decoded.ok => DataOf(decoded.word) = sent
                      /\ 0 \notin errors \/ errors = {0} => decoded.ok
                      /\ 0 \in errors /\ Cardinality(errors) = 2 =>
                           (decoded.ok <=> errors \cap 1..12 = {})
  BY Zenon DEF WordCorrected, Received
<1>2. PICK data \in SUBSET (0..11), e \in Words24 : data = sent /\ e = errors
  BY <1>1, WordCase
<1>3. PICK D : D = decoded /\ D = Decode24(SymDiff(Encode24(data), e))
  BY <1>1, <1>2, WordCase, Zenon
<1>4. Cardinality(e) <= 3
  BY <1>1, <1>2
<1>5. /\ DataOf(D.word) = data
      /\ 0 \notin e \/ e = {0} => D.ok
      /\ 0 \in e /\ Cardinality(e) = 2 => (D.ok <=> e \cap 1..12 = {})
  BY <1>3, <1>4, GolayCorrects
<1>6. QED
  BY <1>2, <1>3, <1>5, Zenon

\* With the invariant, four errors are noticed.
LEMMA FourAreNoticed == CaseInv => FourErrorsNoticed
<1>1. SUFFICES ASSUME CaseInv, kind = "word", stage = "received", Cardinality(errors) = 4
               PROVE  ~decoded.ok
  BY Zenon DEF FourErrorsNoticed, Received
<1>2. PICK data \in SUBSET (0..11), e \in Words24 : data = sent /\ e = errors
  BY <1>1, WordCase
<1>3. decoded = Decode24(SymDiff(Encode24(data), e))
  BY <1>1, <1>2, WordCase, Zenon
<1>4. Cardinality(e) = 4
  BY <1>1, <1>2
<1>5. QED
  BY <1>3, <1>4, GolayNotices, Zenon

\* Whatever twelve bits are sent: up to three errors, the code's exceptions among them.
THEOREM WordsCorrected == Spec => []WordCorrected
<1>1. QED
  BY WordIsCorrected, CaseSound, PTL

\* Four errors are always noticed.
THEOREM FourNoticed == Spec => []FourErrorsNoticed
<1>1. QED
  BY FourAreNoticed, CaseSound, PTL

-----------------------------------------------------------------------------
\* The callsigns that are sent have nine characters at most, the last of them with a code.
LEMMA CallIs ==
  ASSUME NEW n \in 0..9, NEW s \in [1..n -> 1..40], n > 0 => s[n] # 40
  PROVE  Callsign(Call(s), n)
<1>1. Len(s) = n
  BY SeqDef
<1>2. Call(s) = [i \in 1..10 |-> IF i <= n THEN s[i] ELSE 0]
  BY <1>1 DEF Call, CallLength, Nul
<1>3. PICK c : c = Call(s)
  OBVIOUS
<1>4. \A i \in 1..10 : c[i] = IF i <= n THEN s[i] ELSE 0
  BY <1>2, <1>3
<1>5. \A i \in 1..10 : i <= n => s[i] \in 1..40
  <2>1. \A i \in 1..10 : i <= n => i \in 1..n
    BY SMT
  <2>2. \A i \in 1..n : s[i] \in 1..40
    BY Zenon
  <2>3. QED
    BY <2>1, <2>2, Zenon
<1>6. \A i \in 1..10 : c[i] \in 0..40 /\ (c[i] = 0 <=> i > n)
  <2>1. SUFFICES ASSUME NEW i \in 1..10 PROVE c[i] \in 0..40 /\ (c[i] = 0 <=> i > n)
    OBVIOUS
  <2>2. PICK x : x = c[i] /\ (i <= n => x \in 1..40) /\ (~ (i <= n) => x = 0)
    BY <1>4, <1>5
  <2>3. CASE i <= n
    <3>1. ~ (i > n) /\ x \in 1..40
      BY <2>2, <2>3
    <3>2. x \in 0..40 /\ x # 0
      BY <3>1
    <3>3. QED
      BY <2>2, <3>1, <3>2
  <2>4. CASE ~ (i <= n)
    <3>1. i > n /\ x = 0
      BY <2>2, <2>4
    <3>2. QED
      BY <2>2, <3>1
  <2>5. QED
    BY <2>3, <2>4
<1>7. c \in [1..10 -> 0..40]
  <2>1. c = [i \in 1..10 |-> c[i]]
    BY <1>2, <1>3
  <2>2. QED
    BY <1>6, <2>1
<1>8. n > 0 => c[n] # 40
  <2>1. n > 0 => n \in 1..10 /\ n <= n
    OBVIOUS
  <2>2. QED
    BY <1>4, <2>1
<1>9. QED
  BY <1>3, <1>6, <1>7, <1>8 DEF Callsign, Nul, Other

\* So are those of the headers that are sent.
LEMMA CallsignsSent ==
  ASSUME NEW call \in Calls
  PROVE  \E n : Callsign(call, n)
<1>1. PICK s : /\ call = Call(s)
               /\ s \in {<<23, 24, 36, 15>>, <<1, 26, 27, 36, 37, 38, 39, 1, 9>>,
                         [n \in 1..9 |-> 39], <<11, 40, 26>>, <<>>}
  BY DEF Calls
<1>2. CASE s = <<23, 24, 36, 15>>
  <2>1. s \in [1..4 -> 1..40] /\ s[4] # 40 /\ 4 \in 0..9
    BY <1>2
  <2>2. QED
    BY <1>1, <2>1, CallIs
<1>3. CASE s = <<1, 26, 27, 36, 37, 38, 39, 1, 9>>
  <2>1. s \in [1..9 -> 1..40] /\ s[9] # 40 /\ 9 \in 0..9
    BY <1>3
  <2>2. QED
    BY <1>1, <2>1, CallIs
<1>4. CASE s = [n \in 1..9 |-> 39]
  <2>1. s \in [1..9 -> 1..40] /\ s[9] # 40 /\ 9 \in 0..9
    BY <1>4
  <2>2. QED
    BY <1>1, <2>1, CallIs
<1>5. CASE s = <<11, 40, 26>>
  <2>1. s \in [1..3 -> 1..40] /\ s[3] # 40 /\ 3 \in 0..9
    BY <1>5
  <2>2. QED
    BY <1>1, <2>1, CallIs
<1>6. CASE s = << >>
  <2>1. Len(s) = 0
    BY <1>6
  <2>2. Call(s) = [i \in 1..10 |-> 0]
    BY <2>1 DEF Call, CallLength, Nul
  <2>3. Callsign(call, 0)
    BY <1>1, <2>2 DEF Callsign, Nul, Other
  <2>4. QED
    BY <2>3
<1>7. QED
  BY <1>1, <1>2, <1>3, <1>4, <1>5, <1>6

\* The disturbances of a header's word are corrected or noticed.
LEMMA WordErrorsAre ==
  ASSUME NEW e \in WordErrors
  PROVE  /\ e \in Words24
         /\ \/ Cardinality(e) <= 3 /\ (0 \notin e \/ e = { 0 })
            \/ Cardinality(e) = 4
<1>1. e \in Words24
  BY DEF WordErrors, Words24
<1>2. CASE e \in {{}, {0}, {12, 23}, {3, 13, 20}}
  <2>2. Cardinality(e) <= 3
    <3>1. {0} = {0, 0, 0} /\ {12, 23} = {12, 23, 23}
      OBVIOUS
    <3>2. CASE e = {}
      BY <3>2, FS_EmptySet
    <3>3. CASE e = {0}
      BY <3>1, <3>3, ThreeAtMost, Zenon
    <3>4. CASE e = {12, 23}
      <4>1. PICK c : c = {12, 23, 23}
        OBVIOUS
      <4>2. Cardinality(c) <= 3
        BY <4>1, ThreeAtMost, Zenon
      <4>3. c = e
        BY <3>4, <4>1
      <4>4. QED
        BY <4>2, <4>3, Zenon
    <3>5. CASE e = {3, 13, 20}
      BY <3>5, ThreeAtMost, Zenon
    <3>6. QED
      BY <1>2, <3>2, <3>3, <3>4, <3>5
  <2>3. 0 \notin e \/ e = {0}
    BY <1>2
  <2>4. QED
    BY <1>1, <2>2, <2>3
<1>3. CASE e = {2, 7, 14, 22}
  <2>1. PICK c : c = {2, 7, 14}
    OBVIOUS
  <2>2. IsFiniteSet({}) /\ Cardinality({}) = 0
    BY FS_EmptySet
  <2>3. PICK a : a = {} \cup {2}
    OBVIOUS
  <2>4. PICK b : b = a \cup {7}
    OBVIOUS
  <2>5. IsFiniteSet(a) /\ Cardinality(a) = 1
    BY <2>2, <2>3, FS_AddElement
  <2>6. 7 \notin a
    BY <2>3
  <2>7. IsFiniteSet(b) /\ Cardinality(b) = 2
    BY <2>4, <2>5, <2>6, FS_AddElement
  <2>8. 14 \notin b /\ c = b \cup {14}
    BY <2>1, <2>3, <2>4
  <2>9. IsFiniteSet(c) /\ Cardinality(c) = 3
    BY <2>7, <2>8, FS_AddElement
  <2>10. 22 \notin c /\ e = c \cup {22}
    BY <1>3, <2>1
  <2>11. Cardinality(e) = 4
    BY <2>9, <2>10, FS_AddElement
  <2>12. QED
    BY <1>1, <2>11
<1>4. QED
  BY <1>2, <1>3 DEF WordErrors

\* What is sent in a header: four groups.
LEMMA RawIs ==
  ASSUME NEW h \in Headers, NEW raw, raw = Raw(h)
  PROVE  /\ raw \in [1..4 -> Groups] /\ DecodeCallsign(SubSeq(raw, 1, 2)) = h.call
         /\ (IsBert(raw[3]) <=> h.bert) /\ (IsLast(raw[3]) <=> h.last) /\ raw[4] = h.token
<1>0. PICK call \in Calls, token \in {0, Group - 1}, bert \in BOOLEAN, last \in BOOLEAN :
        call = h.call /\ token = h.token /\ bert = h.bert /\ last = h.last
  <2>1. h.call \in Calls /\ h.token \in {0, Group - 1} /\ h.bert \in BOOLEAN /\ h.last \in BOOLEAN
    BY SMT DEF Headers
  <2>2. QED
    BY <2>1
<1>1. PICK n : Callsign(call, n)
  BY CallsignsSent
<1>2. PICK x \in Groups, y \in Groups : EncodeCallsign(call) = <<x, y>>
  BY <1>1, CallsignComesBack
<1>3. DecodeCallsign(<<x, y>>) = call
  BY <1>1, <1>2, CallsignComesBack
<1>4. PICK flags \in Groups :
        /\ flags = (IF bert THEN BertMode ELSE 0) + (IF last THEN LastFrame ELSE 0)
        /\ (IsBert(flags) <=> bert) /\ (IsLast(flags) <=> last)
  BY FlagsComeBack
<1>5. token \in Groups
  <2>1. Group \in Int /\ Group >= 1
    BY SMT DEF Group
  <2>2. 0 \in Groups /\ Group - 1 \in Groups
    BY <2>1, SMT DEF Groups
  <2>3. QED
    BY <2>2
<1>6. EncodeCallsign(call)[1] = x /\ EncodeCallsign(call)[2] = y
  BY <1>2
<1>7. raw = <<x, y, flags, token>>
  BY <1>0, <1>4, <1>6, Zenon DEF FillHeader, Raw
<1>8. raw \in [1..4 -> Groups] /\ raw[1] = x /\ raw[2] = y /\ raw[3] = flags /\ raw[4] = token
  BY <1>5, <1>7, SMT
<1>9. SubSeq(raw, 1, 2) = <<x, y>>
  <2>1. raw \in Seq(Groups) /\ Len(raw) = 4
    BY <1>5, <1>7, SMT
  <2>2. /\ SubSeq(raw, 1, 2) = [i \in 1..2 |-> raw[i]]
    BY <2>1, SMT
  <2>3. <<x, y>> = [i \in 1..2 |-> IF i = 1 THEN x ELSE y]
    BY SMT
  <2>4. \A i \in 1..2 : raw[i] = IF i = 1 THEN x ELSE y
    BY <1>8, SMT
  <2>5. QED
    BY <2>2, <2>3, <2>4, Zenon
<1>10. QED
  BY <1>0, <1>3, <1>4, <1>8, <1>9, Zenon

\* The errors of each word.
Wrong(at, e) == [w \in 1..8 |-> IF w = at THEN e ELSE {}]

\* The disturbed header, word by word.
LEMMA HeaderAirIs ==
  ASSUME NEW h, NEW at \in 1..8, NEW e
  PROVE  HeaderAir(h, <<at, e>>) =
           [w \in 1..8 |-> SymDiff(EncodeHeader(Raw(h))[w], Wrong(at, e)[w])]
<1>1. PICK code : code = EncodeHeader(Raw(h)) /\ code = [w \in 1..8 |-> code[w]]
  BY DEF EncodeHeader
<1>2. PICK wrong : wrong = <<at, e>>
  OBVIOUS
<1>3. HeaderAir(h, wrong) = [code EXCEPT ![at] = SymDiff(@, e)]
  <2>1. wrong[1] = at /\ wrong[2] = e
    BY <1>2
  <2>2. QED
    BY <1>1, <2>1, Zenon DEF HeaderAir
<1> DEFINE E == Wrong(at, e)
<1>4. \A w \in 1..8 : code[w] = SymDiff(code[w], {})
  BY DEF SymDiff
<1>5. [code EXCEPT ![at] = SymDiff(@, e)] = [w \in 1..8 |-> IF w = at THEN SymDiff(code[w], e) ELSE code[w]]
  BY <1>1, SMT
<1>6. \A w \in 1..8 :
        (IF w = at THEN SymDiff(code[w], e) ELSE code[w]) = SymDiff(code[w], E[w])
  <2>1. \A w \in 1..8 : E[w] = IF w = at THEN e ELSE {}
    BY DEF Wrong
  <2> HIDE DEF E
  <2>2. QED
    BY <1>4, <2>1, Zenon
<1>7. [w \in 1..8 |-> IF w = at THEN SymDiff(code[w], e) ELSE code[w]]
        = [w \in 1..8 |-> SymDiff(code[w], E[w])]
  BY <1>6, Zenon
<1>8. QED
  BY <1>1, <1>2, <1>3, <1>5, <1>7, Zenon

\* A header's case: what is received, and what is made of it.
LEMMA HeaderCase ==
  ASSUME CaseInv, kind = "header", stage = "received"
  PROVE  /\ sent \in Headers
         /\ errors \in (1..8) \X WordErrors
         /\ decoded = DecodeHeader(HeaderAir(sent, errors))
<1>1. "received" # "sent"
  OBVIOUS
<1>2. /\ sent \in Messages("header") /\ errors \in Disturbances("header")
      /\ air = HeaderAir(sent, errors) /\ decoded = Decoding
  BY <1>1, Zenon DEF CaseInv
<1>3. Messages("header") = Headers
  BY SMT DEF Messages
<1>4. Disturbances("header") = (1..8) \X WordErrors
  BY SMT DEF Disturbances
<1>6. Decoding = DecodeHeader(air)
  <2>1. "header" # "word"
    OBVIOUS
  <2>2. QED
    BY <2>1, Zenon DEF Decoding
<1>7. QED
  BY <1>2, <1>3, <1>4, <1>6, Zenon

\* With the invariant, a header is delivered or refused.
LEMMA HeaderIsDelivered == CaseInv => HeaderDelivered
<1>1. SUFFICES ASSUME CaseInv, kind = "header", stage = "received"
               PROVE  /\ decoded.ok <=> Cardinality(errors[2]) < 4
                      /\ decoded.ok =>
                           /\ DecodeCallsign(SubSeq(decoded.raw, 1, 2)) = sent.call
                           /\ IsBert(decoded.raw[3]) <=> sent.bert
                           /\ IsLast(decoded.raw[3]) <=> sent.last
                           /\ decoded.raw[4] = sent.token
  BY Zenon DEF HeaderDelivered, Received
<1>2. PICK h \in Headers : h = sent
  BY <1>1, HeaderCase
<1>3. PICK at \in 1..8, e \in WordErrors : errors = <<at, e>>
  BY <1>1, HeaderCase
<1>4. errors[2] = e
  BY <1>3
<1>5. PICK raw : raw = Raw(h)
  OBVIOUS
<1>6. /\ raw \in [1..4 -> Groups] /\ DecodeCallsign(SubSeq(raw, 1, 2)) = h.call
      /\ (IsBert(raw[3]) <=> h.bert) /\ (IsLast(raw[3]) <=> h.last) /\ raw[4] = h.token
  BY <1>5, RawIs
<1>7. /\ e \in Words24
      /\ \/ Cardinality(e) <= 3 /\ (0 \notin e \/ e = {0})
         \/ Cardinality(e) = 4
  BY WordErrorsAre
<1>8. PICK E : E = Wrong(at, e)
  OBVIOUS
<1>9. PICK words : words = [w \in 1..8 |-> SymDiff(EncodeHeader(raw)[w], E[w])]
  OBVIOUS
<1>10. decoded = DecodeHeader(words)
  <2>1. HeaderAir(sent, errors) = words
    <3>1. HeaderAir(h, <<at, e>>) =
            [w \in 1..8 |-> SymDiff(EncodeHeader(Raw(h))[w], Wrong(at, e)[w])]
      BY HeaderAirIs
    <3>2. words = [w \in 1..8 |-> SymDiff(EncodeHeader(Raw(h))[w], Wrong(at, e)[w])]
      BY <1>5, <1>8, <1>9, Zenon
    <3>3. QED
      BY <1>2, <1>3, <3>1, <3>2, Zenon
  <2>2. QED
    BY <1>1, <2>1, HeaderCase, Zenon
<1>11. E \in [1..8 -> Words24] /\ E[at] = e /\ \A w \in 1..8 : w # at => E[w] = {}
  <2>1. {} \in Words24
    BY DEF Words24
  <2>2. QED
    BY <1>7, <1>8, <2>1 DEF Wrong
<1>12. /\ (\A w \in 1..8 : Cardinality(E[w]) <= 3 /\ (0 \notin E[w] \/ E[w] = {0})) =>
            decoded.ok /\ decoded.raw = raw
       /\ (\E w \in 1..8 : Cardinality(E[w]) = 4) => ~decoded.ok
  BY <1>6, <1>9, <1>10, <1>11, HeaderComesBack
<1>13. Cardinality(e) \in Nat
  BY <1>7, WeightWithParity
<1>14. CASE Cardinality(e) <= 3 /\ (0 \notin e \/ e = {0})
  <2>1. Cardinality({}) <= 3 /\ 0 \notin {}
    BY FS_EmptySet
  <2>2. ASSUME NEW w \in 1..8 PROVE Cardinality(E[w]) <= 3 /\ (0 \notin E[w] \/ E[w] = {0})
    BY <1>11, <1>14, <2>1, Zenon
  <2>3. decoded.ok /\ decoded.raw = raw
    BY <1>12, <2>2, Zenon
  <2>4. Cardinality(e) < 4
    BY <1>13, <1>14
  <2>5. QED
    BY <1>2, <1>4, <1>6, <2>3, <2>4, Zenon
<1>15. CASE Cardinality(e) = 4
  <2>1. ~decoded.ok
    BY <1>11, <1>12, <1>15, Zenon
  <2>2. ~ (Cardinality(e) < 4)
    BY <1>15
  <2>3. QED
    BY <1>4, <2>1, <2>2, Zenon
<1>16. QED
  BY <1>7, <1>14, <1>15, Zenon

\* The callsign, the flags and the token come back in their places, or not at all.
THEOREM HeadersDelivered == Spec => []HeaderDelivered
<1>1. QED
  BY HeaderIsDelivered, CaseSound, PTL
=============================================================================
