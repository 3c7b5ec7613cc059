----------------------------- MODULE FrameCodes -----------------------------
(***************************************************************************)
(* The codes between opv-mod and opv-demod, each over its own channel: a    *)
(* message is encoded, disturbed on the air and decoded.  A case has one of *)
(* five kinds:                                                              *)
(*   "word"     12 bits in a Golay word, any few of its bits inverted       *)
(*   "header"   a frame header, one of its eight words disturbed            *)
(*   "payload"  a payload in the convolutional code, soft bits wrong        *)
(*   "symbol"   a dibit in a 4-FSK symbol, with noise                       *)
(*   "frame"    a whole frame, interleaved and randomized, hit by a burst   *)
(***************************************************************************)
EXTENDS HeaderCode, ConvolutionalCode, SoftBits, Interleaver

CONSTANTS Kinds,         \* the kinds to be run
          Words,         \* data of Golay words, as numbers
          PayloadBits,   \* bits in a payload
          BurstBits      \* consecutive bits of a frame lost in a burst

\* The metrics of a whole frame stay below those of the states a decoder cannot start in.
ASSUME CodesAssumption ==
  /\ PayloadBits \in Nat /\ BurstBits \in Nat
  /\ 4 * LlrLimit * (PayloadBits + K) < MaxMetric

VARIABLES stage,         \* "sent", "air" or "received"
          kind, sent,    \* what is sent
          errors,        \* what the channel does to it
          air,           \* what is received
          trellis,       \* the payload decoder's metrics and history
          decoded        \* what is made of it

vars == <<stage, kind, sent, errors, air, trellis, decoded>>

None == "none"

Call(s) == [n \in 1..CallLength |-> IF n <= Len(s) THEN s[n] ELSE Nul]
\* WX9O, a callsign of nine characters with every digit form, one with the largest
\* value, one with a character that has no code in the middle, and none at all.
Calls == {Call(s) : s \in {<<23, 24, 36, 15>>, <<1, 26, 27, 36, 37, 38, 39, 1, 9>>,
                           [n \in 1..9 |-> 39], <<11, 40, 26>>, <<>>}}
Headers == [call : Calls, token : {0, Group - 1}, bert : BOOLEAN, last : BOOLEAN]
Frames == {[i \in Positions |-> (i \div 5 + i \div 7) % 2], [i \in Positions |-> 0]}

\* What follows stands for the 2152 values of detail::DC: the frame's way back must not depend
\* on them.
Dc == [p \in Positions |-> IF (p * p) % 11 < 5 THEN -1 ELSE 1]

Messages(k) ==
  CASE k = "word" -> {BitsOf(n) : n \in Words}
    [] k = "header" -> Headers
    [] k = "payload" -> [1..PayloadBits -> {0, 1}]
    [] k = "symbol" -> Dibits
    [] k = "frame" -> Frames

UpToFour == {{i, j, m, n} : i, j, m, n \in 0..23} \cup {{}}
WordErrors == {{}, {0}, {12, 23}, {3, 13, 20}, {2, 7, 14, 22}}

Disturbances(k) ==
  CASE k = "word" -> UpToFour
    [] k = "header" -> (1..8) \X WordErrors
    [] k = "payload" ->
         [at : {{i, j} : i, j \in 1..2 * (PayloadBits + K)} \cup {{}}, strength : {1, LlrLimit}]
    [] k = "symbol" -> {2 * n - 1 : n \in -6..7}
    [] k = "frame" -> {((BurstBits + 1) \div 2) * n : n \in 0..(2 * FrameBits) \div (BurstBits + 1)}

Raw(h) == FillHeader(h.call, h.token, h.bert, h.last)

\* The encoder's output, after the channel.
InBurst(p) == p \in errors'..errors' + BurstBits - 1
OnAir ==
  CASE kind = "word" -> SymDiff(Encode24(sent), errors')
    [] kind = "header" ->
         [EncodeHeader(Raw(sent)) EXCEPT ![errors'[1]] = SymDiff(@, errors'[2])]
    [] kind = "payload" ->
         [n \in 1..2 * (PayloadBits + K) |->
            IF n \in errors'.at
            THEN Ideal(1 - EncodeStream(sent)[n]) \div (LlrLimit \div errors'.strength)
            ELSE Ideal(EncodeStream(sent)[n])]
    [] kind = "symbol" -> 14 * SymbolOf(sent) + errors'
    [] kind = "frame" ->
         LET bits == Randomize(InterleaveFrame(sent), Dc)
         IN  SoftFrame([p \in Positions |-> IF InBurst(p) THEN 1 - bits[p] ELSE bits[p]],
                       [p \in Positions |-> LlrLimit])

Decoding ==
  CASE kind = "word" -> Decode24(air)
    [] kind = "header" -> DecodeHeader(air)
    [] kind = "payload" -> Chainback(trellis, PayloadBits)
    [] kind = "symbol" -> Llr(air)
    [] kind = "frame" ->
         LET soft == DeinterleaveFrame(Derandomize(air, Dc))
         IN  [i \in Positions |-> HardBit(soft[i])]

Init ==
  /\ stage = "sent"
  /\ kind \in Kinds
  /\ sent \in Messages(kind)
  /\ errors = None /\ air = None /\ decoded = None
  /\ trellis = StartTrellis

Transmit ==
  /\ stage = "sent" /\ stage' = "air"
  /\ errors' \in Disturbances(kind)
  /\ air' = OnAir
  /\ UNCHANGED <<kind, sent, trellis, decoded>>

\* An iteration of the loop of Viterbi's decode().
PairsDone == Len(trellis.history)
DecodePair ==
  /\ stage = "air" /\ kind = "payload"
  /\ PairsDone < PayloadBits + K
  /\ trellis' = AddPair(trellis, <<air[2 * PairsDone + 1], air[2 * PairsDone + 2]>>)
  /\ UNCHANGED <<stage, kind, sent, errors, air, decoded>>

Receive ==
  /\ stage = "air" /\ stage' = "received"
  /\ kind = "payload" => PairsDone = PayloadBits + K
  /\ decoded' = Decoding
  /\ UNCHANGED <<kind, sent, errors, air, trellis>>

Next == Transmit \/ DecodePair \/ Receive
Spec == Init /\ [][Next]_vars

-----------------------------------------------------------------------------
Received(k) == kind = k /\ stage = "received"

\* A Golay word with up to three wrong bits is never taken for other data.  It is
\* corrected, unless the parity bit is among them and so is one of the eleven check
\* bits or the lowest data bit: with two wrong bits such a word is refused.  (The
\* syndrome of a single error there has three bits or more, and the parity is tested
\* then, although "Only test parity for 3-bit errors", Golay24.h:217.)
WordCorrected ==
  Received("word") /\ Cardinality(errors) <= 3 =>
    /\ decoded.ok => DataOf(decoded.word) = sent
    /\ 0 \notin errors \/ errors = {0} => decoded.ok
    /\ 0 \in errors /\ Cardinality(errors) = 2 =>
         (decoded.ok <=> errors \cap 1..12 = {})

\* Four wrong bits anywhere in a word, the parity bit included, are always noticed.
FourErrorsNoticed == Received("word") /\ Cardinality(errors) = 4 => ~decoded.ok

\* A header with a few wrong bits in one word gives back the callsign, the flags and
\* the token that were sent, each in its place; with too many in any word it gives
\* nothing.
HeaderDelivered ==
  Received("header") =>
    /\ decoded.ok <=> Cardinality(errors[2]) < 4
    /\ decoded.ok =>
         /\ DecodeCallsign(SubSeq(decoded.raw, 1, 2)) = sent.call
         /\ IsBert(decoded.raw[3]) <=> sent.bert
         /\ IsLast(decoded.raw[3]) <=> sent.last
         /\ decoded.raw[4] = sent.token

\* Every sequence of bits and what its coded bits would ideally be received as; how far
\* that is from what was received.
CodeBook ==
  {[bits |-> b,
    ideal |-> LET code == EncodeBits(b) IN [n \in 1..Len(code) |-> Ideal(code[n])]] :
     b \in [1..PayloadBits + K -> {0, 1}]}
Distance(ideal) ==
  LET upTo[n \in 0..Len(air)] ==
        IF n = 0 THEN 0 ELSE upTo[n-1] + SoftCost(ideal[n], air[n])
  IN  upTo[Len(air)]

\* The decoder's answer is the beginning of a most likely sequence: none of the
\* sequences the encoder might have sent, flushed or not, is nearer to what was
\* received, and the metric it reports is that distance.
MostLikely ==
  Received("payload") =>
    /\ \A c \in CodeBook : decoded.metric <= Distance(c.ideal)
    /\ \E c \in CodeBook :
         /\ SubSeq(c.bits, 1, PayloadBits) = decoded.bits
         /\ Distance(c.ideal) = decoded.metric

\* One wrong soft bit is corrected wherever it is, and so are two unless both are in
\* the last K+1 pairs, however certain they were.  (There the decoder may prefer
\* an end state that the encoder, flushed, cannot be in.)
PayloadCorrected ==
  Received("payload") =>
    \/ decoded.bits = sent
    \/ Cardinality(errors.at) = 2 /\ \A n \in errors.at : n > 2 * (PayloadBits - 1)

\* Both soft bits of a sample have the sign of its nearest symbol's bits, and grow with
\* the distance to where that bit changes, in steps of a seventh from 1 to 7: noise
\* of less than the distance to the next symbol's region never inverts a bit.
Measured(bit, distance) ==
  (IF bit = 1 THEN 1 ELSE -1)
    * (IF distance > 14 THEN LlrLimit ELSE (distance + 1) \div 2)
SoftBitsMeasure ==
  Received("symbol") =>
    decoded = <<Measured(sent[1], Abs(air)), Measured(sent[2], Abs(Abs(air) - 28))>>

\* A frame comes back with every bit in its place and the wrong ones where the burst
\* was sent from; two of these are far apart in the frame or on the air: their
\* distances add up to 64 (Numerology.h:61-64).
FrameRestored ==
  Received("frame") =>
    LET wrong == {i \in Positions : decoded[i] # sent[i]}
    IN  /\ \A i \in wrong : Index(i) \in errors..errors + BurstBits - 1
        /\ Cardinality(wrong) = Cardinality(Positions \cap (errors..errors + BurstBits - 1))
        /\ \A i \in wrong : \A j \in wrong \ {i} :
             Abs(i - j) + Abs(Index(i) - Index(j)) >= 64
=============================================================================
