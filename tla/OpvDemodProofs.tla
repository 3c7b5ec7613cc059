--------------------------- MODULE OpvDemodProofs ---------------------------
(***************************************************************************)
(* Theorems about OpvDemod: whatever is transmitted and lost on the way,    *)
(* for every register, every history and every threshold of PRBS9.          *)
(***************************************************************************)
EXTENDS OpvDemod, DataInduction

Bad == {n \in Ring : history[n]}

\* The inductive invariant for the validator: its history and the count of it.
HistoryInv ==
  /\ synced \in BOOLEAN
  /\ history \in [Ring -> BOOLEAN]
  /\ histPos \in Ring
  /\ HistoryCounted

-----------------------------------------------------------------------------
\* A ring of HistoryBits places has finitely many bad ones, and none after a reset.
LEMMA RingFinite == IsFiniteSet(Ring) /\ 0 \in Ring
<1>1. HistoryBits \in Nat \ {0}
  BY PrbsAssumption
<1>2. IsFiniteSet(0..HistoryBits-1)
  BY <1>1, FS_Interval
<1>3. QED
  BY <1>1, <1>2 DEF Ring

LEMMA NoneBad ==
  /\ Clean \in [Ring -> BOOLEAN]
  /\ Cardinality({n \in Ring : Clean[n]}) = 0
<1>1. {n \in Ring : Clean[n]} = {}
  BY DEF Clean
<1>2. QED
  BY <1>1, FS_EmptySet DEF Clean

\* Putting a bit into the history changes the number of bad ones as count_errors does:
\* by the bit that comes in and the one that goes out.
LEMMA OneBitOfHistory ==
  ASSUME HistoryInv, NEW bad \in BOOLEAN
  PROVE  LET later == [history EXCEPT ![histPos] = bad]
         IN  /\ later \in [Ring -> BOOLEAN]
             /\ Cardinality({n \in Ring : later[n]}) = HistCountAfter(bad)
<1> DEFINE later == [history EXCEPT ![histPos] = bad]
           after == {n \in Ring : later[n]}
           others == Bad \ {histPos}
           leaves == IF history[histPos] THEN 1 ELSE 0
           enters == IF bad THEN 1 ELSE 0
<1>1. /\ history \in [Ring -> BOOLEAN] /\ histPos \in Ring
      /\ histCount = Cardinality(Bad)
  BY DEF HistoryInv, HistoryCounted, Bad
<1>2. later \in [Ring -> BOOLEAN]
  BY <1>1
<1>3. IsFiniteSet(Bad) /\ IsFiniteSet(others)
  BY RingFinite, FS_Subset DEF Bad
<1>4. Cardinality(Bad) \in Nat /\ Cardinality(others) \in Nat
  BY <1>3, FS_CardinalityType
<1>5. histCount = Cardinality(others) + leaves
  <2>0. history[histPos] = TRUE \/ history[histPos] = FALSE
    BY <1>1
  <2>1. CASE history[histPos] = TRUE
    <3>1. histPos \in Bad
      BY <1>1, <2>1 DEF Bad
    <3>2. Cardinality(others) = Cardinality(Bad) - 1
      BY <3>1, <1>3, FS_RemoveElement
    <3>3. QED
      BY <1>1, <1>4, <2>1, <3>2
  <2>2. CASE history[histPos] = FALSE
    <3>1. others = Bad
      BY <1>1, <2>2 DEF Bad
    <3>2. QED
      BY <1>1, <1>4, <2>2, <3>1
  <2>3. QED
    BY <2>0, <2>1, <2>2
<1>6. Cardinality(after) = Cardinality(others) + enters
  <2>0. bad = TRUE \/ bad = FALSE
    OBVIOUS
  <2>1. CASE bad = TRUE
    <3>1. after = others \cup {histPos} /\ histPos \notin others
      BY <1>1, <2>1 DEF Bad
    <3>2. Cardinality(others \cup {histPos}) = Cardinality(others) + 1
      BY <3>1, <1>3, FS_AddElement
    <3>3. QED
      BY <2>1, <3>1, <3>2
  <2>2. CASE bad = FALSE
    <3>1. after = others
      BY <1>1, <2>2 DEF Bad
    <3>2. QED
      BY <1>4, <2>2, <3>1
  <2>3. QED
    BY <2>0, <2>1, <2>2
<1>7. QED
  <2>1. leaves \in {0, 1} /\ enters \in {0, 1}
    OBVIOUS
  <2>2. HistCountAfter(bad) = histCount - leaves + enters
    BY DEF HistCountAfter
  <2> HIDE DEF leaves, enters, others
  <2>3. Cardinality(after) = histCount - leaves + enters
    BY <1>4, <1>5, <1>6, <2>1
  <2>4. QED
    BY <1>2, <2>2, <2>3

\* A reset, and a lock, begin a new history.
LEMMA ResetCounts ==
  ASSUME history' = Clean, histCount' = 0, histPos' = 0, synced' \in BOOLEAN
  PROVE  HistoryInv'
<1>1. UNLOCK_COUNT > 0 /\ 0 \in Ring
  BY PrbsAssumption, RingFinite
<1>2. Cardinality({n \in Ring : history'[n]}) = 0 /\ history' \in [Ring -> BOOLEAN]
  BY NoneBad
<1>3. QED
  BY <1>1, <1>2 DEF HistoryInv, HistoryCounted, Ring

LEMMA UnchangedCounts ==
  ASSUME HistoryInv, UNCHANGED <<synced, history, histCount, histPos>>
  PROVE  HistoryInv'
BY DEF HistoryInv, HistoryCounted, Ring

LEMMA ValidateCounts ==
  ASSUME HistoryInv, NEW bit, Validate(bit)
  PROVE  HistoryInv'
<1>1. CASE Mismatch(bit) \/ Match(bit)
  BY <1>1, UnchangedCounts DEF Mismatch, Match
<1>2. CASE Lock(bit)
  BY <1>2, ResetCounts DEF Lock
<1>3. CASE RunFree(bit)
  <2> DEFINE bad == bit # Feedback(state)
  <2>1. bad \in BOOLEAN
    OBVIOUS
  <2>2. CountErrors(bad)
    BY <1>3 DEF RunFree
  <2> HIDE DEF bad
  <2>3. /\ history' = [history EXCEPT ![histPos] = bad]
        /\ histCount' = HistCountAfter(bad)
        /\ synced' = ~Unlocks(bad)
        /\ histPos' = (histPos + 1) % HistoryBits
    BY <2>2 DEF CountErrors
  <2>4. /\ history' \in [Ring -> BOOLEAN]
        /\ Cardinality({n \in Ring : history'[n]}) = histCount'
    BY <2>1, <2>3, OneBitOfHistory
  <2>5. histPos' \in Ring
    <3>1. HistoryBits \in Nat \ {0} /\ histPos \in 0..HistoryBits-1
      BY PrbsAssumption DEF HistoryInv, Ring
    <3>2. QED
      BY <2>3, <3>1 DEF Ring
  <2>6. synced' \in BOOLEAN
    BY <2>3 DEF Unlocks
  <2>7. synced' => histCount' < UNLOCK_COUNT
    <3>1. synced /\ synced \in BOOLEAN /\ histCount < UNLOCK_COUNT
      BY <1>3 DEF RunFree, HistoryInv, HistoryCounted
    <3>2. histCount \in Nat /\ UNLOCK_COUNT \in Nat
      BY RingFinite, FS_Subset, FS_CardinalityType, PrbsAssumption
         DEF HistoryInv, HistoryCounted
    <3>3. CASE bad
      <4>1. histCount' \in Int
        <5>1. (IF history[histPos] THEN 1 ELSE 0) \in {0, 1} /\ (IF bad THEN 1 ELSE 0) \in {0, 1}
          OBVIOUS
        <5>2. QED
          BY <2>3, <3>2, <5>1 DEF HistCountAfter
      <4>2. synced' => ~(histCount' >= UNLOCK_COUNT)
        BY <2>3, <3>3 DEF Unlocks
      <4>3. QED
        BY <3>2, <4>1, <4>2
    <3>4. CASE ~bad
      <4>1. (IF history[histPos] THEN 1 ELSE 0) \in {0, 1} /\ (IF bad THEN 1 ELSE 0) = 0
        BY <3>4
      <4>2. histCount' = histCount - (IF history[histPos] THEN 1 ELSE 0)
                           + (IF bad THEN 1 ELSE 0)
        BY <2>3 DEF HistCountAfter
      <4>3. QED
        BY <3>1, <3>2, <4>1, <4>2
    <3>5. QED
      BY <3>3, <3>4
  <2>8. QED
    BY <2>4, <2>5, <2>6, <2>7 DEF HistoryInv, HistoryCounted, Ring
<1>4. QED
  BY <1>1, <1>2, <1>3 DEF Validate, Synchronize

-----------------------------------------------------------------------------
LEMMA HistoryInit == Init => HistoryInv
<1>1. UNLOCK_COUNT > 0 /\ 0 \in Ring
  BY PrbsAssumption, RingFinite
<1>2. QED
  BY <1>1, NoneBad DEF Init, PrbsInit, HistoryInv, HistoryCounted

LEMMA HistoryStep == HistoryInv /\ [Next]_demodVars => HistoryInv'
<1> SUFFICES ASSUME HistoryInv, [Next]_demodVars PROVE HistoryInv'
  OBVIOUS
<1>1. ASSUME NEW t \in Transmissions, StartTransmission(t) PROVE HistoryInv'
  BY <1>1, UnchangedCounts DEF StartTransmission, prbsVars
<1>2. ASSUME NEW isLast, NextFrame(isLast) PROVE HistoryInv'
  BY <1>2, UnchangedCounts DEF NextFrame, prbsVars
<1>3. CASE ValidateBit
  BY <1>3, ValidateCounts DEF ValidateBit
<1>4. CASE LoseCarrier
  <2>1. CASE Reset
    BY <2>1, ResetCounts DEF Reset
  <2>2. CASE UNCHANGED prbsVars
    BY <2>2, UnchangedCounts DEF prbsVars
  <2>3. QED
    BY <1>4, <2>1, <2>2 DEF LoseCarrier
<1>5. CASE RegainCarrier
  BY <1>5, UnchangedCounts DEF RegainCarrier, prbsVars
<1>6. CASE UNCHANGED demodVars
  BY <1>6, UnchangedCounts DEF demodVars, prbsVars
<1>7. QED
  BY <1>1, <1>2, <1>3, <1>4, <1>5, <1>6 DEF Next, ReceiveFrame, MissFrame

\* hist_count is always the number of bad bits in the history, however often it was
\* begun anew, and a validator that has seen UNLOCK_COUNT of them is not locked.
THEOREM HistoryIsCounted == Spec => []HistoryCounted
<1>1. HistoryInv => HistoryCounted
  BY DEF HistoryInv
<1>2. QED
  BY HistoryInit, HistoryStep, <1>1, PTL DEF Spec

-----------------------------------------------------------------------------
(***************************************************************************)
(* The frame header                                                        *)
(***************************************************************************)

\* A frame's header, decoded or not, leaves the fields those of the raw header.
LEMMA FrameKeepsHeader ==
  ASSUME HeaderCoherent, NEW ok \in BOOLEAN, NEW raw, DecodeFrame(ok, raw)
  PROVE  HeaderCoherent' /\ (ok => flags' = raw[3]) /\ (~ok => flags' = flags)
<1>1. CASE ok
  <2>1. UpdateHeader(raw)
    BY <1>1 DEF DecodeFrame
  <2>2. rawHeader' = raw
    BY <2>1 DEF UpdateHeader
  <2>3. callsign' = DecodeCallsign(CallOf(raw))
    BY <2>1 DEF UpdateHeader, CallChanged, HeaderCoherent
  <2>4. flags' = raw[3] /\ token' = raw[4]
    BY <2>1 DEF UpdateHeader, HeaderCoherent
  <2>5. CallOf(rawHeader)' = CallOf(raw)
    BY <2>2 DEF CallOf
  <2>6. QED
    BY <1>1, <2>2, <2>3, <2>4, <2>5 DEF HeaderCoherent
<1>2. CASE ~ok
  BY <1>2 DEF DecodeFrame, HeaderFails, HeaderCoherent, CallOf
<1>3. QED
  BY <1>1, <1>2

LEMMA HeaderUnchanged ==
  ASSUME HeaderCoherent, UNCHANGED decoderVars
  PROVE  HeaderCoherent'
BY DEF HeaderCoherent, decoderVars, CallOf

\* What a header says is what was put into it.
LEMMA FlagsAreSent ==
  ASSUME NEW isLast \in BOOLEAN
  PROVE  /\ IsBert(Header(isLast)[3]) <=> sending.bert
         /\ IsLast(Header(isLast)[3]) <=> isLast
<1> DEFINE bert == IF sending.bert THEN BertMode ELSE 0
           last == IF isLast THEN LastFrame ELSE 0
<1>1. Header(isLast)[3] = bert + last
  BY DEF Header, FillHeader
<1>2. CASE sending.bert /\ isLast
  <2>1. bert + last = 12582912
    BY <1>2 DEF BertMode, LastFrame
  <2>2. QED
    BY <1>1, <1>2, <2>1 DEF IsBert, IsLast, BertMode, LastFrame
<1>3. CASE sending.bert /\ ~isLast
  <2>1. bert + last = 4194304
    BY <1>3 DEF BertMode, LastFrame
  <2>2. QED
    BY <1>1, <1>3, <2>1 DEF IsBert, IsLast, BertMode, LastFrame
<1>4. CASE ~sending.bert /\ isLast
  <2>1. bert + last = 8388608
    BY <1>4 DEF BertMode, LastFrame
  <2>2. QED
    BY <1>1, <1>4, <2>1 DEF IsBert, IsLast, BertMode, LastFrame
<1>5. CASE ~sending.bert /\ ~isLast
  <2>1. bert + last = 0
    BY <1>5
  <2>2. QED
    BY <1>1, <1>5, <2>1 DEF IsBert, IsLast, BertMode, LastFrame
<1>6. QED
  BY <1>2, <1>3, <1>4, <1>5

\* Once heard, the flags kept are those of this transmission; a last frame's, only
\* when it is over.
FlagsHeard ==
  heard => /\ IsBert(flags) <=> sending.bert
           /\ IsLast(flags) => ended
RouteInv == HeaderCoherent /\ FlagsHeard /\ RoutedAsSent

LEMMA RouteInit == Init => RouteInv
BY DEF Init, DecoderInit, RouteInv, HeaderCoherent, FlagsHeard, RoutedAsSent, DecodeCallsign,
       NotZero, CallOf

LEMMA ReceiveRoutes ==
  ASSUME RouteInv, NEW isLast \in BOOLEAN, NEW ok \in BOOLEAN, NEW places,
         ReceiveFrame(isLast, ok, places)
  PROVE  RouteInv'
<1>1. /\ DecodeFrame(ok, Header(isLast)) /\ ~ended /\ ended' = isLast
      /\ heard' = (heard \/ ok) /\ sending' = sending
  BY DEF ReceiveFrame, NextFrame
<1>2. /\ HeaderCoherent'
      /\ ok => flags' = Header(isLast)[3]
      /\ ~ok => flags' = flags
  BY <1>1, FrameKeepsHeader DEF RouteInv
<1>3. heard' => (IsBert(flags') <=> sending.bert) /\ (IsLast(flags') => isLast)
  <2>1. CASE ok
    BY <1>2, <2>1, FlagsAreSent
  <2>2. CASE ~ok
    BY <1>1, <1>2, <2>2 DEF RouteInv, FlagsHeard
  <2>3. QED
    BY <2>1, <2>2
<1>4. FlagsHeard'
  BY <1>1, <1>3 DEF FlagsHeard
<1>5. outputType' = TypeOf(flags') /\ (answer' = "EOS" => IsLast(flags'))
  BY <1>1 DEF DecodeFrame, DecodeStream
<1>6. RoutedAsSent'
  BY <1>1, <1>3, <1>5 DEF RoutedAsSent, TypeOf
<1>7. QED
  BY <1>2, <1>4, <1>6 DEF RouteInv

LEMMA RouteStep == RouteInv /\ [Next]_demodVars => RouteInv'
<1> SUFFICES ASSUME RouteInv, [Next]_demodVars PROVE RouteInv'
  OBVIOUS
<1> USE DEF RouteInv, FlagsHeard, RoutedAsSent
<1>1. ASSUME NEW t \in Transmissions, StartTransmission(t) PROVE RouteInv'
  BY <1>1, HeaderUnchanged DEF StartTransmission
<1>2. ASSUME NEW isLast \in BOOLEAN, MissFrame(isLast) PROVE RouteInv'
  BY <1>2, HeaderUnchanged DEF MissFrame, NextFrame, decoderVars
<1>3. CASE ValidateBit
  BY <1>3, HeaderUnchanged DEF ValidateBit, decoderVars, airVars
<1>4. CASE LoseCarrier
  BY <1>4, HeaderUnchanged DEF LoseCarrier, decoderVars
<1>5. CASE RegainCarrier
  BY <1>5, HeaderUnchanged DEF RegainCarrier, decoderVars, ghostVars
<1>6. CASE UNCHANGED demodVars
  BY <1>6, HeaderUnchanged DEF demodVars, decoderVars, airVars, ghostVars
<1>7. QED
  BY <1>1, <1>2, <1>3, <1>4, <1>5, <1>6, ReceiveRoutes DEF Next

\* The fields of the header are always those decoded from the raw header last
\* received well, whichever of them changed from one header to the next.
THEOREM HeaderIsCoherent == Spec => []HeaderCoherent
<1>1. RouteInv => HeaderCoherent
  BY DEF RouteInv
<1>2. QED
  BY RouteInit, RouteStep, <1>1, PTL DEF Spec

\* After the first header decoded, every frame of a transmission goes where it
\* belongs, and nothing but its last frame ends the stream.
THEOREM FramesAreRouted == Spec => []RoutedAsSent
<1>1. RouteInv => RoutedAsSent
  BY DEF RouteInv
<1>2. QED
  BY RouteInit, RouteStep, <1>1, PTL DEF Spec

(***************************************************************************)
(* Types                                                                   *)
(***************************************************************************)

\* The operations on registers give registers and bits.
LEMMA RegistersClosed ==
  /\ One \in Registers /\ Zero \in Registers
  /\ \A r \in Registers : Feedback(r) \in Bit
  /\ \A r \in Registers, b \in Bit : Shifted(r, b) \in Registers
  /\ \A r \in Registers : Generated(r) \in Registers
<1>1. Width \in Nat \ {0} /\ Tap \in 0..Width-1 /\ 0 \in 0..Width-1
  BY PrbsAssumption
<1>2. One \in Registers /\ Zero \in Registers
  BY <1>1 DEF One, Zero, Registers, Bit
<1>3. \A r \in Registers : Feedback(r) \in Bit
  BY DEF Feedback, Xor, Bit
<1>4. ASSUME NEW r \in Registers, NEW b \in Bit PROVE Shifted(r, b) \in Registers
  <2>1. \A n \in 0..Width-1 : n # 0 => n - 1 \in 0..Width-1
    BY <1>1
  <2>2. \A n \in 0..Width-1 : (IF n = 0 THEN b ELSE r[n-1]) \in Bit
    BY <2>1 DEF Registers
  <2>3. QED
    BY <2>2 DEF Shifted, Registers
<1>5. QED
  BY <1>2, <1>3, <1>4 DEF Generated

\* Generations(r, n) is what its recursion says.
IsRun(E, r, n) ==
  /\ E \in [0..n -> Registers] /\ E[0] = r
  /\ \A i \in 0..n-1 : E[i+1] = Generated(E[i])

LEMMA GenerationsIs ==
  ASSUME NEW r \in Registers, NEW n \in Nat
  PROVE  IsRun(Generations(r, n), r, n)
<1> DEFINE step == [i \in Nat |-> [s \in Registers |-> Generated(s)]]
           Body(g) == [i \in 0..n |-> IF i = 0 THEN r ELSE Generated(g[i-1])]
           g == CHOOSE h : h = Body(h)
<1>1. step \in [Nat -> [Registers -> Registers]]
  BY RegistersClosed
<1>2. PICK f : Begins(f, n, Registers, r, step)
  <2> HIDE DEF step
  <2>1. QED
    BY <1>1, BeginningsExist
<1>3. \A i \in 0..n-1 : f[i+1] = Generated(f[i])
  <2>1. SUFFICES ASSUME NEW i \in 0..n-1 PROVE f[i+1] = Generated(f[i])
    OBVIOUS
  <2>2. i \in Nat /\ i \in 0..n
    OBVIOUS
  <2>3. f[i+1] = step[i][f[i]] /\ f[i] \in Registers
    <3> HIDE DEF step
    <3>1. QED
      BY <1>2, <2>2 DEF Begins
  <2>4. step[i] = [s \in Registers |-> Generated(s)]
    BY <2>2
  <2> HIDE DEF step
  <2>5. QED
    BY <2>3, <2>4, Zenon
<1>4. f = Body(f)
  <2>1. \A i \in 0..n : i # 0 => i - 1 \in 0..n-1 /\ (i - 1) + 1 = i
    OBVIOUS
  <2>2. \A i \in 0..n : f[i] = (IF i = 0 THEN r ELSE Generated(f[i-1]))
    <3>1. f[0] = r
      BY <1>2 DEF Begins
    <3>2. ASSUME NEW i \in 0..n, i # 0 PROVE f[i] = Generated(f[i-1])
      <4>1. f[(i-1)+1] = Generated(f[i-1])
        BY <1>3, <2>1, <3>2
      <4>2. QED
        BY <2>1, <3>2, <4>1
    <3>3. QED
      BY <3>1, <3>2
  <2>3. f \in [0..n -> Registers]
    BY <1>2 DEF Begins
  <2>4. QED
    BY <2>2, <2>3
<1>5. g = Body(g)
  <2> HIDE DEF Body
  <2>1. QED
    BY <1>4
<1>6. g = Generations(r, n)
  BY DEF Generations
<1> HIDE DEF g
<1>7. \A i \in 0..n : g[i] \in Registers
  <2> DEFINE S == {i \in 0..n : g[i] \in Registers}
  <2>1. 0 \in S
    BY <1>5
  <2>2. ASSUME NEW i \in 0..n-1, i \in S PROVE i + 1 \in S
    <3>1. i + 1 \in 0..n /\ i + 1 # 0 /\ (i + 1) - 1 = i
      OBVIOUS
    <3>2. g[i+1] = Generated(g[i])
      BY <1>5, <3>1
    <3>3. QED
      BY <2>2, <3>1, <3>2, RegistersClosed
  <2>3. 0..n \subseteq S
    <3> HIDE DEF S
    <3>1. QED
      BY <2>1, <2>2, BoundedInduction
  <2>4. QED
    BY <2>3
<1>8. g[0] = r /\ \A i \in 0..n-1 : g[i+1] = Generated(g[i])
  <2>1. \A i \in 0..n-1 : i + 1 \in 0..n /\ i + 1 # 0 /\ (i + 1) - 1 = i
    OBVIOUS
  <2>2. QED
    BY <1>5, <2>1
<1>9. g \in [0..n -> Registers]
  BY <1>5, <1>7
<1>10. QED
  BY <1>6, <1>8, <1>9 DEF IsRun

LEMMA GroupNat == Group \in Nat \ {0}
  BY SMT DEF Group

\* The two halves of an encoded callsign stay in their 24 bits.
LEMMA DigitAdded ==
  ASSUME NEW a \in 0..Group-1, NEW b \in 0..Group-1, NEW c \in 0..Other
  PROVE  AddDigit(<<a, b>>, c) \in (0..Group-1) \X (0..Group-1)
<1>1. PICK G \in Nat \ {0} : G = Group
  BY GroupNat
<1>2. PICK d \in Nat : d = IF c = Other THEN 0 ELSE c
  BY DEF Other
<1>3. PICK low \in Nat : low = 40 * b + d
  BY <1>1
<1>4. low \div G \in Int /\ a \in Int
  BY <1>1
<1>5. (40 * a + low \div G) \in Int
  BY <1>4
<1>6. low % G \in 0..G-1 /\ (40 * a + low \div G) % G \in 0..G-1
  BY <1>1, <1>5
<1>7. AddDigit(<<a, b>>, c) = <<(40 * a + low \div G) % G, low % G>>
  <2>1. AddDigit(<<a, b>>, c) = TimesFortyPlus(<<a, b>>, d)
    BY <1>2 DEF AddDigit
  <2>2. <<a, b>>[1] = a /\ <<a, b>>[2] = b
    OBVIOUS
  <2>3. QED
    BY <1>1, <1>3, <2>1, <2>2 DEF TimesFortyPlus
<1>8. QED
  BY <1>1, <1>6, <1>7

\* So does what the whole recursion of encode_callsign gives.
LEMMA ValueType ==
  ASSUME NEW s \in Seq(0..Other)
  PROVE  Value(s) \in (0..Group-1) \X (0..Group-1)
<1> DEFINE V == (0..Group-1) \X (0..Group-1)
           digit(i) == IF i + 1 \in 1..Len(s) THEN s[i+1] ELSE 0
           step == [i \in Nat |-> [v \in V |-> AddDigit(v, digit(i))]]
           Body(g) == [i \in 0..Len(s) |-> IF i = 0 THEN <<0, 0>> ELSE AddDigit(g[i-1], s[i])]
           g == CHOOSE h : h = Body(h)
<1>1. ASSUME NEW v \in V, NEW c \in 0..Other PROVE AddDigit(v, c) \in V
  <2>1. PICK a \in 0..Group-1, b \in 0..Group-1 : v = <<a, b>>
    OBVIOUS
  <2>2. QED
    BY <2>1, DigitAdded
<1>2. Len(s) \in Nat /\ \A i \in 1..Len(s) : s[i] \in 0..Other
  BY LenProperties, ElementOfSeq
<1>3. \A i \in Nat : digit(i) \in 0..Other
  BY <1>2 DEF Other
<1>4. step \in [Nat -> [V -> V]]
  <2> HIDE DEF V, digit
  <2>1. QED
    BY <1>1, <1>3
<1>5. << 0, 0 >> \in V
  BY GroupNat
<1>6. PICK f : Begins(f, Len(s), V, <<0, 0>>, step)
  <2> HIDE DEF V, step
  <2>1. QED
    BY <1>2, <1>4, <1>5, BeginningsExist
<1>7. /\ f \in [0..Len(s) -> V] /\ f[0] = <<0, 0>>
      /\ \A i \in 0..Len(s)-1 : f[i+1] = step[i][f[i]]
  <2> HIDE DEF V, step
  <2>1. QED
    BY <1>6 DEF Begins
<1>8. \A i \in 0..Len(s)-1 : f[i+1] = AddDigit(f[i], s[i+1])
  <2>1. SUFFICES ASSUME NEW i \in 0..Len(s)-1 PROVE f[i+1] = AddDigit(f[i], s[i+1])
    OBVIOUS
  <2>2. i \in Nat /\ i \in 0..Len(s) /\ i + 1 \in 1..Len(s)
    BY <1>2
  <2>3. digit(i) = s[i+1]
    BY <2>2
  <2>4. f[i] \in V
    <3> HIDE DEF V, step
    <3>1. QED
      BY <1>7, <2>2
  <2>5. step[i] = [v \in V |-> AddDigit(v, digit(i))]
    BY <2>2
  <2>6. f[i+1] = step[i][f[i]]
    BY <1>7
  <2> HIDE DEF V, step, digit
  <2>7. QED
    BY <2>3, <2>4, <2>5, <2>6, Zenon
<1>9. f = Body(f)
  <2>1. \A i \in 0..Len(s) : i # 0 => i - 1 \in 0..Len(s)-1 /\ (i - 1) + 1 = i
    BY <1>2
  <2>2. \A i \in 0..Len(s) : f[i] = (IF i = 0 THEN <<0, 0>> ELSE AddDigit(f[i-1], s[i]))
    <3>1. ASSUME NEW i \in 0..Len(s), i # 0 PROVE f[i] = AddDigit(f[i-1], s[i])
      <4>1. i - 1 \in 0..Len(s)-1 /\ (i - 1) + 1 = i
        BY <2>1, <3>1
      <4>2. f[(i-1)+1] = AddDigit(f[i-1], s[(i-1)+1])
        BY <1>8, <4>1
      <4>3. QED
        BY <4>1, <4>2
    <3>2. QED
      BY <1>7, <3>1, Zenon
  <2> HIDE DEF V, step
  <2>3. QED
    BY <1>7, <2>2
<1>10. g = Body(g)
  <2> HIDE DEF Body
  <2>1. QED
    BY <1>9
<1>11. Value(s) = g[Len(s)]
  BY DEF Value
<1> HIDE DEF g
<1>12. \A i \in 0..Len(s) : g[i] \in V
  <2> DEFINE S == {i \in 0..Len(s) : g[i] \in V}
  <2>1. 0 \in S
    BY <1>2, <1>5, <1>10
  <2>2. ASSUME NEW i \in 0..Len(s)-1, i \in S PROVE i + 1 \in S
    <3>1. i + 1 \in 0..Len(s) /\ i + 1 # 0 /\ (i + 1) - 1 = i /\ i + 1 \in 1..Len(s)
      BY <1>2
    <3>2. g[i+1] = AddDigit(g[i], s[i+1])
      BY <1>10, <3>1
    <3>3. g[i] \in V /\ s[i+1] \in 0..Other
      BY <1>2, <2>2, <3>1
    <3>4. AddDigit(g[i], s[i+1]) \in V
      <4> HIDE DEF V
      <4>1. QED
        BY <1>1, <3>3
    <3>5. QED
      BY <3>1, <3>2, <3>4
  <2>3. 0..Len(s) \subseteq S
    <3> HIDE DEF S
    <3>1. QED
      BY <1>2, <2>1, <2>2, BoundedInduction
  <2>4. QED
    BY <2>3
<1>13. QED
  <2> HIDE DEF V
  <2>1. Len(s) \in 0..Len(s)
    BY <1>2
  <2>2. Value(s) \in V
    BY <1>11, <1>12, <2>1
  <2>3. QED
    BY <2>2 DEF V

\* The inductive invariant for the types.
SendingOK == ~ended => sending \in Transmissions
TypeInv == TypeOK /\ HistoryInv /\ SendingOK

\* At most the whole ring is bad.
LEMMA BadTyped ==
  ASSUME NEW h \in [Ring -> BOOLEAN]
  PROVE  Cardinality({n \in Ring : h[n]}) \in 0..HistoryBits
<1>1. HistoryBits \in Nat \ {0} /\ Ring = 0..HistoryBits-1
  BY PrbsAssumption DEF Ring
<1>2. IsFiniteSet(Ring) /\ Cardinality(Ring) = HistoryBits
  <2>1. 0 \in Int /\ HistoryBits-1 \in Int /\ 0 <= HistoryBits - 1
    BY <1>1
  <2>2. Cardinality(0..HistoryBits-1) = HistoryBits - 1 - 0 + 1
    BY <1>1, <2>1, FS_Interval
  <2>3. QED
    BY <1>1, <2>2, RingFinite
<1>3. {n \in Ring : h[n]} \subseteq Ring
  OBVIOUS
<1>4. Cardinality({n \in Ring : h[n]}) <= Cardinality(Ring)
  BY <1>2, <1>3, FS_Subset
<1>5. Cardinality({n \in Ring : h[n]}) \in Nat
  BY <1>2, <1>3, FS_Subset, FS_CardinalityType
<1>6. QED
  BY <1>1, <1>2, <1>4, <1>5

LEMMA PlusTyped ==
  ASSUME NEW c \in 0..CountLimit-1, NEW n \in Nat
  PROVE  Plus(c, n) \in 0..CountLimit-1
BY PrbsAssumption DEF Plus

\* A reset, and a bit validated, leave the validator's variables of their types.
LEMMA ResetTyped ==
  ASSUME Reset
  PROVE  PrbsTypeOK' /\ HistoryInv'
<1>1. /\ LOCK_COUNT \in Nat \ {0} /\ CountLimit \in Nat \ {0} /\ HistoryBits \in Nat \ {0}
      /\ 0 \in Ring /\ One \in Registers /\ Clean \in [Ring -> BOOLEAN]
  BY PrbsAssumption, RingFinite, RegistersClosed, NoneBad
<1>2. HistoryInv'
  BY ResetCounts DEF Reset
<1>3. 0 \in 0..LOCK_COUNT-1 /\ 0 \in 0..CountLimit-1 /\ 0 \in 0..HistoryBits
  BY <1>1
<1>4. QED
  BY <1>1, <1>2, <1>3, Zenon DEF Reset, PrbsTypeOK

LEMMA ValidateTyped ==
  ASSUME PrbsTypeOK, HistoryInv, NEW bit \in Bit, Validate(bit)
  PROVE  PrbsTypeOK' /\ HistoryInv'
<1>1. HistoryInv'
  BY ValidateCounts
<1>2. /\ LOCK_COUNT \in Nat \ {0} /\ CountLimit \in Nat \ {0} /\ HistoryBits \in Nat \ {0}
      /\ state \in Registers /\ syncCount \in 0..LOCK_COUNT-1
      /\ bitCount \in 0..CountLimit-1 /\ errCount \in 0..CountLimit-1
  BY PrbsAssumption DEF PrbsTypeOK
<1>3. state' \in Registers
  BY <1>2, RegistersClosed DEF Validate, Synchronize, RunFree
<1>4. syncCount' \in 0..LOCK_COUNT-1
  BY <1>2 DEF Validate, Synchronize, RunFree, Mismatch, Match, Lock
<1>5. bitCount' \in 0..CountLimit-1 /\ errCount' \in 0..CountLimit-1
  <2>1. \/ bitCount' = bitCount /\ errCount' = errCount
        \/ bitCount' = Plus(bitCount, LOCK_COUNT) /\ errCount' = errCount
        \/ bitCount' = Plus(bitCount, 1) /\ errCount' \in {errCount, Plus(errCount, 1)}
    BY DEF Validate, Synchronize, RunFree, Mismatch, Match, Lock, CountErrors
  <2>2. /\ Plus(bitCount, LOCK_COUNT) \in 0..CountLimit-1
        /\ Plus(bitCount, 1) \in 0..CountLimit-1 /\ Plus(errCount, 1) \in 0..CountLimit-1
    BY <1>2, PlusTyped
  <2>3. QED
    BY <1>2, <2>1, <2>2
<1>6. histCount' \in 0..HistoryBits
  BY <1>1, BadTyped DEF HistoryInv, HistoryCounted, Ring
<1>7. QED
  BY <1>1, <1>3, <1>4, <1>5, <1>6 DEF PrbsTypeOK, HistoryInv, Ring, Registers, Bit

LEMMA PrbsUnchanged ==
  ASSUME PrbsTypeOK, HistoryInv, UNCHANGED prbsVars
  PROVE  PrbsTypeOK' /\ HistoryInv'
BY UnchangedCounts DEF PrbsTypeOK, prbsVars, Ring, Registers, Bit

LEMMA FunctionIsSeq ==
  ASSUME NEW S, NEW n \in Nat, NEW f \in [1..n -> S]
  PROVE  f \in Seq(S) /\ Len(f) = n
OBVIOUS

\* What is transmitted: a header of 24-bit groups, payloads of bits, with or without
\* some of them inverted, and the part of them that decode_bert looks at.
LEMMA HeaderTyped ==
  ASSUME NEW isLast \in BOOLEAN, sending \in Transmissions
  PROVE  Header(isLast) \in Seq(0..Group-1)
<1>1. /\ sending.bert \in BOOLEAN /\ sending.call \in [1..CallLength -> 0..Other]
      /\ sending.token \in 0..Group-1
  BY DemodAssumption
<1>2. sending.call \in Seq(0..Other)
  <2>1. CallLength \in Nat
    BY DEF CallLength
  <2>2. PICK call : call = sending.call
    OBVIOUS
  <2>3. call \in [1..CallLength -> 0..Other]
    BY <1>1, <2>2
  <2>4. call \in Seq(0..Other)
    BY <2>1, <2>3, FunctionIsSeq, Zenon
  <2>5. QED
    BY <2>2, <2>4
<1>3. Reverse(sending.call) \in Seq(0..Other)
  <2>1. PICK s \in Seq(0..Other) : s = sending.call
    BY <1>2
  <2>2. \A j \in 1..Len(s) : (Len(s) - j) + 1 \in 1..Len(s)
    OBVIOUS
  <2>3. Reverse(s) \in [1..Len(s) -> 0..Other]
    BY <2>2, ElementOfSeq DEF Reverse
  <2>4. PICK r : r = Reverse(s)
    OBVIOUS
  <2>5. r \in [1..Len(s) -> 0..Other] /\ Len(s) \in Nat
    BY <2>3, <2>4
  <2>6. r \in Seq(0..Other)
    BY <2>5, FunctionIsSeq, Zenon
  <2>7. QED
    BY <2>1, <2>4, <2>6
<1>4. Value(Reverse(sending.call)) \in (0..Group-1) \X (0..Group-1)
  BY <1>3, ValueType
<1>5. (IF sending.bert THEN BertMode ELSE 0) + (IF isLast THEN LastFrame ELSE 0) \in 0..Group-1
  <2>1. BertMode \in Nat /\ LastFrame \in Nat /\ BertMode + LastFrame < Group
    BY SMT DEF BertMode, LastFrame, Group
  <2>2. QED
    BY <2>1, GroupNat
<1> HIDE DEF Group
<1>6. QED
  BY <1>1, <1>4, <1>5 DEF Header, FillHeader, EncodeCallsign

LEMMA PayloadsTyped ==
  ASSUME generator \in Registers, sending \in Transmissions, NEW payload \in Payloads
  PROVE  payload \in [1..PayloadBits -> Bit]
<1>1. /\ PrimeBits \in Nat \ {0} /\ PayloadBits \in Nat /\ PayloadBits <= 2 * PrimeBits
      /\ Width \in Nat \ {0}
  BY DemodAssumption, PrbsAssumption
<1>2. CASE sending.bert
  <2> DEFINE bit == [i \in 1..PrimeBits |-> RegisterAfter(i)[0]]
  <2>1. \A i \in 1..PrimeBits : RegisterAfter(i)[0] \in Bit
    <3>1. SUFFICES ASSUME NEW i \in 1..PrimeBits PROVE RegisterAfter(i)[0] \in Bit
      OBVIOUS
    <3>2. i \in Nat /\ i \in 0..i
      BY <1>1
    <3>3. RegisterAfter(i) \in Registers
      BY <3>2, GenerationsIs DEF RegisterAfter, IsRun
    <3>4. 0 \in 0..Width-1
      BY <1>1
    <3>5. QED
      BY <3>3, <3>4 DEF Registers
  <2>2. \A i \in 1..PayloadBits : IF i <= PrimeBits THEN i \in 1..PrimeBits
                                                    ELSE i - PrimeBits \in 1..PrimeBits
    BY <1>1
  <2>3. BertPayload = [i \in 1..PayloadBits |-> IF i <= PrimeBits THEN bit[i]
                                                ELSE bit[i - PrimeBits]]
    BY DEF BertPayload
  <2>4. \A i \in 1..PrimeBits : bit[i] \in Bit
    BY <2>1
  <2> HIDE DEF bit
  <2>5. BertPayload \in [1..PayloadBits -> Bit]
    BY <2>2, <2>3, <2>4
  <2>6. QED
    BY <1>2, <2>5 DEF Payloads
<1>3. CASE ~sending.bert
  BY <1>3, DemodAssumption DEF Payloads
<1>4. QED
  BY <1>2, <1>3

LEMMA InvertedTyped ==
  ASSUME NEW payload \in [1..PayloadBits -> Bit], NEW places
  PROVE  Inverted(payload, places) \in [1..PayloadBits -> Bit]
<1>1. \A i \in 1..PayloadBits : payload[i] \in Bit /\ 1 - payload[i] \in Bit
  BY DEF Bit
<1>2. QED
  BY <1>1 DEF Inverted

LEMMA TestBitsAre ==
  ASSUME NEW payload \in [1..PayloadBits -> Bit]
  PROVE  /\ TestBits(payload) \in Seq(Bit) /\ Len(TestBits(payload)) = PrimeBits
         /\ \A i \in 1..PrimeBits : TestBits(payload)[i] = payload[i]
<1>1. PrimeBits \in Nat /\ PayloadBits \in Nat /\ PrimeBits <= PayloadBits
  BY DemodAssumption
<1>2. PICK s : s = payload
  OBVIOUS
<1>3. s \in Seq(Bit) /\ Len(s) = PayloadBits
  BY <1>1, <1>2
<1>4. SubSeq(s, 1, PrimeBits) \in Seq(Bit) /\ Len(SubSeq(s, 1, PrimeBits)) = PrimeBits
      /\ \A i \in 1..PrimeBits : SubSeq(s, 1, PrimeBits)[i] = s[i]
  BY <1>1, <1>3
<1>5. QED
  BY <1>2, <1>4 DEF TestBits

\* The invariant is kept by a frame received, a bit validated and a frame missed,
LEMMA ReceiveTyped ==
  ASSUME TypeInv, NEW isLast \in BOOLEAN, NEW ok \in BOOLEAN, NEW places,
         ReceiveFrame(isLast, ok, places)
  PROVE  TypeInv'
<1>1. /\ NextFrame(isLast) /\ DecodeFrame(ok, Header(isLast))
      /\ reference' = generator /\ carrier' = carrier /\ ~ended /\ ended' = isLast
      /\ sending' = sending /\ UNCHANGED prbsVars
  BY DEF ReceiveFrame, NextFrame
<1>2. /\ TypeOK /\ sending \in Transmissions /\ generator \in Registers /\ PrbsTypeOK
      /\ HistoryInv
  BY <1>1 DEF TypeInv, TypeOK, SendingOK
<1>3. PICK payload \in Payloads : HandleFrame(Inverted(payload, places))
  BY DEF ReceiveFrame
<1>4. Inverted(payload, places) \in [1..PayloadBits -> Bit]
  BY <1>2, PayloadsTyped, InvertedTyped
<1>5. pending' \in Seq(Bit) /\ Len(pending') <= PrimeBits
  <2>1. PrimeBits \in Nat
    BY DemodAssumption
  <2>2. <<>> \in Seq(Bit) /\ Len(<<>>) = 0
    OBVIOUS
  <2>3. PICK bits : bits = TestBits(Inverted(payload, places))
    OBVIOUS
  <2>4. bits \in Seq(Bit) /\ Len(bits) = PrimeBits
    BY <1>4, <2>3, TestBitsAre
  <2>5. pending' = bits \/ pending' = <<>>
    BY <1>3, <2>3 DEF HandleFrame
  <2>6. Len(bits) <= PrimeBits /\ Len(<<>>) <= PrimeBits
    BY <2>1, <2>2, <2>4
  <2>7. QED
    BY <2>2, <2>4, <2>5, <2>6, Zenon
<1>6. Header(isLast) \in Seq(0..Group-1)
  BY <1>2, HeaderTyped
<1>7. /\ rawHeader' \in Seq(0..Group-1) /\ outputType' \in {"OPV_COBS", "OPV_BERT"}
      /\ answer' \in {"OK", "EOS"}
  BY <1>1, <1>2, <1>6 DEF DecodeFrame, UpdateHeader, HeaderFails, DecodeStream, TypeOf, TypeOK
<1>8. generator' \in Registers
  <2>1. PrimeBits \in Nat
    BY DemodAssumption
  <2>2. RegisterAfter(PrimeBits) \in Registers
    <3>1. IsRun(Generations(generator, PrimeBits), generator, PrimeBits)
      BY <1>2, <2>1, GenerationsIs
    <3>2. PrimeBits \in 0..PrimeBits
      BY <2>1
    <3>3. QED
      BY <3>1, <3>2 DEF RegisterAfter, IsRun
  <2>3. QED
    BY <1>1, <1>2, <2>2 DEF NextFrame
<1>9. PrbsTypeOK' /\ HistoryInv'
  BY <1>1, <1>2, PrbsUnchanged
<1>10. Registers' = Registers /\ (0..Group-1)' = 0..Group-1 /\ Bit' = Bit
  OBVIOUS
<1>11. TypeOK'
  BY <1>1, <1>2, <1>5, <1>7, <1>8, <1>9, Zenon DEF TypeOK
<1>12. SendingOK'
  BY <1>1, <1>2 DEF SendingOK
<1>13. QED
  BY <1>9, <1>11, <1>12 DEF TypeInv

LEMMA BitTyped ==
  ASSUME TypeInv, ValidateBit
  PROVE  TypeInv'
<1>1. /\ pending # <<>> /\ Validate(Head(pending)) /\ pending' = Tail(pending)
      /\ reference' = IF genuine THEN Generated(reference) ELSE reference
      /\ UNCHANGED <<decoderVars, airVars, heard, arrived, genuine>>
  BY DEF ValidateBit
<1>2. TypeOK /\ PrbsTypeOK /\ HistoryInv
  BY DEF TypeInv, TypeOK
<1>3. PICK bits \in Seq(Bit) : bits = pending
  BY <1>2 DEF TypeOK
<1>4. Head(bits) \in Bit /\ Tail(bits) \in Seq(Bit) /\ Len(Tail(bits)) = Len(bits) - 1
      /\ Len(bits) \in Nat
  BY <1>1, <1>3
<1>5. PrbsTypeOK' /\ HistoryInv'
  BY <1>1, <1>2, <1>3, <1>4, ValidateTyped
<1>6. reference' \in Registers
  BY <1>1, <1>2, RegistersClosed DEF TypeOK
<1>7. pending' \in Seq(Bit) /\ Len(pending') <= PrimeBits
  <2>1. Len(bits) <= PrimeBits /\ PrimeBits \in Nat
    BY <1>2, <1>3, DemodAssumption DEF TypeOK
  <2>2. Len(Tail(bits)) <= PrimeBits
    BY <1>4, <2>1
  <2>3. QED
    BY <1>1, <1>3, <1>4, <2>2, Zenon
<1>8. TypeOK'
  BY <1>1, <1>2, <1>5, <1>6, <1>7, Zenon DEF TypeOK, decoderVars, airVars
<1>9. SendingOK'
  BY <1>1 DEF TypeInv, SendingOK, airVars
<1>10. QED
  BY <1>5, <1>8, <1>9 DEF TypeInv

LEMMA MissTyped ==
  ASSUME TypeInv, NEW isLast \in BOOLEAN, MissFrame(isLast)
  PROVE  TypeInv'
<1>1. /\ NextFrame(isLast) /\ UNCHANGED <<decoderVars, pending, reference>>
      /\ ~ended /\ sending' = sending /\ carrier' = carrier /\ UNCHANGED prbsVars
  BY DEF MissFrame, NextFrame
<1>2. TypeOK /\ PrbsTypeOK /\ HistoryInv /\ generator \in Registers /\ sending \in Transmissions
  BY <1>1 DEF TypeInv, TypeOK, SendingOK
<1>3. generator' \in Registers
  <2>1. PrimeBits \in Nat /\ PrimeBits \in 0..PrimeBits
    BY DemodAssumption
  <2>2. RegisterAfter(PrimeBits) \in Registers
    BY <1>2, <2>1, GenerationsIs DEF RegisterAfter, IsRun
  <2>3. QED
    BY <1>1, <1>2, <2>2 DEF NextFrame
<1>4. PrbsTypeOK' /\ HistoryInv'
  BY <1>1, <1>2, PrbsUnchanged
<1>5. TypeOK'
  BY <1>1, <1>2, <1>3, <1>4, Zenon DEF TypeOK, decoderVars
<1>6. SendingOK'
  BY <1>1, <1>2 DEF SendingOK
<1>7. QED
  BY <1>4, <1>5, <1>6 DEF TypeInv

\* holds initially, and is kept by every step.
LEMMA TypeInit == Init => TypeInv
<1> SUFFICES ASSUME Init PROVE TypeInv
  OBVIOUS
<1>1. /\ LOCK_COUNT \in Nat \ {0} /\ CountLimit \in Nat \ {0} /\ HistoryBits \in Nat \ {0}
      /\ 0 \in Ring /\ One \in Registers /\ Clean \in [Ring -> BOOLEAN]
  BY PrbsAssumption, RingFinite, RegistersClosed, NoneBad
<1>2. 0 \in 0..LOCK_COUNT-1 /\ 0 \in 0..CountLimit-1 /\ 0 \in 0..HistoryBits
  BY <1>1
<1>3. HistoryInv
  BY HistoryInit
<1>4. PrbsTypeOK
  BY <1>1, <1>2, Zenon DEF Init, PrbsInit, PrbsTypeOK
<1>5. rawHeader \in Seq(0..Group-1)
  <2>1. 0 \in 0..Group-1
    BY GroupNat
  <2>2. QED
    BY <2>1 DEF Init, DecoderInit
<1>6. pending \in Seq(Bit) /\ Len(pending) <= PrimeBits
  BY DemodAssumption DEF Init
<1>7. /\ outputType = "none" /\ answer = "none" /\ carrier = FALSE /\ generator = One
      /\ reference = One /\ ended = TRUE
  BY DEF Init, DecoderInit
<1>8. TypeOK
  BY <1>1, <1>4, <1>5, <1>6, <1>7 DEF TypeOK
<1>9. QED
  BY <1>3, <1>7, <1>8 DEF TypeInv, SendingOK

LEMMA TypeStep == TypeInv /\ [Next]_demodVars => TypeInv'
<1> SUFFICES ASSUME TypeInv, [Next]_demodVars PROVE TypeInv'
  OBVIOUS
<1>0. TypeOK /\ PrbsTypeOK /\ HistoryInv
  BY DEF TypeInv, TypeOK
<1>1. ASSUME NEW t \in Transmissions, StartTransmission(t) PROVE TypeInv'
  <2>1. /\ carrier' = TRUE /\ sending' = t /\ generator' = One
        /\ UNCHANGED <<prbsVars, decoderVars, pending, reference>>
    BY <1>1 DEF StartTransmission
  <2>2. PrbsTypeOK' /\ HistoryInv'
    BY <1>0, <2>1, PrbsUnchanged
  <2>3. One \in Registers
    BY RegistersClosed
  <2>4. TypeOK'
    BY <1>0, <2>1, <2>2, <2>3, Zenon DEF TypeOK, decoderVars
  <2>5. QED
    BY <1>1, <2>1, <2>2, <2>4 DEF TypeInv, SendingOK
<1>2. CASE LoseCarrier
  <2>1. /\ carrier' = FALSE /\ (Reset \/ UNCHANGED prbsVars)
        /\ UNCHANGED <<decoderVars, sending, generator, ended, pending, reference>>
    BY <1>2 DEF LoseCarrier
  <2>2. PrbsTypeOK' /\ HistoryInv'
    BY <1>0, <2>1, PrbsUnchanged, ResetTyped
  <2>3. TypeOK'
    BY <1>0, <2>1, <2>2, Zenon DEF TypeOK, decoderVars
  <2>4. QED
    BY <2>1, <2>2, <2>3 DEF TypeInv, SendingOK
<1>3. CASE RegainCarrier
  <2>1. /\ carrier' = TRUE
        /\ UNCHANGED <<prbsVars, decoderVars, sending, generator, ended, pending, reference>>
    BY <1>3 DEF RegainCarrier, ghostVars
  <2>2. PrbsTypeOK' /\ HistoryInv'
    BY <1>0, <2>1, PrbsUnchanged
  <2>3. TypeOK'
    BY <1>0, <2>1, <2>2, Zenon DEF TypeOK, decoderVars
  <2>4. QED
    BY <2>1, <2>2, <2>3 DEF TypeInv, SendingOK
<1>4. CASE UNCHANGED demodVars
  <2>1. UNCHANGED <<prbsVars, decoderVars, carrier, sending, generator, ended, pending, reference>>
    BY <1>4 DEF demodVars, airVars, ghostVars
  <2>2. PrbsTypeOK' /\ HistoryInv'
    BY <1>0, <2>1, PrbsUnchanged
  <2>3. TypeOK'
    BY <1>0, <2>1, <2>2, Zenon DEF TypeOK, decoderVars
  <2>4. QED
    BY <2>1, <2>2, <2>3 DEF TypeInv, SendingOK
<1>5. QED
  BY <1>1, <1>2, <1>3, <1>4, ReceiveTyped, MissTyped, BitTyped DEF Next

\* Every variable is always of its type: the register is one, the counters wrap below
\* their limits, no raw header group exceeds its 24 bits, and there are never more bits
\* pending than a test's frame has.
THEOREM TypeCorrect == Spec => []TypeOK
<1>1. TypeInv => TypeOK
  BY DEF TypeInv
<1>2. QED
  BY TypeInit, TypeStep, <1>1, PTL DEF Spec

(***************************************************************************)
(* Counting a test that is received from its start                         *)
(***************************************************************************)

\* A counter modulo its size goes on from where it is.
LEMMA RemainderIs ==
  ASSUME NEW c \in Nat \ {0}, NEW q \in Int, NEW r \in 0..c-1
  PROVE (c * q + r) % c = r
<1>1. PICK a \in Int : a = c * q + r
  OBVIOUS
<1>2. a % c = r
  BY <1>1
<1>3. QED
  BY <1>1, <1>2
LEMMA RemainderNext ==
  ASSUME NEW c \in Nat \ {0}, NEW t \in Nat
  PROVE  (t + 1) % c = ((t % c) + 1) % c
<1>1. PICK q \in Int, r \in 0..c-1 : t = c * q + r /\ r = t % c
  <2>1. t % c \in 0..c-1 /\ t \div c \in Int /\ t = c * (t \div c) + (t % c)
    OBVIOUS
  <2>2. QED
    BY <2>1
<1>2. CASE r + 1 = c
  <2>1. (t + 1) % c = 0
    <3>1. PICK p \in Int : p = q + 1
      OBVIOUS
    <3>2. c * p = c * q + c
      BY <3>1
    <3>3. PICK a \in Int, b \in Int : a = c * p /\ b = c * q
      OBVIOUS
    <3>4. t + 1 = c * p + 0
      BY <1>1, <1>2, <3>2, <3>3
    <3>5. 0 \in 0..c-1
      OBVIOUS
    <3>6. (c * p + 0) % c = 0
      BY <3>5, RemainderIs
    <3>7. QED
      BY <3>4, <3>6
  <2>2. c % c = 0
    OBVIOUS
  <2>3. QED
    BY <1>1, <1>2, <2>1, <2>2
<1>3. CASE r + 1 \in 0..c-1
  <2>1. (t + 1) % c = r + 1
    <3>1. PICK a \in Int : a = c * q
      OBVIOUS
    <3>2. t + 1 = c * q + (r + 1)
      BY <1>1, <3>1
    <3>3. (c * q + (r + 1)) % c = r + 1
      BY <1>3, RemainderIs
    <3>4. QED
      BY <3>2, <3>3
  <2>2. (r + 1) % c = r + 1
    BY <1>3
  <2>3. QED
    BY <1>1, <2>1, <2>2
<1>4. QED
  BY <1>1, <1>2, <1>3

\* The transmitter's register at the bit that comes next.
Caught == IF pending = <<>> THEN generator ELSE reference

\* While the bits of a test are pending, both registers come from the one its frame began
\* with.
FollowInv ==
  genuine /\ pending # <<>> =>
    \E g \in Registers :
      /\ generator = Generations(g, PrimeBits)[PrimeBits]
      /\ reference = Generations(g, PrimeBits)[PrimeBits - Len(pending)]

\* From one bit of a test to the next the receiver's reference is the transmitter's
\* register, and after the last bit of a frame it is the one the next frame begins with.
LEMMA BitFollows ==
  ASSUME TypeInv, FollowInv, ValidateBit, genuine
  PROVE  FollowInv' /\ Caught' = Generated(reference)
<1>1. /\ pending # <<>> /\ pending' = Tail(pending) /\ reference' = Generated(reference)
      /\ generator' = generator /\ genuine' = genuine
  BY DEF ValidateBit, airVars
<1>2. PrimeBits \in Nat /\ pending \in Seq(Bit) /\ Len(pending) <= PrimeBits
  BY DemodAssumption DEF TypeInv, TypeOK
<1>3. PICK bits \in Seq(Bit) : bits = pending
  BY <1>2
<1>4. PICK n \in Nat : n = Len(bits) /\ n \in 1..PrimeBits
  BY <1>1, <1>2, <1>3
<1>5. PICK g \in Registers : /\ generator = Generations(g, PrimeBits)[PrimeBits]
                             /\ reference = Generations(g, PrimeBits)[PrimeBits - n]
  BY <1>1, <1>3, <1>4 DEF FollowInv
<1>6. IsRun(Generations(g, PrimeBits), g, PrimeBits)
  BY <1>2, GenerationsIs
<1>7. PrimeBits - n \in 0..PrimeBits-1 /\ (PrimeBits - n) + 1 = PrimeBits - (n - 1)
  BY <1>2, <1>4
<1>8. Generated(reference) = Generations(g, PrimeBits)[PrimeBits - (n - 1)]
  BY <1>5, <1>6, <1>7, Zenon DEF IsRun
<1>9. Len(Tail(bits)) = n - 1 /\ (Tail(bits) = <<>> => n - 1 = 0)
  <2>1. bits # <<>>
    BY <1>1, <1>3
  <2>2. Len(Tail(bits)) = Len(bits) - 1
    BY <2>1
  <2>3. Len(<<>>) = 0
    OBVIOUS
  <2>4. QED
    BY <1>4, <2>2, <2>3
<1>10. FollowInv'
  <2>1. generator' = Generations(g, PrimeBits)[PrimeBits]
    BY <1>1, <1>5
  <2>2. Len(pending') = n - 1
    BY <1>1, <1>3, <1>9
  <2>3. reference' = Generations(g, PrimeBits)[PrimeBits - Len(pending')]
    BY <1>1, <1>8, <2>2
  <2>4. QED
    BY <2>1, <2>3 DEF FollowInv
<1>11. Caught' = Generated(reference)
  <2>1. CASE pending' # <<>>
    BY <1>1, <2>1 DEF Caught
  <2>2. CASE pending' = <<>>
    <3>1. n - 1 = 0 /\ PrimeBits - 0 = PrimeBits
      BY <1>1, <1>2, <1>3, <1>9, <2>2
    <3>2. generator = Generated(reference)
      BY <1>5, <1>8, <3>1
    <3>3. QED
      BY <1>1, <2>2, <3>2 DEF Caught
  <2>3. QED
    BY <2>1, <2>2
<1>12. QED
  BY <1>10, <1>11

LEMMA FrameFollows ==
  ASSUME TypeInv, NEW isLast \in BOOLEAN, NEW ok \in BOOLEAN, NEW places,
         ReceiveFrame(isLast, ok, places)
  PROVE  FollowInv'
<1>1. /\ NextFrame(isLast) /\ genuine' = sending.bert /\ reference' = generator /\ ~ended
  BY DEF ReceiveFrame, NextFrame
<1>2. generator \in Registers /\ sending \in Transmissions /\ PrimeBits \in Nat
  BY <1>1, DemodAssumption DEF TypeInv, TypeOK, SendingOK
<1>3. SUFFICES ASSUME genuine', pending' # <<>>
               PROVE  /\ generator' = Generations(generator, PrimeBits)[PrimeBits]
                      /\ reference' = Generations(generator, PrimeBits)[PrimeBits - Len(pending')]
  BY <1>2 DEF FollowInv
<1>4. PICK payload \in Payloads : HandleFrame(Inverted(payload, places))
  BY DEF ReceiveFrame
<1>5. Inverted(payload, places) \in [1..PayloadBits -> Bit]
  BY <1>2, PayloadsTyped, InvertedTyped
<1>6. Len(pending') = PrimeBits
  <2>1. pending' = TestBits(Inverted(payload, places))
    BY <1>3, <1>4 DEF HandleFrame
  <2>2. QED
    BY <1>5, <2>1, TestBitsAre
<1>7. generator' = RegisterAfter(PrimeBits)
  BY <1>1, <1>3 DEF NextFrame
<1>8. Generations(generator, PrimeBits)[0] = generator /\ PrimeBits - PrimeBits = 0
  BY <1>2, GenerationsIs DEF IsRun
<1>9. QED
  BY <1>1, <1>6, <1>7, <1>8 DEF RegisterAfter

LEMMA FollowStep == TypeInv /\ FollowInv /\ [Next]_demodVars => FollowInv'
<1> SUFFICES ASSUME TypeInv, FollowInv, [Next]_demodVars PROVE FollowInv'
  OBVIOUS
<1>1. ASSUME NEW t \in Transmissions, StartTransmission(t) PROVE FollowInv'
  BY <1>1 DEF StartTransmission, FollowInv
<1>2. ASSUME NEW isLast \in BOOLEAN, MissFrame(isLast) PROVE FollowInv'
  BY <1>2 DEF MissFrame, NextFrame, FollowInv
<1>3. CASE ValidateBit
  <2>1. CASE genuine
    BY <1>3, <2>1, BitFollows
  <2>2. CASE ~genuine
    BY <1>3, <2>2 DEF ValidateBit, FollowInv
  <2>3. QED
    BY <2>1, <2>2
<1>4. CASE LoseCarrier
  BY <1>4 DEF LoseCarrier, FollowInv
<1>5. CASE RegainCarrier
  BY <1>5 DEF RegainCarrier, ghostVars, FollowInv
<1>6. CASE UNCHANGED demodVars
  BY <1>6 DEF demodVars, airVars, ghostVars, FollowInv
<1>7. QED
  BY <1>1, <1>2, <1>3, <1>4, <1>5, <1>6, FrameFollows DEF Next

\* While a test is received from its start, it is in one of two phases: locking, when
\* every bit is right, and counting, for as long as few enough of them were inverted.
SteadyOK ==
  /\ sending.bert /\ (pending # <<>> => genuine)
  /\ tested \in Nat /\ wrong \in Nat
  /\ wrong < UNLOCK_COUNT => state = Caught

Locking ==
  tested < LOCK_COUNT =>
    /\ ~synced /\ syncCount = tested /\ bitCount = 0 /\ errCount = 0 /\ wrong = 0

Counting ==
  tested >= LOCK_COUNT /\ wrong < UNLOCK_COUNT =>
    /\ synced /\ histCount <= wrong
    /\ bitCount = tested % CountLimit /\ errCount = wrong % CountLimit

CountInv == steady => SteadyOK /\ Locking /\ Counting

\* A bit of a test received from its start: one of the right bits that lock, the one
\* that does, or one that is counted.
LEMMA SteadyBit ==
  ASSUME TypeInv, FollowInv, CountInv, ValidateBit
  PROVE  CountInv'
<1>1. SUFFICES ASSUME steady' PROVE (SteadyOK /\ Locking /\ Counting)'
  BY DEF CountInv
<1>2. /\ steady /\ genuine /\ (tested < LOCK_COUNT => Right)
      /\ pending # <<>> /\ Validate(Head(pending)) /\ tested' = tested + 1
      /\ wrong' = IF Right THEN wrong ELSE wrong + 1
      /\ sending' = sending /\ genuine' = genuine
  BY <1>1 DEF ValidateBit, airVars
<1>3. SteadyOK /\ Locking /\ Counting
  BY <1>2 DEF CountInv
<1>4. /\ LOCK_COUNT \in Nat \ {0} /\ UNLOCK_COUNT \in Nat \ {0} /\ CountLimit \in Nat \ {0}
      /\ tested \in Nat /\ wrong \in Nat /\ histCount \in Nat
      /\ histCount \in 0..HistoryBits /\ HistoryBits \in Nat
  BY <1>3, PrbsAssumption DEF SteadyOK, TypeInv, TypeOK, PrbsTypeOK
<1>5. Caught = reference /\ Caught' = Generated(reference)
  BY <1>2, BitFollows DEF Caught
<1>6. Right <=> Head(pending) = Feedback(reference)
  BY <1>2 DEF Right
<1>7. ASSUME wrong < UNLOCK_COUNT, ~(tested < LOCK_COUNT), synced
      PROVE  /\ state' = Caught' /\ histCount' <= wrong'
             /\ (wrong' < UNLOCK_COUNT => synced')
             /\ bitCount' = tested' % CountLimit /\ errCount' = wrong' % CountLimit
  <2>1. state = reference /\ histCount <= wrong
        /\ bitCount = tested % CountLimit /\ errCount = wrong % CountLimit
    BY <1>3, <1>4, <1>5, <1>7 DEF SteadyOK, Counting
  <2>2. state' = Generated(state) /\ CountErrors(~Right)
    BY <1>2, <1>6, <1>7, <2>1 DEF Validate, Synchronize, RunFree
  <2>3. histCount' <= histCount + (IF Right THEN 0 ELSE 1) /\ histCount' \in Int
    BY <1>4, <2>2 DEF CountErrors, HistCountAfter
  <2>4. wrong' = wrong + (IF Right THEN 0 ELSE 1)
    BY <1>2, <1>4
  <2>5. histCount' <= wrong'
    BY <1>4, <2>1, <2>3, <2>4
  <2>6. wrong' < UNLOCK_COUNT => synced'
    <3>1. histCount' = HistCountAfter(~Right) /\ synced' = ~Unlocks(~Right)
      BY <2>2 DEF CountErrors
    <3>2. wrong' < UNLOCK_COUNT => ~(histCount' >= UNLOCK_COUNT)
      BY <1>2, <1>4, <2>3, <2>5
    <3>3. QED
      BY <3>1, <3>2, Zenon DEF Unlocks
  <2>7. (tested + 1) % CountLimit = ((tested % CountLimit) + 1) % CountLimit
    BY <1>4, RemainderNext
  <2>8. (wrong + 1) % CountLimit = ((wrong % CountLimit) + 1) % CountLimit
    BY <1>4, RemainderNext
  <2>9. bitCount' = (bitCount + 1) % CountLimit
        /\ errCount' = IF Right THEN errCount ELSE (errCount + 1) % CountLimit
    BY <2>2 DEF CountErrors, Plus
  <2>10. bitCount' = tested' % CountLimit /\ errCount' = wrong' % CountLimit
    BY <1>2, <2>1, <2>7, <2>8, <2>9, Zenon
  <2>11. QED
    BY <1>5, <2>1, <2>2, <2>5, <2>6, <2>10
<1>8. ASSUME tested < LOCK_COUNT
      PROVE  /\ state' = Caught' /\ wrong' = 0 /\ errCount' = 0
             /\ \/ ~synced' /\ syncCount' = tested' /\ bitCount' = 0 /\ tested' < LOCK_COUNT
                \/ synced' /\ histCount' = 0 /\ bitCount' = Plus(0, LOCK_COUNT)
                   /\ tested' = LOCK_COUNT
  <2>1. /\ ~synced /\ syncCount = tested /\ bitCount = 0 /\ errCount = 0 /\ wrong = 0
        /\ state = reference /\ Right
    BY <1>2, <1>3, <1>4, <1>5, <1>8 DEF SteadyOK, Locking
  <2>2. Head(pending) = Feedback(state) /\ Synchronize(Head(pending))
    BY <1>2, <1>6, <2>1 DEF Validate, RunFree
  <2>3. state' = Generated(state)
    BY <2>2 DEF Synchronize, Generated
  <2>4. Match(Head(pending)) \/ Lock(Head(pending))
    BY <2>2 DEF Synchronize, Mismatch
  <2>5. CASE Match(Head(pending))
    <3>1. /\ tested + 1 # LOCK_COUNT /\ syncCount' = tested + 1
          /\ UNCHANGED <<synced, bitCount, errCount>>
      BY <2>1, <2>5 DEF Match
    <3>2. tested' < LOCK_COUNT
      BY <1>2, <1>4, <1>8, <3>1
    <3>3. QED
      BY <1>2, <1>5, <2>1, <2>3, <3>1, <3>2
  <2>6. CASE Lock(Head(pending))
    <3>1. /\ tested + 1 = LOCK_COUNT /\ synced' = TRUE /\ bitCount' = Plus(0, LOCK_COUNT)
          /\ histCount' = 0 /\ errCount' = errCount
      BY <2>1, <2>6 DEF Lock
    <3>2. QED
      BY <1>2, <1>5, <2>1, <2>3, <3>1
  <2>7. QED
    BY <2>4, <2>5, <2>6
<1>9. SteadyOK'
  <2>1. tested' \in Nat /\ wrong' \in Nat
    BY <1>2, <1>4
  <2>2. wrong' < UNLOCK_COUNT => wrong < UNLOCK_COUNT
    BY <1>2, <1>4
  <2>3. wrong' < UNLOCK_COUNT => state' = Caught'
    <3>1. CASE tested < LOCK_COUNT
      BY <1>8, <3>1
    <3>2. CASE ~(tested < LOCK_COUNT)
      BY <1>3, <1>4, <1>7, <2>2, <3>2 DEF Counting
    <3>3. QED
      BY <3>1, <3>2
  <2>4. QED
    BY <1>2, <1>3, <2>1, <2>3 DEF SteadyOK
<1>10. Locking' /\ Counting'
  <2>1. CASE tested < LOCK_COUNT
    <3>1. 0 % CountLimit = 0 /\ 0 + LOCK_COUNT = LOCK_COUNT
      BY <1>4
    <3>2. CASE ~synced' /\ syncCount' = tested' /\ bitCount' = 0 /\ tested' < LOCK_COUNT
      BY <1>2, <1>4, <1>8, <2>1, <3>2 DEF Locking, Counting
    <3>3. CASE synced' /\ histCount' = 0 /\ bitCount' = Plus(0, LOCK_COUNT)
               /\ tested' = LOCK_COUNT
      <4>1. Locking'
        BY <1>4, <3>3 DEF Locking
      <4>2. wrong' = 0 /\ errCount' = 0 /\ bitCount' = LOCK_COUNT % CountLimit
        BY <1>8, <2>1, <3>1, <3>3 DEF Plus
      <4>3. histCount' <= wrong'
        BY <3>3, <4>2
      <4>4. Counting'
        BY <3>1, <3>3, <4>2, <4>3 DEF Counting
      <4>5. QED
        BY <4>1, <4>4
    <3>4. QED
      BY <1>8, <2>1, <3>2, <3>3
  <2>2. CASE ~(tested < LOCK_COUNT)
    <3>1. Locking'
      <4>1. ~(tested' < LOCK_COUNT)
        BY <1>2, <1>4, <2>2
      <4>2. QED
        BY <4>1 DEF Locking
    <3>2. Counting'
      <4>1. wrong' < UNLOCK_COUNT => wrong < UNLOCK_COUNT
        BY <1>2, <1>4
      <4>2. wrong < UNLOCK_COUNT => synced
        BY <1>3, <1>4, <2>2 DEF Counting
      <4>3. QED
        BY <1>7, <2>2, <4>1, <4>2 DEF Counting
    <3>3. QED
      BY <3>1, <3>2
  <2>3. QED
    BY <2>1, <2>2
<1>11. QED
  BY <1>9, <1>10

LEMMA SteadyFrame ==
  ASSUME TypeInv, CountInv, NEW isLast \in BOOLEAN, NEW ok \in BOOLEAN, NEW places,
         ReceiveFrame(isLast, ok, places)
  PROVE  CountInv'
<1>1. SUFFICES ASSUME steady' PROVE (SteadyOK /\ Locking /\ Counting)'
  BY DEF CountInv
<1>2. /\ steady /\ pending = <<>> /\ pending' # <<>> /\ tested' = tested /\ wrong' = wrong
      /\ genuine' = sending.bert /\ reference' = generator /\ sending' = sending
      /\ UNCHANGED prbsVars
  BY <1>1 DEF ReceiveFrame, NextFrame, CountSteadily
<1>3. SteadyOK /\ Locking /\ Counting
  BY <1>2 DEF CountInv
<1>4. Caught' = Caught
  BY <1>2 DEF Caught
<1>5. SteadyOK'
  BY <1>2, <1>3, <1>4 DEF SteadyOK, prbsVars
<1>6. Locking' /\ Counting'
  BY <1>2, <1>3 DEF Locking, Counting, prbsVars
<1>7. QED
  BY <1>5, <1>6

LEMMA CountStep == TypeInv /\ FollowInv /\ CountInv /\ [Next]_demodVars => CountInv'
<1> SUFFICES ASSUME TypeInv, FollowInv, CountInv, [Next]_demodVars PROVE CountInv'
  OBVIOUS
<1>1. ASSUME NEW t \in Transmissions, StartTransmission(t) PROVE CountInv'
  <2>1. SUFFICES ASSUME steady' PROVE (SteadyOK /\ Locking /\ Counting)'
    BY DEF CountInv
  <2>2. /\ t.bert /\ state = One /\ ~synced /\ syncCount = 0 /\ bitCount = 0 /\ errCount = 0
        /\ sending' = t /\ generator' = One /\ tested' = 0 /\ wrong' = 0
        /\ pending = <<>> /\ pending' = pending /\ UNCHANGED prbsVars
    BY <1>1, <2>1 DEF StartTransmission
  <2>3. SteadyOK'
    BY <2>2 DEF SteadyOK, Caught, prbsVars
  <2>4. Locking'
    BY <2>2 DEF Locking, prbsVars
  <2>5. Counting'
    BY <2>2, PrbsAssumption DEF Counting
  <2>6. QED
    BY <2>3, <2>4, <2>5
<1>2. ASSUME NEW isLast \in BOOLEAN, MissFrame(isLast) PROVE CountInv'
  BY <1>2 DEF MissFrame, CountInv
<1>3. CASE LoseCarrier
  BY <1>3 DEF LoseCarrier, CountInv
<1>4. ASSUME UNCHANGED <<prbsVars, sending, generator, pending, ghostVars>> PROVE CountInv'
  BY <1>4 DEF ghostVars, prbsVars, CountInv, SteadyOK, Locking, Counting, Caught
<1>5. CASE RegainCarrier
  BY <1>4, <1>5 DEF RegainCarrier
<1>6. CASE UNCHANGED demodVars
  BY <1>4, <1>6 DEF demodVars, airVars
<1>7. QED
  BY <1>1, <1>2, <1>3, <1>5, <1>6, SteadyBit, SteadyFrame DEF Next

\* A test received from its start: until UNLOCK_COUNT of its bits have been inverted,
\* every one of them is counted once, and every inverted one as an error, modulo the
\* size of the counters.
THEOREM CountsAreExact == Spec => []CountsExact
<1>1. Init => FollowInv /\ CountInv
  BY DEF Init, FollowInv, CountInv
<1>2. CountInv => CountsExact
  BY DEF CountInv, Counting, CountsExact
<1>3. QED
  BY TypeInit, TypeStep, FollowStep, CountStep, <1>1, <1>2, PTL DEF Spec

(***************************************************************************)
(* Finding the transmitter's register again                                *)
(***************************************************************************)

\* In which bits two registers differ.
Diff(r, s) == [n \in 0..Width-1 |-> Xor(r[n], s[n])]

\* The ring's place of the bit so many bits back.
Place(pos, back) == IF back <= pos THEN pos - back ELSE pos - back + HistoryBits

\* After n right bits the registers differ in diff, having differed in e before the
\* first of them, and the validator ran freely: it has found the bits wrong in which the
\* sequence of the difference is one.
RanFreely(n, diff, hist, pos) ==
  /\ n < BitsToUnlock
  /\ \E e \in Registers \ {Zero} :
       /\ Generations(e, BitsToUnlock)[n] = diff
       /\ \A i \in 0..n-1 : Feedback(Generations(e, BitsToUnlock)[i]) = 1
                              => hist[Place(pos, n - i)] = TRUE

\* After n right bits in which the difference's sequence has been silent.
Silently(n, diff) ==
  \E e \in Registers :
    /\ diff # Zero => e # Zero
    /\ Generations(e, BitsToUnlock)[n] = diff
    /\ \A i \in 0..n-1 : Feedback(Generations(e, BitsToUnlock)[i]) = 0

\* After n right bits, of which the last u have been shifted into the register.
Filled(n, u, diff, count) ==
  /\ n - u <= BitsToUnlock
  /\ \A i \in 0..Width-1 : i < u => diff[i] = 0
  /\ u >= Width => count >= u - Width
  /\ count <= u \/ (u = n /\ (n < Width /\ count >= n => Silently(n, diff)))

Chase(n, lock, count, hist, pos, diff) ==
  \/ lock = TRUE /\ diff = Zero
  \/ lock = TRUE /\ diff # Zero /\ RanFreely(n, diff, hist, pos)
  \/ lock = FALSE /\ \E u \in 0..n : Filled(n, u, diff, count)

\* The inductive invariant for the recovery: where the validator is after a run of right
\* bits that began in any state.
ChaseInv ==
  /\ goodRun \in 0..Enough
  /\ synced => syncCount = 0
  /\ genuine /\ pending # <<>> => sending.bert
  /\ goodRun > 0 => genuine /\ sending.bert /\ (pending = <<>> => reference = generator)
  /\ Chase(goodRun, synced, syncCount, history, histPos, Diff(state, reference))

\* The difference of two registers that both shift a bit in, or both generate one,
\* behaves as a register itself: this is what makes the argument possible.
LEMMA XorIs ==
  /\ \A a, b \in Bit : Xor(a, b) \in Bit /\ (Xor(a, b) = 0 <=> a = b)
  /\ \A a, b, c, d \in Bit : Xor(Xor(a, b), Xor(c, d)) = Xor(Xor(a, c), Xor(b, d))
  BY DEF Xor, Bit

LEMMA DiffIs ==
  ASSUME NEW r \in Registers, NEW s \in Registers
  PROVE  /\ Diff(r, s) \in Registers
         /\ Diff(r, s) = Zero <=> r = s
         /\ Feedback(Diff(r, s)) = Xor(Feedback(r), Feedback(s))
<1>1. Width \in Nat \ {0} /\ Width-1 \in 0..Width-1 /\ Tap \in 0..Width-1
  BY PrbsAssumption
<1>2. \A n \in 0..Width-1 : r[n] \in Bit /\ s[n] \in Bit
  BY DEF Registers
<1>3. \A n \in 0..Width-1 : Diff(r, s)[n] = Xor(r[n], s[n])
  BY DEF Diff
<1>4. Diff(r, s) \in Registers
  BY <1>2, XorIs DEF Diff, Registers
<1>5. Diff(r, s) = Zero <=> r = s
  <2>1. Diff(r, s) = Zero <=> \A n \in 0..Width-1 : Xor(r[n], s[n]) = 0
    BY DEF Diff, Zero
  <2>2. r = s <=> \A n \in 0..Width-1 : r[n] = s[n]
    <3>1. r = [n \in 0..Width-1 |-> r[n]] /\ s = [n \in 0..Width-1 |-> s[n]]
      BY DEF Registers
    <3>2. (\A n \in 0..Width-1 : r[n] = s[n])
            => [n \in 0..Width-1 |-> r[n]] = [n \in 0..Width-1 |-> s[n]]
      OBVIOUS
    <3>3. QED
      BY <3>1, <3>2, Zenon
  <2>3. \A n \in 0..Width-1 : Xor(r[n], s[n]) = 0 <=> r[n] = s[n]
    BY <1>2, XorIs
  <2>4. QED
    BY <2>1, <2>2, <2>3, Zenon
<1>6. Feedback(Diff(r, s)) = Xor(Feedback(r), Feedback(s))
  <2>1. PICK a \in Bit, b \in Bit, c \in Bit, d \in Bit :
          a = r[Width-1] /\ b = s[Width-1] /\ c = r[Tap] /\ d = s[Tap]
    BY <1>1, <1>2
  <2>2. Diff(r, s)[Width-1] = Xor(a, b) /\ Diff(r, s)[Tap] = Xor(c, d)
    BY <1>1, <1>3, <2>1
  <2>3. Xor(Xor(a, b), Xor(c, d)) = Xor(Xor(a, c), Xor(b, d))
    BY XorIs
  <2>4. QED
    BY <2>1, <2>2, <2>3, Zenon DEF Feedback
<1>7. QED
  BY <1>4, <1>5, <1>6

LEMMA DiffShifts ==
  ASSUME NEW r \in Registers, NEW s \in Registers, NEW a \in Bit, NEW b \in Bit
  PROVE  Diff(Shifted(r, a), Shifted(s, b)) = Shifted(Diff(r, s), Xor(a, b))
<1>1. \A n \in 0..Width-1 : n # 0 => n - 1 \in 0..Width-1
  BY PrbsAssumption
<1>2. \A n \in 0..Width-1 :
        Xor(IF n = 0 THEN a ELSE r[n-1], IF n = 0 THEN b ELSE s[n-1])
          = IF n = 0 THEN Xor(a, b) ELSE Diff(r, s)[n-1]
  BY <1>1 DEF Diff
<1>3. Shifted(r, a) = [n \in 0..Width-1 |-> IF n = 0 THEN a ELSE r[n-1]]
      /\ Shifted(s, b) = [n \in 0..Width-1 |-> IF n = 0 THEN b ELSE s[n-1]]
  BY DEF Shifted
<1>4. \A n \in 0..Width-1 : Xor(Shifted(r, a)[n], Shifted(s, b)[n])
                              = IF n = 0 THEN Xor(a, b) ELSE Diff(r, s)[n-1]
  BY <1>2, <1>3
<1>5. Diff(Shifted(r, a), Shifted(s, b))
        = [n \in 0..Width-1 |-> IF n = 0 THEN Xor(a, b) ELSE Diff(r, s)[n-1]]
  <2>1. Diff(Shifted(r, a), Shifted(s, b))
          = [n \in 0..Width-1 |-> Xor(Shifted(r, a)[n], Shifted(s, b)[n])]
    BY DEF Diff
  <2>2. QED
    BY <1>4, <2>1
<1>6. QED
  BY <1>5 DEF Shifted

LEMMA DiffGenerates ==
  ASSUME NEW r \in Registers, NEW s \in Registers
  PROVE  /\ Diff(Generated(r), Generated(s)) = Generated(Diff(r, s))
         /\ Diff(Shifted(r, Feedback(s)), Generated(s)) = Shifted(Diff(r, s), 0)
<1>1. Feedback(r) \in Bit /\ Feedback(s) \in Bit
  BY RegistersClosed
<1>2. Diff(Generated(r), Generated(s)) = Shifted(Diff(r, s), Xor(Feedback(r), Feedback(s)))
  BY <1>1, DiffShifts DEF Generated
<1>3. Diff(Shifted(r, Feedback(s)), Generated(s)) = Shifted(Diff(r, s), Xor(Feedback(s), Feedback(s)))
  BY <1>1, DiffShifts DEF Generated
<1>4. Xor(Feedback(s), Feedback(s)) = 0
  BY DEF Xor
<1>5. QED
  BY <1>2, <1>3, <1>4, DiffIs DEF Generated

LEMMA ZeroStays == Generated(Zero) = Zero
<1>1. Width-1 \in 0..Width-1 /\ Tap \in 0..Width-1
      /\ \A n \in 0..Width-1 : n # 0 => n - 1 \in 0..Width-1
  BY PrbsAssumption
<1>2. Feedback(Zero) = 0
  BY <1>1 DEF Feedback, Zero, Xor
<1>3. QED
  BY <1>1, <1>2 DEF Generated, Shifted, Zero

\* Places of the ring, counted back from where the next bit goes.
LEMMA PlaceIs ==
  ASSUME NEW pos \in Ring
  PROVE  /\ \A back \in 1..HistoryBits : Place(pos, back) \in Ring
         /\ \A a, b \in 1..HistoryBits : Place(pos, a) = Place(pos, b) => a = b
         /\ \A back \in 1..HistoryBits-1 :
              /\ Place(pos, back) # pos
              /\ Place((pos + 1) % HistoryBits, back + 1) = Place(pos, back)
         /\ Place((pos + 1) % HistoryBits, 1) = pos
         /\ (pos + 1) % HistoryBits \in Ring
<1>1. HistoryBits \in Nat \ {0} /\ Ring = 0..HistoryBits-1
  BY PrbsAssumption DEF Ring
<1>2. PICK h \in Nat \ {0} : h = HistoryBits
  BY <1>1
<1>3. pos \in 0..h-1
  BY <1>1, <1>2
<1>4. (pos + 1) % h = IF pos + 1 = h THEN 0 ELSE pos + 1
  <2>1. CASE pos + 1 = h
    BY <2>1
  <2>2. CASE pos + 1 # h
    BY <1>3, <2>2
  <2>3. QED
    BY <2>1, <2>2
<1>5. \A back \in 1..h : (IF back <= pos THEN pos - back ELSE pos - back + h) \in 0..h-1
  BY <1>3
<1>6. \A a, b \in 1..h : (IF a <= pos THEN pos - a ELSE pos - a + h)
                           = (IF b <= pos THEN pos - b ELSE pos - b + h) => a = b
  BY <1>3
<1>7. \A back \in 1..h-1 : (IF back <= pos THEN pos - back ELSE pos - back + h) # pos
  BY <1>3
<1>8. PICK next \in 0..h-1 : next = (pos + 1) % h
  BY <1>3, <1>4
<1>9. \A back \in 0..h-1 : (IF back + 1 <= next THEN next - (back + 1) ELSE next - (back + 1) + h)
                             = (IF back = 0 THEN pos
                                ELSE IF back <= pos THEN pos - back ELSE pos - back + h)
  BY <1>3, <1>4, <1>8
<1>10. \A back \in 0..h-1 : Place(next, back + 1) = IF back = 0 THEN pos ELSE Place(pos, back)
  BY <1>2, <1>9 DEF Place
<1>11. Place(next, 1) = pos
  <2>1. 0 \in 0..h-1 /\ 0 + 1 = 1
    OBVIOUS
  <2>2. QED
    BY <1>10, <2>1
<1>12. \A back \in 1..h-1 : Place(next, back + 1) = Place(pos, back)
  BY <1>10
<1>13. QED
  BY <1>1, <1>2, <1>5, <1>6, <1>7, <1>8, <1>11, <1>12 DEF Place

\* The bad bits of a history.
BadsOf(h) == {m \in Ring : h[m]}

\* A register that is not the transmitter's cannot have run freely for BitsToUnlock right
\* bits: each one in its difference's sequence is a bad bit at a place of its own.
LEMMA Noticed ==
  ASSUME NEW h \in [Ring -> BOOLEAN], NEW pos \in Ring, NEW e \in Registers \ {Zero},
         \A i \in 0..BitsToUnlock-1 : Feedback(Generations(e, BitsToUnlock)[i]) = 1
                                        => h[Place(pos, BitsToUnlock - i)] = TRUE
  PROVE  Cardinality(BadsOf(h)) >= UNLOCK_COUNT
<1> DEFINE Ones == {i \in 0..BitsToUnlock-1 : Feedback(Generations(e, BitsToUnlock)[i]) = 1}
           Bads == BadsOf(h)
           f == [i \in Ones |-> Place(pos, BitsToUnlock - i)]
<1>1. /\ BitsToUnlock \in Nat /\ BitsToUnlock <= HistoryBits /\ HistoryBits \in Nat
      /\ UNLOCK_COUNT \in Nat
  BY UnlockAssumption, PrbsAssumption
<1>2. Cardinality(Ones) >= UNLOCK_COUNT
  BY UnlockAssumption
<1>3. \A i \in Ones : BitsToUnlock - i \in 1..HistoryBits
  BY <1>1
<1>4. f \in [Ones -> Bads]
  <2>1. \A i \in Ones : Place(pos, BitsToUnlock - i) \in Ring
    BY <1>3, PlaceIs
  <2>2. \A i \in Ones : Place(pos, BitsToUnlock - i) \in Bads
    BY <2>1 DEF BadsOf
  <2>3. QED
    BY <2>2
<1>5. \A a, b \in Ones : f[a] = f[b] => a = b
  <2>1. SUFFICES ASSUME NEW a \in Ones, NEW b \in Ones, f[a] = f[b] PROVE a = b
    OBVIOUS
  <2>2. Place(pos, BitsToUnlock - a) = Place(pos, BitsToUnlock - b)
    BY <2>1
  <2>3. BitsToUnlock - a = BitsToUnlock - b
    <3>1. PICK x \in 1..HistoryBits, y \in 1..HistoryBits :
            x = BitsToUnlock - a /\ y = BitsToUnlock - b
      BY <1>3, <2>1
    <3>2. Place(pos, x) = Place(pos, y)
      BY <2>2, <3>1
    <3>3. x = y
      BY <3>2, PlaceIs
    <3>4. QED
      BY <3>1, <3>3
  <2>4. a \in Nat /\ b \in Nat
    OBVIOUS
  <2>5. QED
    BY <1>1, <2>3, <2>4
<1>6. IsFiniteSet(Bads)
  BY RingFinite, FS_Subset DEF BadsOf
<1> HIDE DEF Ones, Bads, f
<1>7. f \in Injection(Ones, Bads)
  BY <1>4, <1>5 DEF Injection, IsInjective
<1>8. IsFiniteSet(Ones) /\ Cardinality(Ones) <= Cardinality(Bads)
  BY <1>6, <1>7, FS_Injection
<1>9. Cardinality(Ones) \in Nat /\ Cardinality(Bads) \in Nat
  BY <1>6, <1>8, FS_CardinalityType
<1>10. Cardinality(Bads) >= UNLOCK_COUNT
  BY <1>1, <1>2, <1>8, <1>9
<1>11. QED
  BY <1>10 DEF Bads

\* Before the first right bit anything may be the case.
LEMMA ChaseStarts ==
  ASSUME NEW lock \in BOOLEAN, NEW count \in Nat, NEW hist, NEW pos, NEW diff \in Registers
  PROVE  Chase(0, lock, count, hist, pos, diff)
<1>1. BitsToUnlock \in Nat \ {0} /\ Width \in Nat \ {0}
  BY UnlockAssumption, PrbsAssumption
<1>2. Generations(diff, BitsToUnlock)[0] = diff
  BY <1>1, GenerationsIs DEF IsRun
<1>3. diff # Zero => RanFreely(0, diff, hist, pos)
  BY <1>1, <1>2 DEF RanFreely
<1>4. Silently(0, diff)
  BY <1>2 DEF Silently
<1>5. Filled(0, 0, diff, count)
  <2>1. 0 - 0 <= BitsToUnlock /\ ~(0 >= Width) /\ \A i \in 0..Width-1 : ~(i < 0)
    BY <1>1
  <2>2. QED
    BY <1>4, <2>1, Zenon DEF Filled
<1>6. 0 \in 0..0
  OBVIOUS
<1>7. QED
  BY <1>3, <1>5, <1>6, Zenon DEF Chase

\* A right bit while the validator runs freely, on another register.
LEMMA FreeBit ==
  ASSUME NEW n \in Nat, NEW diff \in Registers, NEW hist \in [Ring -> BOOLEAN],
         NEW pos \in Ring, RanFreely(n, diff, hist, pos),
         NEW hist2 \in [Ring -> BOOLEAN],
         \A m \in Ring : m # pos => hist2[m] = hist[m],
         Feedback(diff) = 1 => hist2[pos] = TRUE,
         NEW next, next = Generated(diff), NEW pos2, pos2 = (pos + 1) % HistoryBits
  PROVE  \/ RanFreely(n + 1, next, hist2, pos2)
         \/ Cardinality(BadsOf(hist2)) >= UNLOCK_COUNT
<1>1. /\ BitsToUnlock \in Nat /\ BitsToUnlock <= HistoryBits /\ HistoryBits \in Nat
      /\ n < BitsToUnlock
  BY UnlockAssumption, PrbsAssumption DEF RanFreely
<1>2. PICK e \in Registers \ {Zero} :
        /\ Generations(e, BitsToUnlock)[n] = diff
        /\ \A i \in 0..n-1 : Feedback(Generations(e, BitsToUnlock)[i]) = 1
                               => hist[Place(pos, n - i)] = TRUE
  BY DEF RanFreely
<1>3. PICK G : G = Generations(e, BitsToUnlock)
  OBVIOUS
<1>4. IsRun(G, e, BitsToUnlock)
  BY <1>1, <1>2, <1>3, GenerationsIs
<1>5. G[n+1] = Generated(diff)
  BY <1>1, <1>2, <1>3, <1>4 DEF IsRun
<1>6. pos2 \in Ring /\ Place(pos2, 1) = pos
  BY PlaceIs
<1>7. \A i \in 0..n : Feedback(G[i]) = 1 => hist2[Place(pos2, (n + 1) - i)] = TRUE
  <2>1. SUFFICES ASSUME NEW i \in 0..n, Feedback(G[i]) = 1
                 PROVE  hist2[Place(pos2, (n + 1) - i)] = TRUE
    OBVIOUS
  <2>2. CASE i = n
    <3>1. hist2[pos] = TRUE
      BY <1>2, <1>3, <2>1, <2>2
    <3>2. (n + 1) - i = 1
      BY <2>2
    <3>3. QED
      BY <1>6, <3>1, <3>2
  <2>3. CASE i # n
    <3>1. PICK back \in 1..HistoryBits-1 : back = n - i
      BY <1>1, <2>3
    <3>2. (n + 1) - i = back + 1 /\ i \in 0..n-1
      BY <2>3, <3>1
    <3>3. Place(pos2, back + 1) = Place(pos, back) /\ Place(pos, back) # pos
      BY PlaceIs
    <3>4. Place(pos, back) \in Ring
      BY <1>1, PlaceIs
    <3>5. hist[Place(pos, back)] = TRUE
      BY <1>2, <1>3, <2>1, <3>1, <3>2
    <3>6. hist2[Place(pos, back)] = TRUE
      BY <3>3, <3>4, <3>5
    <3>7. QED
      BY <3>2, <3>3, <3>6
  <2>4. QED
    BY <2>2, <2>3
<1>8. CASE n + 1 < BitsToUnlock
  <2>1. (n + 1) - 1 = n
    OBVIOUS
  <2>2. \A i \in 0..(n+1)-1 : Feedback(G[i]) = 1 => hist2[Place(pos2, (n + 1) - i)] = TRUE
    BY <1>7, <2>1
  <2>3. RanFreely(n + 1, next, hist2, pos2)
    BY <1>3, <1>5, <1>8, <2>2, Zenon DEF RanFreely
  <2>4. QED
    BY <2>3
<1>9. CASE n + 1 = BitsToUnlock
  <2>1. BitsToUnlock - 1 = n
    BY <1>9
  <2>2. \A i \in 0..BitsToUnlock-1 : Feedback(Generations(e, BitsToUnlock)[i]) = 1
                                       => hist2[Place(pos2, BitsToUnlock - i)] = TRUE
    BY <1>3, <1>7, <1>9, <2>1
  <2>3. QED
    BY <1>6, <2>2, Noticed
<1>10. QED
  BY <1>1, <1>8, <1>9

\* A right bit shifted into the register.
LEMMA FilledBit ==
  ASSUME NEW n \in Nat, NEW u \in 0..n, NEW diff \in Registers, NEW count \in Nat,
         Filled(n, u, diff, count),
         NEW count2 \in Nat,
         IF Feedback(diff) = 0 THEN count2 = count + 1 ELSE count2 = 0
  PROVE  Filled(n + 1, u + 1, Shifted(diff, 0), count2)
<1>1. BitsToUnlock \in Nat /\ Width \in Nat \ {0} /\ Width <= BitsToUnlock
      /\ Width-1 \in 0..Width-1 /\ Tap \in 0..Width-1
  BY UnlockAssumption, PrbsAssumption
<1>2. /\ n - u <= BitsToUnlock
      /\ \A i \in 0..Width-1 : i < u => diff[i] = 0
      /\ u >= Width => count >= u - Width
      /\ count <= u \/ (u = n /\ (n < Width /\ count >= n => Silently(n, diff)))
  BY DEF Filled
<1>3. (n + 1) - (u + 1) <= BitsToUnlock
  BY <1>2
<1>4. \A i \in 0..Width-1 : i < u + 1 => Shifted(diff, 0)[i] = 0
  <2>1. SUFFICES ASSUME NEW i \in 0..Width-1, i < u + 1 PROVE Shifted(diff, 0)[i] = 0
    OBVIOUS
  <2>2. i # 0 => i - 1 \in 0..Width-1 /\ i - 1 < u
    BY <1>1, <2>1
  <2>3. QED
    BY <1>2, <2>2 DEF Shifted
<1>5. Feedback(diff) # 0 => u < Width
  <2>1. SUFFICES ASSUME u >= Width PROVE Feedback(diff) = 0
    BY <1>1
  <2>2. diff[Width-1] = 0 /\ diff[Tap] = 0
    BY <1>1, <1>2, <2>1
  <2>3. QED
    BY <2>2 DEF Feedback, Xor
<1>6. u + 1 >= Width => count2 >= (u + 1) - Width
  BY <1>1, <1>2, <1>5
<1>7. count2 <= u + 1 \/ (u + 1 = n + 1 /\ (n + 1 < Width /\ count2 >= n + 1
                                              => Silently(n + 1, Shifted(diff, 0))))
  <2>1. CASE Feedback(diff) # 0
    BY <2>1
  <2>2. CASE Feedback(diff) = 0 /\ count <= u
    BY <2>2
  <2>3. CASE Feedback(diff) = 0 /\ u = n /\ (n < Width /\ count >= n => Silently(n, diff))
    <3>1. SUFFICES ASSUME n + 1 < Width, count2 >= n + 1
                   PROVE  Silently(n + 1, Shifted(diff, 0))
      BY <2>3
    <3>2. n < Width /\ count >= n /\ n < BitsToUnlock
      BY <1>1, <2>3, <3>1
    <3>3. PICK e \in Registers :
            /\ diff # Zero => e # Zero
            /\ Generations(e, BitsToUnlock)[n] = diff
            /\ \A i \in 0..n-1 : Feedback(Generations(e, BitsToUnlock)[i]) = 0
      BY <2>3, <3>2 DEF Silently
    <3>4. Generations(e, BitsToUnlock)[n+1] = Generated(diff)
      <4>1. IsRun(Generations(e, BitsToUnlock), e, BitsToUnlock)
        BY <1>1, GenerationsIs
      <4>2. n \in 0..BitsToUnlock-1
        BY <1>1, <3>2
      <4>3. QED
        BY <3>3, <4>1, <4>2, Zenon DEF IsRun
    <3>5. Generated(diff) = Shifted(diff, 0)
      BY <2>3 DEF Generated
    <3>6. Shifted(diff, 0) # Zero => e # Zero
      BY <3>3, <3>5, ZeroStays
    <3>7. \A i \in 0..(n+1)-1 : Feedback(Generations(e, BitsToUnlock)[i]) = 0
      <4>1. \A i \in 0..(n+1)-1 : i = n \/ i \in 0..n-1
        OBVIOUS
      <4>2. QED
        BY <2>3, <3>3, <4>1
    <3>8. QED
      BY <3>4, <3>5, <3>6, <3>7, Zenon DEF Silently
  <2>4. QED
    BY <1>2, <2>1, <2>2, <2>3
<1>8. QED
  BY <1>3, <1>4, <1>6, <1>7, Zenon DEF Filled

\* A right bit that locks: either the register has been filled with right bits, or the
\* count of matches began before them and the difference has been silent ever since.
LEMMA LockingBit ==
  ASSUME NEW n \in Nat, NEW u \in 0..n, NEW diff \in Registers, NEW count \in Nat,
         Filled(n, u, diff, count), Feedback(diff) = 0, count + 1 = LOCK_COUNT,
         NEW hist, NEW pos
  PROVE  Shifted(diff, 0) = Zero \/ RanFreely(n + 1, Shifted(diff, 0), hist, pos)
<1>1. BitsToUnlock \in Nat /\ Width \in Nat \ {0} /\ Width <= BitsToUnlock
      /\ LOCK_COUNT \in Nat /\ Width <= LOCK_COUNT
  BY UnlockAssumption, PrbsAssumption
<1>2. count + 1 \in Nat
  OBVIOUS
<1>3. PICK next : next = Shifted(diff, 0)
  OBVIOUS
<1>4. next \in Registers
  BY <1>3, RegistersClosed DEF Bit
<1>5. Filled(n + 1, u + 1, next, count + 1)
  BY <1>2, <1>3, FilledBit
<1>6. CASE u + 1 >= Width
  <2>1. \A i \in 0..Width-1 : i < u + 1
    BY <1>1, <1>6
  <2>2. \A i \in 0..Width-1 : next[i] = 0
    BY <1>5, <2>1 DEF Filled
  <2>3. next = [i \in 0..Width-1 |-> next[i]]
    BY <1>4 DEF Registers
  <2>4. next = Zero
    BY <2>2, <2>3 DEF Zero
  <2>5. QED
    BY <1>3, <2>4
<1>7. CASE u + 1 < Width
  <2>1. ~(count + 1 <= u + 1)
    BY <1>1, <1>7
  <2>2. u + 1 = n + 1 /\ (n + 1 < Width /\ count + 1 >= n + 1 => Silently(n + 1, next))
    BY <1>5, <2>1, Zenon DEF Filled
  <2>3. n + 1 < Width /\ count + 1 >= n + 1 /\ n + 1 < BitsToUnlock
    BY <1>1, <1>7, <2>1, <2>2
  <2>4. PICK e \in Registers :
          /\ next # Zero => e # Zero
          /\ Generations(e, BitsToUnlock)[n+1] = next
          /\ \A i \in 0..(n+1)-1 : Feedback(Generations(e, BitsToUnlock)[i]) = 0
    BY <2>2, <2>3, Zenon DEF Silently
  <2>5. \A i \in 0..(n+1)-1 : Feedback(Generations(e, BitsToUnlock)[i]) # 1
    BY <2>4
  <2>6. next # Zero => RanFreely(n + 1, next, hist, pos)
    BY <2>3, <2>4, <2>5, Zenon DEF RanFreely
  <2>7. QED
    BY <1>3, <2>6
<1>8. QED
  BY <1>1, <1>6, <1>7

\* A right bit, whatever the validator does with it.
LEMMA RightBit ==
  ASSUME TypeInv, synced => syncCount = 0, NEW n \in Nat,
         Chase(n, synced, syncCount, history, histPos, Diff(state, reference)),
         Validate(Feedback(reference))
  PROVE  /\ synced' => syncCount' = 0
         /\ Chase(n + 1, synced', syncCount', history', histPos',
                  Diff(state', Generated(reference)))
         /\ state = reference /\ synced => synced' /\ state' = Generated(reference)
<1>1. /\ state \in Registers /\ reference \in Registers /\ synced \in BOOLEAN
      /\ syncCount \in Nat /\ history \in [Ring -> BOOLEAN] /\ histPos \in Ring
      /\ HistoryInv /\ PrbsTypeOK
  BY PrbsAssumption DEF TypeInv, TypeOK, PrbsTypeOK
<1>2. Feedback(reference) \in Bit /\ Feedback(state) \in Bit
  BY <1>1, RegistersClosed
<1>3. PrbsTypeOK' /\ HistoryInv'
  BY <1>1, <1>2, ValidateTyped
<1>4. PICK diff \in Registers : diff = Diff(state, reference)
  BY <1>1, DiffIs
<1>5. /\ diff = Zero <=> state = reference
      /\ Feedback(diff) = 0 <=> Feedback(state) = Feedback(reference)
      /\ Feedback(diff) \in Bit
      /\ Diff(Generated(state), Generated(reference)) = Generated(diff)
      /\ Diff(Shifted(state, Feedback(reference)), Generated(reference)) = Shifted(diff, 0)
  <2>1. diff = Zero <=> state = reference
    BY <1>1, <1>4, DiffIs
  <2>2. Feedback(diff) = Xor(Feedback(state), Feedback(reference))
    BY <1>1, <1>4, DiffIs
  <2>3. Feedback(diff) = 0 <=> Feedback(state) = Feedback(reference)
    <3>1. PICK a \in Bit, b \in Bit : a = Feedback(state) /\ b = Feedback(reference)
      BY <1>2
    <3>2. Xor(a, b) = 0 <=> a = b
      BY XorIs
    <3>3. QED
      BY <2>2, <3>1, <3>2, Zenon
  <2>4. Feedback(diff) \in Bit
    BY RegistersClosed
  <2>5. /\ Diff(Generated(state), Generated(reference)) = Generated(diff)
        /\ Diff(Shifted(state, Feedback(reference)), Generated(reference)) = Shifted(diff, 0)
    BY <1>1, <1>4, DiffGenerates
  <2>6. QED
    BY <2>1, <2>3, <2>4, <2>5, Zenon
<1>6. \/ synced = TRUE /\ diff = Zero
      \/ synced = TRUE /\ diff # Zero /\ RanFreely(n, diff, history, histPos)
      \/ synced = FALSE /\ \E u \in 0..n : Filled(n, u, diff, syncCount)
  BY <1>4 DEF Chase
<1>7. ASSUME synced = TRUE
      PROVE  /\ state' = Generated(state) /\ CountErrors(Feedback(reference) # Feedback(state))
             /\ syncCount' = 0 /\ Diff(state', Generated(reference)) = Generated(diff)
  BY <1>5, <1>7 DEF Validate, Synchronize, RunFree
<1>8. CASE synced = TRUE /\ diff = Zero
  <2>1. Feedback(reference) = Feedback(state) /\ state = reference
    BY <1>5, <1>8
  <2>2. synced' = TRUE
    BY <1>7, <1>8, <2>1 DEF CountErrors, Unlocks
  <2>3. Diff(state', Generated(reference)) = Zero
    BY <1>7, <1>8, ZeroStays
  <2>4. QED
    BY <1>7, <1>8, <2>1, <2>2, <2>3 DEF Chase
<1>9. CASE synced = TRUE /\ diff # Zero /\ RanFreely(n, diff, history, histPos)
  <2>1. PICK bad \in BOOLEAN : bad = (Feedback(reference) # Feedback(state))
    OBVIOUS
  <2>2. Feedback(diff) = 1 => bad = TRUE
    <3>1. Feedback(diff) = 0 \/ Feedback(diff) = 1
      BY <1>5 DEF Bit
    <3>2. Feedback(diff) # 0 => bad = TRUE
      BY <1>5, <2>1, Zenon
    <3>3. 0 # 1
      OBVIOUS
    <3>4. QED
      BY <3>1, <3>2, <3>3, Zenon
  <2>3. /\ history' = [history EXCEPT ![histPos] = bad]
        /\ histPos' = (histPos + 1) % HistoryBits /\ syncCount' = 0
    BY <1>7, <1>9, <2>1 DEF CountErrors
  <2>4. \/ RanFreely(n + 1, Generated(diff), history', histPos')
        \/ Cardinality(BadsOf(history')) >= UNLOCK_COUNT
    <3>1. PICK h0 \in [Ring -> BOOLEAN], p0 \in Ring : h0 = history /\ p0 = histPos
      BY <1>1
    <3>2. PICK p, next, h : p = histPos' /\ next = Generated(diff) /\ h = history'
      OBVIOUS
    <3>3. RanFreely(n, diff, h0, p0)
      BY <1>9, <3>1
    <3>4. h = [h0 EXCEPT ![p0] = bad] /\ p = (p0 + 1) % HistoryBits
      BY <2>3, <3>1, <3>2
    <3>5. h \in [Ring -> BOOLEAN] /\ (\A m \in Ring : m # p0 => h[m] = h0[m])
          /\ (Feedback(diff) = 1 => h[p0] = TRUE)
      BY <2>2, <3>4
    <3>6. \/ RanFreely(n + 1, next, h, p)
          \/ Cardinality(BadsOf(h)) >= UNLOCK_COUNT
      BY <3>2, <3>3, <3>4, <3>5, FreeBit
    <3>7. QED
      BY <3>1, <3>2, <3>6, Zenon
  <2>5. synced' = TRUE \/ synced' = FALSE
    BY <1>3 DEF PrbsTypeOK
  <2>6. CASE synced' = TRUE
    <3>1. ~(Cardinality(BadsOf(history')) >= UNLOCK_COUNT)
      <4>1. histCount' = Cardinality(BadsOf(history')) /\ histCount' < UNLOCK_COUNT
        BY <1>3, <2>6 DEF HistoryInv, HistoryCounted, BadsOf
      <4>2. UNLOCK_COUNT \in Nat /\ histCount' \in Nat
        BY <1>3, PrbsAssumption DEF PrbsTypeOK
      <4>3. QED
        BY <4>1, <4>2
    <3>2. RanFreely(n + 1, Generated(diff), history', histPos')
      BY <2>4, <3>1
    <3>3. QED
      BY <1>5, <1>7, <1>9, <2>3, <2>6, <3>2, Zenon DEF Chase
  <2>7. CASE synced' = FALSE
    <3>1. BitsToUnlock \in Nat /\ n < BitsToUnlock /\ Width \in Nat \ {0}
      BY <1>9, UnlockAssumption, PrbsAssumption DEF RanFreely
    <3>2. /\ (n + 1) - 0 <= BitsToUnlock /\ \A i \in 0..Width-1 : ~(i < 0)
          /\ ~(0 >= Width) /\ 0 <= 0 /\ 0 \in 0..(n+1)
      BY <3>1
    <3>3. Filled(n + 1, 0, Generated(diff), 0)
      BY <3>2, Zenon DEF Filled
    <3>4. \E u \in 0..(n+1) : Filled(n + 1, u, Generated(diff), 0)
      BY <3>2, <3>3, Zenon
    <3>5. Chase(n + 1, FALSE, 0, history', histPos', Generated(diff))
      BY <3>4, Zenon DEF Chase
    <3>6. QED
      BY <1>5, <1>7, <1>9, <2>3, <2>7, <3>5, Zenon
  <2>8. QED
    BY <2>5, <2>6, <2>7
<1>10. ASSUME synced = FALSE, NEW u \in 0..n, Filled(n, u, diff, syncCount)
       PROVE  /\ synced' => syncCount' = 0
              /\ Chase(n + 1, synced', syncCount', history', histPos',
                       Diff(state', Generated(reference)))
  <2>1. /\ state' = Shifted(state, Feedback(reference))
        /\ \/ Mismatch(Feedback(reference)) \/ Match(Feedback(reference))
           \/ Lock(Feedback(reference))
    BY <1>10 DEF Validate, Synchronize, RunFree
  <2>2. Diff(state', Generated(reference)) = Shifted(diff, 0)
    BY <1>5, <2>1
  <2>3. u + 1 \in 0..(n+1)
    OBVIOUS
  <2>4. ASSUME synced' = FALSE, syncCount' \in Nat,
               IF Feedback(diff) = 0 THEN syncCount' = syncCount + 1 ELSE syncCount' = 0
        PROVE  Chase(n + 1, synced', syncCount', history', histPos', Shifted(diff, 0))
    <3>1. Filled(n + 1, u + 1, Shifted(diff, 0), syncCount')
      BY <1>1, <1>10, <2>4, FilledBit
    <3>2. QED
      BY <2>3, <2>4, <3>1, Zenon DEF Chase
  <2>5. CASE Mismatch(Feedback(reference))
    <3>1. Feedback(diff) # 0 /\ syncCount' = 0 /\ synced' = FALSE
      BY <1>5, <1>10, <2>5 DEF Mismatch
    <3>2. QED
      BY <2>2, <2>4, <3>1
  <2>6. CASE Match(Feedback(reference))
    <3>1. Feedback(diff) = 0 /\ syncCount' = syncCount + 1 /\ synced' = FALSE
      BY <1>5, <1>10, <2>6 DEF Match
    <3>2. syncCount' \in Nat
      BY <1>1, <3>1
    <3>3. QED
      BY <2>2, <2>4, <3>1, <3>2
  <2>7. CASE Lock(Feedback(reference))
    <3>1. /\ Feedback(diff) = 0 /\ syncCount + 1 = LOCK_COUNT /\ syncCount' = 0
          /\ synced' = TRUE
      BY <1>5, <2>7 DEF Lock
    <3>2. Shifted(diff, 0) = Zero \/ RanFreely(n + 1, Shifted(diff, 0), history', histPos')
      BY <1>1, <1>10, <3>1, LockingBit
    <3>3. QED
      BY <2>2, <3>1, <3>2, Zenon DEF Chase
  <2>8. QED
    BY <2>1, <2>5, <2>6, <2>7
<1>11. CASE synced = FALSE /\ \E u \in 0..n : Filled(n, u, diff, syncCount)
  <2>1. ~(state = reference /\ synced)
    BY <1>11
  <2>2. PICK u \in 0..n : Filled(n, u, diff, syncCount)
    BY <1>11
  <2>3. QED
    BY <1>10, <1>11, <2>1, <2>2
<1>12. QED
  BY <1>6, <1>8, <1>9, <1>11

\* After enough right bits the validator can neither run freely nor be unlocked.
LEMMA ChaseEnds ==
  ASSUME TypeInv, ChaseInv, goodRun = Enough
  PROVE  synced /\ state = reference
<1>1. /\ Enough \in Nat /\ BitsToUnlock \in Nat /\ Width \in Nat \ {0} /\ LOCK_COUNT \in Nat \ {0}
      /\ Enough = BitsToUnlock + Width + LOCK_COUNT
  BY UnlockAssumption, PrbsAssumption DEF Enough
<1>2. /\ state \in Registers /\ reference \in Registers /\ syncCount \in 0..LOCK_COUNT-1
  BY DEF TypeInv, TypeOK, PrbsTypeOK
<1>3. PICK diff : diff = Diff(state, reference)
  OBVIOUS
<1>4. \/ synced = TRUE /\ diff = Zero
      \/ synced = TRUE /\ RanFreely(Enough, diff, history, histPos)
      \/ \E u \in 0..Enough : Filled(Enough, u, diff, syncCount)
  BY <1>3 DEF ChaseInv, Chase
<1>5. ~RanFreely(Enough, diff, history, histPos)
  BY <1>1 DEF RanFreely
<1>6. ASSUME NEW u \in 0..Enough, Filled(Enough, u, diff, syncCount) PROVE FALSE
  <2>1. Enough - u <= BitsToUnlock /\ (u >= Width => syncCount >= u - Width)
    BY <1>6 DEF Filled
  <2>2. u >= Width + LOCK_COUNT
    BY <1>1, <2>1
  <2>3. QED
    BY <1>1, <1>2, <2>1, <2>2
<1>7. QED
  BY <1>2, <1>3, <1>4, <1>5, <1>6, DiffIs

\* A bit, right or not; and every step.
LEMMA ChaseRuns ==
  ASSUME TypeInv, FollowInv, ChaseInv, ValidateBit
  PROVE  ChaseInv'
<1>1. /\ pending # <<>> /\ Validate(Head(pending)) /\ pending' = Tail(pending)
      /\ genuine' = genuine /\ sending' = sending /\ generator' = generator
      /\ goodRun' = IF ~Right THEN 0 ELSE IF goodRun < Enough THEN goodRun + 1 ELSE goodRun
  BY DEF ValidateBit, airVars
<1>2. TypeInv'
  BY BitTyped
<1>3. /\ Enough \in Nat /\ BitsToUnlock \in Nat /\ Width \in Nat \ {0} /\ LOCK_COUNT \in Nat \ {0}
      /\ Enough = BitsToUnlock + Width + LOCK_COUNT
  BY UnlockAssumption, PrbsAssumption DEF Enough
<1>4. goodRun \in 0..Enough /\ (synced => syncCount = 0)
  BY DEF ChaseInv
<1>5. synced' \in BOOLEAN /\ syncCount' \in Nat /\ Diff(state', reference') \in Registers
  BY <1>2, DiffIs, PrbsAssumption DEF TypeInv, TypeOK, PrbsTypeOK
<1>6. synced' => syncCount' = 0
  BY <1>1, <1>4 DEF Validate, Synchronize, RunFree, Mismatch, Match, Lock
<1>7. genuine' /\ pending' # <<>> => sending'.bert
  BY <1>1 DEF ChaseInv
<1>8. CASE ~Right
  <2>1. goodRun' = 0 /\ 0 \in 0..Enough /\ ~(0 > 0)
    BY <1>1, <1>3, <1>8
  <2>2. Chase(goodRun', synced', syncCount', history', histPos', Diff(state', reference'))
    BY <1>5, <2>1, ChaseStarts
  <2>3. QED
    BY <1>6, <1>7, <2>1, <2>2 DEF ChaseInv
<1>9. CASE Right
  <2>1. genuine /\ Head(pending) = Feedback(reference) /\ sending.bert
        /\ Validate(Feedback(reference)) /\ reference' = Generated(reference)
    BY <1>1, <1>9 DEF Right, ChaseInv, ValidateBit
  <2>2. PICK n \in 0..Enough : n = goodRun
    BY <1>4
  <2>3. Chase(n, synced, syncCount, history, histPos, Diff(state, reference)) /\ n \in Nat
    BY <2>2 DEF ChaseInv
  <2>4. /\ Chase(n + 1, synced', syncCount', history', histPos', Diff(state', reference'))
        /\ state = reference /\ synced => synced' /\ state' = reference'
    <3>1. /\ Chase(n + 1, synced', syncCount', history', histPos',
                  Diff(state', Generated(reference)))
          /\ state = reference /\ synced => synced' /\ state' = Generated(reference)
      BY <1>4, <2>1, <2>3, RightBit
    <3>2. QED
      BY <2>1, <3>1
  <2>5. goodRun' > 0 => genuine' /\ sending'.bert /\ (pending' = <<>> => reference' = generator')
    <3>1. Caught' = Generated(reference)
      BY <2>1, BitFollows
    <3>2. pending' = <<>> => reference' = generator'
      BY <2>1, <3>1 DEF Caught
    <3>3. QED
      BY <1>1, <2>1, <3>2
  <2>6. CASE n < Enough
    <3>1. goodRun' = n + 1 /\ n + 1 \in 0..Enough
      BY <1>1, <1>3, <1>9, <2>2, <2>6
    <3>2. QED
      BY <1>6, <1>7, <2>4, <2>5, <3>1 DEF ChaseInv
  <2>7. CASE n = Enough
    <3>1. goodRun' = goodRun /\ goodRun' \in 0..Enough
      BY <1>1, <1>3, <1>4, <1>9, <2>2, <2>7
    <3>2. synced /\ state = reference
      BY <2>2, <2>7, ChaseEnds
    <3>3. synced' = TRUE /\ state' = reference'
      BY <1>5, <2>4, <3>2
    <3>4. Diff(state', reference') = Zero
      BY <1>2, <3>3, DiffIs DEF TypeInv, TypeOK, PrbsTypeOK
    <3>5. Chase(goodRun', synced', syncCount', history', histPos', Diff(state', reference'))
      BY <3>3, <3>4, Zenon DEF Chase
    <3>6. QED
      BY <1>6, <1>7, <2>5, <3>1, <3>5 DEF ChaseInv
  <2>8. QED
    BY <1>3, <2>6, <2>7
<1>10. QED
  BY <1>8, <1>9

LEMMA ChaseStep == TypeInv /\ FollowInv /\ ChaseInv /\ [Next]_demodVars => ChaseInv'
<1> SUFFICES ASSUME TypeInv, FollowInv, ChaseInv, [Next]_demodVars PROVE ChaseInv'
  OBVIOUS
<1>1. TypeInv' /\ Enough \in Nat
  BY TypeStep, UnlockAssumption, PrbsAssumption DEF Enough
<1>2. ASSUME goodRun' = 0, synced' => syncCount' = 0,
             genuine' /\ pending' # <<>> => sending'.bert
      PROVE  ChaseInv'
  <2>1. synced' \in BOOLEAN /\ syncCount' \in Nat /\ Diff(state', reference') \in Registers
    BY <1>1, DiffIs, PrbsAssumption DEF TypeInv, TypeOK, PrbsTypeOK
  <2>2. Chase(goodRun', synced', syncCount', history', histPos', Diff(state', reference'))
    BY <1>2, <2>1, ChaseStarts
  <2>3. goodRun' \in 0..Enough /\ ~(goodRun' > 0)
    BY <1>1, <1>2
  <2>4. QED
    BY <1>2, <2>2, <2>3 DEF ChaseInv
<1>3. (synced => syncCount = 0) /\ (genuine /\ pending # <<>> => sending.bert)
  BY DEF ChaseInv
<1>4. ASSUME NEW t \in Transmissions, StartTransmission(t) PROVE ChaseInv'
  BY <1>2, <1>3, <1>4 DEF StartTransmission, prbsVars
<1>5. ASSUME NEW isLast \in BOOLEAN, NEW ok \in BOOLEAN, NEW places,
             ReceiveFrame(isLast, ok, places)
      PROVE  ChaseInv'
  <2>1. /\ goodRun' = (IF pending' = <<>> THEN 0 ELSE goodRun) /\ genuine' = sending.bert
        /\ reference' = generator /\ sending' = sending /\ pending = <<>> /\ UNCHANGED prbsVars
    BY <1>5 DEF ReceiveFrame, NextFrame
  <2>2. CASE goodRun' = 0
    BY <1>2, <1>3, <2>1, <2>2 DEF prbsVars
  <2>3. CASE goodRun' # 0
    <3>1. goodRun' = goodRun /\ goodRun \in 0..Enough /\ goodRun > 0 /\ pending' # <<>>
      BY <1>1, <2>1, <2>3 DEF ChaseInv
    <3>2. reference' = reference /\ sending.bert
      BY <2>1, <3>1 DEF ChaseInv
    <3>3. Chase(goodRun', synced', syncCount', history', histPos', Diff(state', reference'))
      BY <2>1, <3>1, <3>2 DEF ChaseInv, prbsVars
    <3>4. QED
      BY <1>3, <2>1, <3>1, <3>2, <3>3 DEF ChaseInv, prbsVars
  <2>4. QED
    BY <2>2, <2>3
<1>6. ASSUME NEW isLast \in BOOLEAN, MissFrame(isLast) PROVE ChaseInv'
  BY <1>2, <1>3, <1>6 DEF MissFrame, NextFrame, prbsVars
<1>7. CASE LoseCarrier
  <2>1. synced' => syncCount' = 0
    BY <1>3, <1>7 DEF LoseCarrier, Reset, prbsVars
  <2>2. QED
    BY <1>2, <1>3, <1>7, <2>1 DEF LoseCarrier
<1>8. ASSUME UNCHANGED <<prbsVars, sending, generator, pending, ghostVars>> PROVE ChaseInv'
  BY <1>8 DEF ghostVars, prbsVars, ChaseInv
<1>9. CASE RegainCarrier
  BY <1>8, <1>9 DEF RegainCarrier
<1>10. CASE UNCHANGED demodVars
  BY <1>8, <1>10 DEF demodVars, airVars
<1>11. QED
  BY <1>4, <1>5, <1>6, <1>7, <1>9, <1>10, ChaseRuns DEF Next

\* After Enough right bits of one test in a row, the validator is locked to the
\* transmitter's register, in whatever state they found it.
THEOREM RecoversAlways == Spec => []Recovers
<1>1. Init => FollowInv
  BY DEF Init, FollowInv
<1>2. Init => ChaseInv
  <2>1. SUFFICES ASSUME Init PROVE ChaseInv
    OBVIOUS
  <2>2. synced \in BOOLEAN
    BY <2>1, TypeInit DEF TypeInv, TypeOK, PrbsTypeOK
  <2>3. goodRun = 0 /\ syncCount = 0 /\ ~genuine /\ state = One /\ reference = One
    BY <2>1 DEF Init, PrbsInit
  <2>4. Diff(state, reference) \in Registers
    BY <2>3, DiffIs, RegistersClosed
  <2>5. Chase(goodRun, synced, syncCount, history, histPos, Diff(state, reference))
    BY <2>2, <2>3, <2>4, ChaseStarts
  <2>6. goodRun \in 0..Enough /\ ~(goodRun > 0)
    BY <2>3, UnlockAssumption, PrbsAssumption DEF Enough
  <2>7. QED
    BY <2>3, <2>5, <2>6 DEF ChaseInv
<1>3. TypeInv /\ ChaseInv => Recovers
  <2>1. SUFFICES ASSUME TypeInv, ChaseInv, goodRun >= Enough PROVE synced /\ state = reference
    BY DEF Recovers
  <2>2. goodRun = Enough
    BY <2>1, UnlockAssumption, PrbsAssumption DEF ChaseInv, Enough
  <2>3. QED
    BY <2>1, <2>2, ChaseEnds
<1>4. QED
  BY TypeInit, TypeStep, FollowStep, ChaseStep, <1>1, <1>2, <1>3, PTL DEF Spec
=============================================================================
