------------------------------ MODULE CobsProofs ------------------------------
(***************************************************************************)
(* Theorems about CobsDecoder, CobsReceiver and CobsLink.  For every MTU,   *)
(* every least length and every byte range: the decoder's types and bounds, *)
(* and that it implements CobsStream.  For packets and frames of any length *)
(* and for every largest code: an intact frame's packet is delivered        *)
(* unchanged and once, if the decoder started afresh or the frame before    *)
(* was intact too; and cobs_encode keeps its promises.  The parts are what  *)
(* Promise says of a string of whole blocks, the invariant of the encoder's *)
(* loop, and the invariant of the link.                                     *)
(***************************************************************************)
EXTENDS CobsReceiver, CobsLink, DataInduction

\* The inductive invariant: the decoder's types and what each state says of its
\* counters.  Neither the bound on the buffer nor the meaning of a zero byte is
\* inductive without the latter.
IInv == TypeOK /\ StateCoherent /\ NoBufferOverrun

\* Growing the packet by what one byte of the stream can add keeps the invariant,
\* provided the state that is asked for matches the block count that goes with it.
LEMMA GrowKeepsIInv ==
  ASSUME IInv,
         NEW st \in {"RESET", "CHUNK", "CASE255"},
         NEW rem \in 0..MaxCode-1,
         NEW pkt \in Seq(Bytes),
         st = "CASE255" => rem > 0,
         st = "RESET" => rem = 0,
         st = "CHUNK" /\ rem = 0 => pkt # <<>>,
         Len(pkt) <= MTU + 3,
         state' = Limit(st, pkt), remaining' = rem, packet' = pkt, out' = NoPacket
  PROVE  IInv'
<1>1. CASE Len(pkt) > MTU + 1
  <2>1. state' = "PACKET_TOO_LONG" /\ remaining' = rem /\ packet' = pkt /\ out' = <<>>
    BY <1>1 DEF Limit, NoPacket
  <2>2. QED
    BY <1>1, <2>1, DecoderAssumption DEF IInv, TypeOK, StateCoherent, NoBufferOverrun, States
<1>2. CASE ~(Len(pkt) > MTU + 1)
  <2>1. state' = st /\ remaining' = rem /\ packet' = pkt /\ out' = <<>>
    BY <1>2 DEF Limit, NoPacket
  <2>2. QED
    BY <1>2, <2>1, DecoderAssumption DEF IInv, TypeOK, StateCoherent, NoBufferOverrun, States
<1>3. QED BY <1>1, <1>2

\* "Nothing submitted" is a sequence of bytes too.
LEMMA NoPacketType == NoPacket \in Seq(Bytes)
BY DEF NoPacket

\* What reset() leaves satisfies the invariant.
LEMMA ResetKeepsIInv ==
  ASSUME ResetDecoder, out' \in Seq(Bytes)
  PROVE  IInv'
BY DecoderAssumption DEF ResetDecoder, IInv, TypeOK, StateCoherent, NoBufferOverrun, States

\* What is submitted for a packet is a sequence of bytes.
LEMMA SubmittedType ==
  ASSUME NEW pkt \in Seq(Bytes), pkt # <<>>
  PROVE  Submitted(Trimmed(pkt)) \in Seq(Bytes)
<1>1. Len(pkt) \in Nat /\ Len(pkt) > 0
  OBVIOUS
<1>2. Trimmed(pkt) \in Seq(Bytes)
  BY <1>1 DEF Trimmed
<1>3. QED BY <1>2 DEF Submitted, NoPacket

\* A data byte, with the zero its block may imply, keeps the invariant.
LEMMA DataByteKeepsIInv ==
  ASSUME IInv, NEW byte \in Bytes, DataByte(byte)
  PROVE  IInv'
<1> USE DecoderAssumption
<1> DEFINE grown == Append(packet, byte)
<1>1. /\ packet \in Seq(Bytes)
      /\ Len(packet) <= MTU + 1
  BY DEF IInv, TypeOK, StateCoherent, DataByte
<1>2. grown \in Seq(Bytes) /\ Len(grown) = Len(packet) + 1
  BY <1>1
<1>3. state \in {"CHUNK", "CASE255"} /\ remaining > 0 /\ remaining \in 0..MaxCode-1
  BY DEF IInv, TypeOK, StateCoherent, States, DataByte
<1>4. CASE remaining = 1
  <2> DEFINE ended == grown \o ImpliedZero(state)
  <2>1. 0 \in Bytes
    BY DEF Bytes
  <2>2. /\ ImpliedZero(state) \in Seq(Bytes)
        /\ Len(ImpliedZero(state)) = 0 \/ Len(ImpliedZero(state)) = 1
    BY <2>1 DEF ImpliedZero
  <2>3. ended \in Seq(Bytes) /\ Len(ended) = Len(grown) + Len(ImpliedZero(state))
    BY <1>2, <2>2
  <2> HIDE DEF grown, ended
  <2>4. Len(packet) \in Nat /\ MTU \in Nat
    BY <1>1
  <2>5. Len(ended) <= MTU + 3 /\ Len(ended) > 0
    <3>1. CASE Len(ImpliedZero(state)) = 0
      BY <3>1, <1>1, <1>2, <2>3, <2>4
    <3>2. CASE Len(ImpliedZero(state)) = 1
      BY <3>2, <1>1, <1>2, <2>3, <2>4
    <3>3. QED BY <3>1, <3>2, <2>2
  <2>6. ended # <<>>
    BY <2>3, <2>5
  <2>7. Grow("CHUNK", 0, ended)
    BY <1>4 DEF DataByte, grown, ended
  <2>8. 0 \in 0..MaxCode-1
    OBVIOUS
  <2>9. QED
    BY <2>3, <2>5, <2>6, <2>7, <2>8, GrowKeepsIInv DEF Grow
<1>5. CASE remaining # 1
  <2>1. Grow(state, remaining - 1, grown)
    BY <1>5 DEF DataByte
  <2>2. remaining - 1 \in 0..MaxCode-1 /\ remaining - 1 > 0
    BY <1>3, <1>5
  <2>3. Len(grown) <= MTU + 3
    BY <1>1, <1>2
  <2> HIDE DEF grown
  <2>4. QED
    BY <1>2, <1>3, <2>1, <2>2, <2>3, GrowKeepsIInv DEF Grow
<1>6. QED BY <1>4, <1>5

\* A code byte keeps the invariant.
LEMMA CodeByteKeepsIInv ==
  ASSUME IInv, NEW byte \in Bytes, LongCode(byte) \/ ShortCode(byte)
  PROVE  IInv'
<1> USE DecoderAssumption
<1>1. /\ packet \in Seq(Bytes)
      /\ 0 \in Bytes
      /\ Len(packet) <= MTU + 1
  BY DEF IInv, TypeOK, StateCoherent, Bytes, LongCode, ShortCode
<1>2. CASE LongCode(byte)
  <2>1. Grow("CASE255", MaxCode - 1, packet)
    BY <1>2 DEF LongCode
  <2>2. Len(packet) <= MTU + 3
    BY <1>1
  <2>3. QED
    BY <1>1, <2>1, <2>2, GrowKeepsIInv DEF Grow
<1>3. CASE ShortCode(byte) /\ byte = 1
  <2> DEFINE grown == Append(packet, 0)
  <2>1. Grow("RESET", 0, grown)
    BY <1>3 DEF ShortCode
  <2>2. grown \in Seq(Bytes) /\ Len(grown) <= MTU + 3 /\ 0 \in 0..MaxCode-1
    BY <1>1
  <2> HIDE DEF grown
  <2>3. QED
    BY <2>1, <2>2, GrowKeepsIInv DEF Grow
<1>4. CASE ShortCode(byte) /\ byte # 1
  <2>1. Grow("CHUNK", byte - 1, packet)
    BY <1>4 DEF ShortCode
  <2>2. byte - 1 \in 0..MaxCode-1 /\ byte - 1 > 0
    BY <1>4 DEF ShortCode, Bytes
  <2>3. Len(packet) <= MTU + 3
    BY <1>1
  <2>4. QED
    BY <1>1, <2>1, <2>2, <2>3, GrowKeepsIInv DEF Grow
<1>5. QED BY <1>2, <1>3, <1>4

\* Every iteration of process_cobs_data keeps the invariant.
LEMMA ReceiveKeepsIInv ==
  ASSUME IInv, NEW byte \in Bytes, Receive(byte)
  PROVE  IInv'
<1>1. CASE SkipByte(byte) \/ Filler(byte)
  BY <1>1, NoPacketType DEF SkipByte, Filler, IInv, TypeOK, StateCoherent, NoBufferOverrun
<1>2. CASE EndOfLongPacket(byte) \/ UnexpectedZero(byte)
  <2>1. ResetDecoder /\ out' \in Seq(Bytes)
    BY <1>2, NoPacketType DEF EndOfLongPacket, UnexpectedZero
  <2>2. QED BY <2>1, ResetKeepsIInv
<1>3. CASE EndOfPacket(byte)
  <2>1. packet \in Seq(Bytes) /\ packet # <<>>
    BY <1>3 DEF EndOfPacket, IInv, TypeOK
  <2>2. ResetDecoder /\ out' \in Seq(Bytes)
    BY <1>3, <2>1, SubmittedType DEF EndOfPacket
  <2>3. QED BY <2>2, ResetKeepsIInv
<1>4. CASE DataByte(byte)
  BY <1>4, DataByteKeepsIInv
<1>5. CASE LongCode(byte) \/ ShortCode(byte)
  BY <1>5, CodeByteKeepsIInv
<1>6. QED
  BY <1>1, <1>2, <1>3, <1>4, <1>5 DEF Receive

\* The invariant holds in every reachable state, after any stream of bytes and
\* any calls of reset().
THEOREM InvariantHolds == Spec => []IInv
<1>1. Init => IInv
  BY DecoderAssumption, NoPacketType
     DEF Init, IsReset, IInv, TypeOK, StateCoherent, NoBufferOverrun, States
<1>2. IInv /\ [Next]_dvars => IInv'
  <2> SUFFICES ASSUME IInv, [Next]_dvars PROVE IInv'
    OBVIOUS
  <2>1. CASE Restart
    <3>1. ResetDecoder /\ out' \in Seq(Bytes)
      BY <2>1, NoPacketType DEF Restart
    <3>2. QED BY <3>1, ResetKeepsIInv
  <2>2. CASE \E byte \in Bytes : Receive(byte)
    BY <2>2, ReceiveKeepsIInv
  <2>3. CASE UNCHANGED dvars
    BY <2>3 DEF dvars, IInv, TypeOK, StateCoherent, NoBufferOverrun
  <2>4. QED
    BY <2>1, <2>2, <2>3 DEF Next
<1>3. QED
  BY <1>1, <1>2, PTL DEF Spec

-----------------------------------------------------------------------------
\* The decoder's variables keep their types, for every parameter.
THEOREM TypeCorrect == Spec => []TypeOK
<1>1. IInv => TypeOK
  BY DEF IInv
<1>2. QED BY <1>1, InvariantHolds, PTL

\* The states mean what the loop of process_cobs_data takes them to mean.
THEOREM StatesCoherent == Spec => []StateCoherent
<1>1. IInv => StateCoherent
  BY DEF IInv
<1>2. QED BY <1>1, InvariantHolds, PTL

\* The packet buffer of ip_mtu+3 bytes is never overrun, whatever is received.
THEOREM BufferNeverOverrun == Spec => []NoBufferOverrun
<1>1. IInv => NoBufferOverrun
  BY DEF IInv
<1>2. QED BY <1>1, InvariantHolds, PTL

\* A zero byte leaves the decoder as reset() does.
LEMMA ZeroResets ==
  ASSUME IInv, Receive(0)
  PROVE  IsReset'
<1>1. CASE EndOfLongPacket(0) \/ UnexpectedZero(0) \/ EndOfPacket(0)
  BY <1>1 DEF EndOfLongPacket, UnexpectedZero, EndOfPacket, ResetDecoder, IsReset
<1>2. CASE Filler(0)
  BY <1>2 DEF Filler, IInv, TypeOK, StateCoherent, States, IsReset
<1>3. ~(SkipByte(0) \/ DataByte(0) \/ LongCode(0) \/ ShortCode(0))
  BY DecoderAssumption DEF SkipByte, DataByte, LongCode, ShortCode
<1>4. QED
  BY <1>1, <1>2, <1>3 DEF Receive

\* One zero byte puts the decoder where reset() would: whatever was lost or
\* corrupted before it, the byte after it is taken as the start of a packet.
THEOREM OneZeroResynchronizes == Spec => ZeroResynchronizes
<1>1. IInv /\ [Next]_dvars => [Receive(0) => IsReset']_dvars
  BY ZeroResets
<1>2. QED
  BY <1>1, InvariantHolds, PTL DEF Spec, ZeroResynchronizes

-----------------------------------------------------------------------------
(***************************************************************************)
(* The decoder implements CobsStream.  Stream!Decode takes a delimited      *)
(* string as a whole and recurses from its front, while the decoder takes a *)
(* byte at a time and keeps only what it has decoded so far.  The invariant *)
(* that relates the two, Promise, therefore looks ahead: in whatever way    *)
(* the string goes on, its decoding begins with what the decoder holds.     *)
(***************************************************************************)
\* The bytes that are no delimiters, and what decoding a string yields.
NonZero == 1..MaxCode
Result == [ok : BOOLEAN, bytes : Seq(Bytes)]

\* The recursion of Stream!Decode: what it yields at a place i of s, when G tells what it
\* yields at later places.
Whole == [ok |-> TRUE, bytes |-> <<>>]
Cut == [ok |-> FALSE, bytes |-> <<>>]
ZeroAfter(s, i) == IF s[i] = MaxCode \/ i + s[i] = Len(s) + 1 THEN <<>> ELSE <<0>>
Block(s, i, after) ==
  [ok |-> after.ok, bytes |-> SubSeq(s, i+1, (i + s[i])-1) \o ZeroAfter(s, i) \o after.bytes]
At(s, i, G) ==
  IF i = Len(s) + 1 THEN Whole
  ELSE IF i + s[i] > Len(s) + 1 THEN Cut ELSE Block(s, i, G[i + s[i]])

\* G is the decoding of s, from each of its places on.
Decodes(G, s) ==
  /\ G \in [1..Len(s)+1 -> Result]
  /\ \A i \in 1..Len(s)+1 : G[i] = At(s, i, G)

\* The elements of a string without delimiters.
LEMMA SeqFacts ==
  ASSUME NEW s \in Seq(NonZero)
  PROVE  /\ Len(s) \in Nat
         /\ \A i \in 1..Len(s) : s[i] \in NonZero /\ s[i] \in Nat /\ s[i] >= 1 /\ s[i] \in Bytes
<1>1. Len(s) \in Nat /\ \A i \in 1..Len(s) : s[i] \in NonZero
  BY LenProperties, ElementOfSeq
<1>2. \A x \in NonZero : x \in Nat /\ x >= 1 /\ x \in Bytes
  BY DecoderAssumption DEF NonZero, Bytes
<1>3. QED
  BY <1>1, <1>2

\* A part of such a string.
LEMMA PartOf ==
  ASSUME NEW s \in Seq(NonZero), NEW a \in 1..Len(s)+1, NEW b \in 0..Len(s)
  PROVE  /\ SubSeq(s, a, b) \in Seq(Bytes)
         /\ Len(SubSeq(s, a, b)) = IF a <= b THEN b - a + 1 ELSE 0
<1>1. Len(s) \in Nat /\ \A i \in 1..Len(s) : s[i] \in Bytes
  BY SeqFacts
<1>2. \A i \in a..b : s[i] \in Bytes
  BY <1>1
<1>3. a \in Int /\ b \in Int
  BY <1>1
<1>4. QED
  BY <1>2, <1>3, SubSeqProperties

\* The decodings the recursion ends with.
LEMMA WholeTyped == Whole \in Result /\ Cut \in Result
  BY DEF Whole, Cut, Result

\* Decoding a block and what follows it yields a result.
LEMMA BlockTyped ==
  ASSUME NEW s \in Seq(NonZero), NEW i \in 1..Len(s), i + s[i] <= Len(s) + 1,
         NEW after \in Result
  PROVE  Block(s, i, after) \in Result
<1>1. PICK a \in Seq(Bytes) : a = SubSeq(s, i+1, (i + s[i])-1)
  <2>1. i + 1 \in 1..Len(s)+1 /\ (i + s[i]) - 1 \in 0..Len(s)
    BY SeqFacts
  <2>2. QED
    BY <2>1, PartOf
<1>2. PICK b \in Seq(Bytes) : b = ZeroAfter(s, i)
  <2>1. 0 \in Bytes
    BY DecoderAssumption DEF Bytes
  <2>2. <<>> \in Seq(Bytes) /\ <<0>> \in Seq(Bytes)
    BY <2>1
  <2>3. ZeroAfter(s, i) = <<>> \/ ZeroAfter(s, i) = <<0>>
    BY DEF ZeroAfter
  <2>4. QED
    BY <2>2, <2>3, Zenon
<1>3. after.ok \in BOOLEAN /\ after.bytes \in Seq(Bytes)
  BY DEF Result
<1>4. a \o b \o after.bytes \in Seq(Bytes)
  BY <1>1, <1>2, <1>3
<1>5. QED
  BY <1>1, <1>2, <1>3, <1>4 DEF Block, Result

\* So does the recursion, at a place after which it does.
LEMMA AtTyped ==
  ASSUME NEW s \in Seq(NonZero), NEW i \in 1..Len(s)+1, NEW G,
         \A j \in i+1..Len(s)+1 : G[j] \in Result
  PROVE  At(s, i, G) \in Result
<1>1. CASE i = Len(s) + 1 \/ i + s[i] > Len(s) + 1
  BY <1>1, WholeTyped, Zenon DEF At
<1>2. CASE i # Len(s) + 1 /\ ~(i + s[i] > Len(s) + 1)
  <2>1. i \in 1..Len(s) /\ i + s[i] <= Len(s) + 1 /\ i + s[i] \in i+1..Len(s)+1
    BY <1>2, SeqFacts
  <2>2. Block(s, i, G[i + s[i]]) \in Result
    BY <2>1, BlockTyped
  <2>3. QED
    BY <1>2, <2>2, Zenon DEF At
<1>3. QED
  BY <1>1, <1>2, Zenon

\* What the recursion yields at a place depends on the places after it only.
LEMMA AtAgrees ==
  ASSUME NEW s \in Seq(NonZero), NEW i \in 1..Len(s)+1, NEW G, NEW H,
         \A j \in i+1..Len(s)+1 : G[j] = H[j]
  PROVE  At(s, i, G) = At(s, i, H)
<1>1. CASE i = Len(s) + 1 \/ i + s[i] > Len(s) + 1
  BY <1>1, Zenon DEF At
<1>2. CASE i # Len(s) + 1 /\ ~(i + s[i] > Len(s) + 1)
  <2>1. i + s[i] \in i+1..Len(s)+1
    BY <1>2, SeqFacts
  <2>2. G[i + s[i]] = H[i + s[i]]
    BY <2>1
  <2>3. QED
    BY <1>2, <2>2, Zenon DEF At
<1>3. QED
  BY <1>1, <1>2, Zenon

\* From the end on, the recursion defines a function.
DecodesFrom(G, s, a) ==
  /\ G \in [a..Len(s)+1 -> Result]
  /\ \A i \in a..Len(s)+1 : G[i] = At(s, i, G)

\* Every string without delimiters has its decoding.
LEMMA DecodingExists ==
  ASSUME NEW s \in Seq(NonZero)
  PROVE  \E G : Decodes(G, s)
<1>0. PICK n \in Nat : n = Len(s)
  BY SeqFacts
<1> DEFINE S == {k \in 0..n : \E G : DecodesFrom(G, s, n + 1 - k)}
<1>1. 0 \in S
  <2> DEFINE G == [i \in n+1..n+1 |-> Whole]
  <2>1. G \in [n+1..n+1 -> Result]
    BY WholeTyped
  <2>2. \A i \in n+1..n+1 : G[i] = At(s, i, G)
    BY <1>0 DEF At
  <2>3. DecodesFrom(G, s, n + 1 - 0)
    <3>1. n + 1 - 0 = n + 1
      OBVIOUS
    <3> HIDE DEF G
    <3>2. QED
      BY <1>0, <2>1, <2>2, <3>1 DEF DecodesFrom
  <2>4. QED
    BY <2>3
<1>2. ASSUME NEW k \in 0..n-1, k \in S PROVE k + 1 \in S
  <2>1. PICK a \in 1..n : a = n - k
    BY <1>2
  <2>2. n + 1 - k = a + 1 /\ n + 1 - (k + 1) = a
    BY <2>1
  <2>3. PICK F : DecodesFrom(F, s, a + 1)
    BY <1>2, <2>2
  <2>4. \A j \in a+1..n+1 : F[j] \in Result
    BY <1>0, <2>3 DEF DecodesFrom
  <2>5. PICK v \in Result : v = At(s, a, F)
    <3>1. a \in 1..Len(s)+1
      BY <1>0
    <3>2. QED
      BY <1>0, <2>4, <3>1, AtTyped
  <2> DEFINE G == [i \in a..n+1 |-> IF i = a THEN v ELSE F[i]]
  <2>6. G \in [a..n+1 -> Result]
    <3>1. \A i \in a..n+1 : i # a => i \in a+1..n+1
      OBVIOUS
    <3>2. QED
      BY <2>4, <3>1
  <2>7. \A j \in a+1..n+1 : G[j] = F[j]
    OBVIOUS
  <2>8. G[a] = v
    OBVIOUS
  <2> HIDE DEF G
  <2>9. ASSUME NEW i \in a..n+1 PROVE G[i] = At(s, i, G)
    <3>1. i \in 1..Len(s)+1 /\ \A j \in i+1..n+1 : j \in a+1..n+1
      BY <1>0
    <3>2. At(s, i, G) = At(s, i, F)
      BY <1>0, <2>7, <3>1, AtAgrees
    <3>3. CASE i = a
      BY <2>5, <2>8, <3>2, <3>3
    <3>4. CASE i # a
      <4>1. i \in a+1..n+1
        BY <3>4
      <4>2. F[i] = At(s, i, F)
        BY <1>0, <2>3, <4>1 DEF DecodesFrom
      <4>3. QED
        BY <2>7, <3>2, <4>1, <4>2
    <3>5. QED
      BY <3>3, <3>4
  <2>10. DecodesFrom(G, s, n + 1 - (k + 1))
    BY <1>0, <2>2, <2>6, <2>9 DEF DecodesFrom
  <2>11. k + 1 \in 0..n
    OBVIOUS
  <2>12. QED
    BY <2>10, <2>11
<1>3. 0..n \subseteq S
  <2> HIDE DEF S
  <2>1. QED
    BY <1>1, <1>2, BoundedInduction
<1>4. n \in S
  <2> HIDE DEF S
  <2>1. QED
    BY <1>3
<1>5. PICK G : DecodesFrom(G, s, 1)
  <2>1. n + 1 - n = 1
    OBVIOUS
  <2>2. QED
    BY <1>4, <2>1
<1>6. QED
  BY <1>5 DEF DecodesFrom, Decodes

\* Decode(s) is what its recursion gives at the first byte.
LEMMA DecodeIs ==
  ASSUME NEW s \in Seq(NonZero)
  PROVE  \E G : Decodes(G, s) /\ Stream!Decode(s) = G[1]
<1> DEFINE Body(h) ==
             [i \in 1..Len(s)+1 |->
                IF i = Len(s) + 1 THEN [ok |-> TRUE, bytes |-> <<>>]
                ELSE IF i + s[i] > Len(s) + 1 THEN [ok |-> FALSE, bytes |-> <<>>]
                ELSE [ok |-> h[i + s[i]].ok,
                      bytes |-> SubSeq(s, i+1, (i + s[i])-1)
                                  \o (IF s[i] = MaxCode \/ i + s[i] = Len(s) + 1 THEN <<>> ELSE <<0>>)
                                  \o h[i + s[i]].bytes]]
           g == CHOOSE h : h = Body(h)
<1>1. Stream!Decode(s) = g[1]
  BY DEF Stream!Decode
<1>2. ASSUME NEW h PROVE Body(h) = [i \in 1..Len(s)+1 |-> At(s, i, h)]
  BY DEF At, Block, ZeroAfter, Whole, Cut
<1> HIDE DEF Body
<1>3. PICK f : Decodes(f, s)
  BY DecodingExists
<1>4. f = Body(f)
  <2>1. f = [i \in 1..Len(s)+1 |-> f[i]]
    BY <1>3 DEF Decodes
  <2>2. \A i \in 1..Len(s)+1 : f[i] = At(s, i, f)
    BY <1>3 DEF Decodes
  <2>3. f = [i \in 1..Len(s)+1 |-> At(s, i, f)]
    BY <2>1, <2>2
  <2>4. QED
    BY <1>2, <2>3
<1>5. g = Body(g)
  BY <1>4
<1> HIDE DEF g
<1>6. g = [i \in 1..Len(s)+1 |-> At(s, i, g)]
  BY <1>2, <1>5
<1>7. \A i \in 1..Len(s)+1 : g[i] = At(s, i, g)
  BY <1>6
<1>8. \A i \in 1..Len(s)+1 : g[i] \in Result
  <2>0. PICK n \in Nat : n = Len(s)
    BY SeqFacts
  <2> DEFINE S == {k \in 0..n : \A i \in n+1-k..n+1 : g[i] \in Result}
  <2>1. 0 \in S
    <3>1. n + 1 \in 1..n+1 /\ At(s, n + 1, g) = Whole
      BY <2>0 DEF At
    <3>2. g[n+1] \in Result
      BY <1>7, <2>0, <3>1, WholeTyped
    <3>3. \A i \in n+1-0..n+1 : i = n + 1
      OBVIOUS
    <3>4. QED
      BY <3>2, <3>3
  <2>2. ASSUME NEW k \in 0..n-1, k \in S PROVE k + 1 \in S
    <3>1. PICK a \in 1..n : a = n - k
      BY <2>2
    <3>2. n + 1 - k = a + 1 /\ n + 1 - (k + 1) = a
      BY <3>1
    <3>3. \A j \in a+1..n+1 : g[j] \in Result
      BY <2>2, <3>2
    <3>4. At(s, a, g) \in Result
      <4>1. a \in 1..Len(s)+1
        BY <2>0
      <4>2. QED
        BY <2>0, <3>3, <4>1, AtTyped
    <3>5. g[a] \in Result
      BY <1>7, <2>0, <3>4
    <3>6. \A i \in a..n+1 : i = a \/ i \in a+1..n+1
      OBVIOUS
    <3>7. \A i \in n+1-(k+1)..n+1 : g[i] \in Result
      BY <3>2, <3>3, <3>5, <3>6
    <3>8. k + 1 \in 0..n
      OBVIOUS
    <3>9. QED
      BY <3>7, <3>8
  <2>3. 0..n \subseteq S
    <3> HIDE DEF S
    <3>1. QED
      BY <2>1, <2>2, BoundedInduction
  <2>4. n \in S /\ n + 1 - n = 1
    BY <2>3
  <2>5. QED
    BY <2>0, <2>4
<1>9. g \in [1..Len(s)+1 -> Result]
  BY <1>6, <1>8
<1>10. QED
  BY <1>1, <1>7, <1>9 DEF Decodes

\* t begins with s.
Extends(t, s) ==
  t \in Seq(NonZero) /\ Len(t) >= Len(s) /\ \A i \in 1..Len(s) : t[i] = s[i]

\* The zero a block implies that ends before place e.
Implied(t, e, long) == IF long \/ e = Len(t) + 1 THEN <<>> ELSE <<0>>

\* What the decoder holds after n bytes of t is what the decoding G of t begins with:
\* of a block in progress the rest is still to come, and after a block that has ended
\* there is another one, or the string is over.
Fits(t, G, n, rem, pkt, long) ==
  /\ rem > 0 =>
       /\ n + rem > Len(t) => ~G[1].ok
       /\ n + rem <= Len(t) =>
            /\ G[1].ok = G[n+rem+1].ok
            /\ G[1].bytes = (pkt \o SubSeq(t, n+1, n+rem))
                              \o (Implied(t, n+rem+1, long) \o G[n+rem+1].bytes)
  /\ rem = 0 /\ n < Len(t) => G[1].ok = G[n+1].ok /\ G[1].bytes = pkt \o G[n+1].bytes
  /\ rem = 0 /\ n = Len(t) =>
       /\ G[1].ok = TRUE
       /\ pkt = <<>> => G[1].bytes = <<>>
       /\ pkt # <<>> => G[1].bytes = Trimmed(pkt)

TooLong(G) == ~(G[1].ok /\ Len(G[1].bytes) <= MTU)

\* However the string of which s has been received goes on, its decoding begins with what
\* the decoder holds, or is no packet that is acceptable.
Promise(s, st, rem, pkt) ==
  \A t : Extends(t, s) =>
    \A G : Decodes(G, t) =>
      IF st = "PACKET_TOO_LONG" THEN TooLong(G)
      ELSE Fits(t, G, Len(s), rem, pkt, st = "CASE255")

-----------------------------------------------------------------------------
\* A byte goes from the string to the packet.
LEMMA FirstOfBlock ==
  ASSUME NEW p \in Seq(Bytes), NEW t \in Seq(NonZero), NEW a \in 1..Len(t), NEW b \in a..Len(t)
  PROVE  p \o SubSeq(t, a, b) = Append(p, t[a]) \o SubSeq(t, a+1, b)
<1>1. PICK u \in Seq(Bytes) : u = t
  <2>1. NonZero \subseteq Bytes
    BY DecoderAssumption DEF NonZero, Bytes
  <2>2. QED
    BY <2>1, SeqMonotonic
<1>2. SubSeq(u, a, b) = <<u[a]>> \o SubSeq(u, a+1, b)
  BY <1>1, SubSeqRecursiveFirst
<1>3. PICK v \in Seq(Bytes) : v = SubSeq(t, a+1, b)
  <2>1. a + 1 \in 1..Len(t)+1 /\ b \in 0..Len(t)
    BY SeqFacts
  <2>2. QED
    BY <2>1, PartOf
<1>4. PICK x \in Bytes : x = t[a]
  BY SeqFacts
<1>5. (p \o <<x>>) \o v = p \o (<<x>> \o v)
  <2>1. <<x>> \in Seq(Bytes)
    OBVIOUS
  <2>2. QED
    BY <2>1, ConcatAssociative
<1>6. Append(p, x) = p \o <<x>>
  BY AppendIsConcat
<1>7. QED
  BY <1>1, <1>2, <1>3, <1>4, <1>5, <1>6, Zenon

\* The zero of a block is a sequence of bytes.
LEMMA ImpliedTyped == ASSUME NEW t, NEW e, NEW long PROVE Implied(t, e, long) \in Seq(Bytes)
<1>1. 0 \in Bytes
  BY DecoderAssumption DEF Bytes
<1>2. <<>> \in Seq(Bytes) /\ <<0>> \in Seq(Bytes)
  BY <1>1
<1>3. QED
  BY <1>2, Zenon DEF Implied

\* Trimming takes away the zero of the last block.
LEMMA TrimmedZero == ASSUME NEW p \in Seq(Bytes) PROVE Trimmed(Append(p, 0)) = p
<1>1. 0 \in Bytes
  BY DecoderAssumption DEF Bytes
<1>2. PICK q \in Seq(Bytes) : q = Append(p, 0)
  BY <1>1, AppendProperties
<1>3. Len(q) = Len(p) + 1 /\ q[Len(q)] = 0 /\ (\A i \in 1..Len(p) : q[i] = p[i]) /\ Len(p) \in Nat
  BY <1>1, <1>2, AppendProperties, LenProperties
<1>4. SubSeq(q, 1, Len(q) - 1) = p
  <2>1. \A i \in 1..Len(q)-1 : q[i] \in Bytes
    BY <1>3, ElementOfSeq
  <2>2. PICK r \in Seq(Bytes) : r = SubSeq(q, 1, Len(q) - 1)
    BY <1>3, <2>1, SubSeqProperties
  <2>3. Len(r) = Len(p) /\ \A i \in 1..Len(p) : r[i] = p[i]
    <3>1. 1 \in Int /\ Len(q) - 1 \in Int
      BY <1>3
    <3>2. /\ Len(SubSeq(q, 1, Len(q)-1)) = IF 1 <= Len(q)-1 THEN (Len(q)-1) - 1 + 1 ELSE 0
          /\ \A i \in 1..(Len(q)-1)-1+1 : SubSeq(q, 1, Len(q)-1)[i] = q[1 + i - 1]
      BY <2>1, <3>1, SubSeqProperties
    <3>3. Len(r) = Len(p)
      BY <1>3, <2>2, <3>2
    <3>4. ASSUME NEW i \in 1..Len(p) PROVE r[i] = p[i]
      <4>1. i \in 1..(Len(q)-1)-1+1 /\ 1 + i - 1 = i
        BY <1>3
      <4>2. QED
        BY <1>3, <2>2, <3>2, <4>1
    <3>5. QED
      BY <3>3, <3>4
  <2>4. r = p
    BY <2>3, SeqEqual
  <2>5. QED
    BY <2>2, <2>4
<1>5. QED
  BY <1>2, <1>3, <1>4 DEF Trimmed

\* Nothing is trimmed from a packet that ends in another byte.
LEMMA TrimmedByte ==
  ASSUME NEW p \in Seq(Bytes), NEW x \in NonZero
  PROVE  Trimmed(Append(p, x)) = Append(p, x) /\ Append(p, x) # <<>>
<1>1. x \in Bytes /\ x # 0
  BY DecoderAssumption DEF Bytes, NonZero
<1>2. PICK q \in Seq(Bytes) : q = Append(p, x)
  BY <1>1, AppendProperties
<1>3. Len(q) = Len(p) + 1 /\ q[Len(q)] = x /\ Len(p) \in Nat
  BY <1>1, <1>2, AppendProperties, LenProperties
<1>4. q # <<>>
  BY <1>3, EmptySeq
<1>5. QED
  BY <1>1, <1>2, <1>3, <1>4 DEF Trimmed

\* Trimming takes away one byte at most.
LEMMA TrimmedLength ==
  ASSUME NEW p \in Seq(Bytes), p # <<>>
  PROVE  Trimmed(p) \in Seq(Bytes) /\ Len(Trimmed(p)) >= Len(p) - 1
<1>1. Len(p) \in Nat \ {0} /\ \A i \in 1..Len(p) : p[i] \in Bytes
  BY EmptySeq, ElementOfSeq
<1>2. /\ SubSeq(p, 1, Len(p)-1) \in Seq(Bytes)
      /\ Len(SubSeq(p, 1, Len(p)-1)) = Len(p) - 1
  <2>1. PICK k \in Int : k = Len(p) - 1 /\ k >= 0
    BY <1>1
  <2>2. 1 \in Int /\ \A i \in 1..k : p[i] \in Bytes
    BY <1>1, <2>1
  <2>3. PICK q : q = SubSeq(p, 1, k)
    OBVIOUS
  <2>4. q \in Seq(Bytes) /\ Len(q) = IF 1 <= k THEN k - 1 + 1 ELSE 0
    BY <2>2, <2>3, SubSeqProperties
  <2>5. q \in Seq(Bytes) /\ Len(q) = k
    BY <2>1, <2>4
  <2>6. QED
    BY <2>1, <2>3, <2>5
<1>3. CASE p[Len(p)] = 0
  BY <1>1, <1>2, <1>3 DEF Trimmed
<1>4. CASE p[Len(p)] # 0
  <2>1. Trimmed(p) = p
    BY <1>4 DEF Trimmed
  <2>2. QED
    BY <1>1, <2>1
<1>5. QED
  BY <1>3, <1>4

\* What the decoding of a string is at the places of its blocks.
LEMMA DecodingAt ==
  ASSUME NEW t \in Seq(NonZero), NEW G, Decodes(G, t)
  PROVE  /\ \A i \in 1..Len(t)+1 : G[i].ok \in BOOLEAN /\ G[i].bytes \in Seq(Bytes)
         /\ G[Len(t)+1].ok = TRUE /\ G[Len(t)+1].bytes = <<>>
<1>1. Len(t) + 1 \in 1..Len(t)+1
  BY SeqFacts
<1>2. G[Len(t)+1] = Whole
  BY <1>1 DEF Decodes, At
<1>3. QED
  BY <1>1, <1>2 DEF Decodes, Result, Whole

\* A string of length L and its decoding; the byte at a place.
Known(t, G, L) == t \in Seq(NonZero) /\ Decodes(G, t) /\ L \in Nat /\ Len(t) = L
Holds(t, i, b) == b \in Nat /\ t[i] = b

\* A block that is cut off by the end of the string.
LEMMA CutAt ==
  ASSUME NEW t, NEW G, NEW L \in Nat, Known(t, G, L),
         NEW i \in 1..L, NEW b \in Nat, Holds(t, i, b), i + b > L + 1
  PROVE  G[i].ok = FALSE
<1>1. i \in 1..L+1 /\ i # L + 1
  OBVIOUS
<1>2. G[i] = At(t, i, G)
  BY <1>1 DEF Decodes, Known
<1>3. G[i] = Cut
  BY <1>1, <1>2, Zenon DEF At, Known, Holds
<1>4. QED
  BY <1>3 DEF Cut

\* A block after which the decoding goes on.
GoesOn(t, G, i, b) ==
  /\ G[i].ok = G[i + b].ok
  /\ G[i].bytes = SubSeq(t, i+1, (i + b)-1) \o Implied(t, i + b, b = MaxCode) \o G[i + b].bytes

\* The decoding of a block that ends within the string.
LEMMA BlockAt ==
  ASSUME NEW t, NEW G, NEW L \in Nat, Known(t, G, L),
         NEW i \in 1..L, NEW b \in Nat, Holds(t, i, b), i + b <= L + 1
  PROVE  GoesOn(t, G, i, b)
<1>1. i \in 1..L+1 /\ i # L + 1 /\ ~(i + b > L + 1)
  OBVIOUS
<1>2. G[i] = At(t, i, G)
  BY <1>1 DEF Decodes, Known
<1>3. G[i] = Block(t, i, G[i + b])
  BY <1>1, <1>2, Zenon DEF At, Known, Holds
<1>4. ZeroAfter(t, i) = Implied(t, i + b, b = MaxCode)
  BY Zenon DEF ZeroAfter, Implied, Known, Holds
<1>5. \A g : /\ Block(t, i, g).ok = g.ok
             /\ Block(t, i, g).bytes
                  = SubSeq(t, i+1, (i + b)-1) \o ZeroAfter(t, i) \o g.bytes
  BY DEF Block, Holds
<1>6. QED
  BY <1>3, <1>4, <1>5, Zenon DEF GoesOn

\* The pieces of a block.
LEMMA PiecesTyped ==
  ASSUME NEW t, NEW G, NEW L \in Nat, Known(t, G, L),
         NEW a \in 1..L+1, NEW e \in a..L+1, NEW long
  PROVE  /\ SubSeq(t, a, e - 1) \in Seq(Bytes) /\ Implied(t, e, long) \in Seq(Bytes)
         /\ G[e].bytes \in Seq(Bytes)
<1>1. a \in 1..L+1 /\ e - 1 \in 0..L /\ e \in 1..L+1
  OBVIOUS
<1>2. t \in Seq(NonZero) /\ Decodes(G, t) /\ Len(t) = L
  BY DEF Known
<1>3. QED
  BY <1>1, <1>2, PartOf, ImpliedTyped, DecodingAt

\* After a code byte, what the decoder held is followed by the block it begins.
Continues(t, G, n, pkt, b) ==
  /\ G[1].ok = G[n+b+1].ok
  /\ G[1].bytes = (pkt \o SubSeq(t, n+2, n+b))
                     \o (Implied(t, n+b+1, b = MaxCode) \o G[n+b+1].bytes)

\* A code byte whose block is cut off by the end of the string.
LEMMA FitsCodeCut ==
  ASSUME NEW t, NEW G, NEW L \in Nat, Known(t, G, L), NEW n \in Nat, n < L,
         NEW pkt \in Seq(Bytes), NEW long, Fits(t, G, n, 0, pkt, long),
         NEW b \in Nat, Holds(t, n + 1, b), b > 1, n + b > L
  PROVE  Fits(t, G, n + 1, b - 1, pkt, b = MaxCode)
<1>1. n + 1 \in 1..L /\ (n + 1) + b > L + 1
  OBVIOUS
<1>2. G[n+1].ok = FALSE
  BY <1>1, CutAt
<1>3. G[1].ok = G[n+1].ok
  BY DEF Fits, Known
<1>4. b - 1 > 0 /\ b - 1 # 0 /\ ~((n + 1) + (b - 1) <= L)
  OBVIOUS
<1>5. QED
  BY <1>2, <1>3, <1>4, Zenon DEF Fits, Known

\* A code byte whose block ends within the string.
LEMMA FitsCodeBlock ==
  ASSUME NEW t, NEW G, NEW L \in Nat, Known(t, G, L), NEW n \in Nat, n < L,
         NEW pkt \in Seq(Bytes), NEW long, Fits(t, G, n, 0, pkt, long),
         NEW b \in Nat, Holds(t, n + 1, b), b >= 1, n + b <= L
  PROVE  Continues(t, G, n, pkt, b)
<1>1. PICK i \in 1..L : i = n + 1 /\ i + b <= L + 1
  OBVIOUS
<1>2. i + 1 = n + 2 /\ (i + b) - 1 = n + b /\ i + b = n + b + 1
  BY <1>1
<1>3. G[1].ok = G[i].ok /\ G[1].bytes = pkt \o G[i].bytes
  BY <1>1 DEF Fits, Known
<1>4. GoesOn(t, G, i, b)
  BY <1>1, BlockAt
<1>5. /\ SubSeq(t, i+1, (i + b) - 1) \in Seq(Bytes)
      /\ Implied(t, i + b, b = MaxCode) \in Seq(Bytes)
      /\ G[i + b].bytes \in Seq(Bytes)
  <2>1. i + 1 \in 1..L+1 /\ i + b \in i+1..L+1
    BY <1>1
  <2>2. QED
    BY <2>1, PiecesTyped
<1>6. PICK x \in Seq(Bytes), z \in Seq(Bytes), g \in Seq(Bytes) :
        /\ x = SubSeq(t, i+1, (i + b) - 1) /\ z = Implied(t, i + b, b = MaxCode)
        /\ g = G[i + b].bytes
  BY <1>5
<1>7. pkt \o (x \o z \o g) = (pkt \o x) \o (z \o g)
  BY SMTT(60)
<1>8. QED
  BY <1>2, <1>3, <1>4, <1>6, <1>7, Zenon DEF GoesOn, Continues

\* A code byte other than 1, whatever the length of the string.
LEMMA FitsCode ==
  ASSUME NEW t, NEW G, NEW L \in Nat, Known(t, G, L), NEW n \in Nat, n < L,
         NEW pkt \in Seq(Bytes), NEW long, Fits(t, G, n, 0, pkt, long),
         NEW b \in Nat, Holds(t, n + 1, b), b > 1
  PROVE  Fits(t, G, n + 1, b - 1, pkt, b = MaxCode)
<1>1. CASE n + b > L
  BY <1>1, FitsCodeCut
<1>2. CASE ~(n + b > L)
  <2>1. b >= 1 /\ n + b <= L
    BY <1>2
  <2>2. Continues(t, G, n, pkt, b)
    BY <2>1, FitsCodeBlock
  <2>3. /\ b - 1 # 0 /\ ~((n + 1) + (b - 1) > L) /\ (n + 1) + 1 = n + 2
        /\ (n + 1) + (b - 1) = n + b /\ (n + 1) + (b - 1) + 1 = n + b + 1
    BY <1>2
  <2>4. QED
    BY <2>2, <2>3, Zenon DEF Fits, Known, Continues
<1>3. QED
  BY <1>1, <1>2

\* The code byte 1.
LEMMA FitsOne ==
  ASSUME NEW t, NEW G, NEW L \in Nat, Known(t, G, L), NEW n \in Nat, n < L,
         NEW pkt \in Seq(Bytes), NEW long, Fits(t, G, n, 0, pkt, long), Holds(t, n + 1, 1)
  PROVE  Fits(t, G, n + 1, 0, Append(pkt, 0), FALSE)
<1>1. t \in Seq(NonZero) /\ Decodes(G, t) /\ Len(t) = L
  BY DEF Known
<1>2. n + 1 <= L /\ 1 \in Nat /\ 1 >= 1 /\ n + 1 + 1 = n + 2 /\ n + 1 < n + 2
      /\ n + 1 \in Int /\ n + 2 \in Int
  BY <1>1
<1>3. /\ G[1].ok = G[n+2].ok
      /\ G[1].bytes = (pkt \o SubSeq(t, n+2, n+1))
                         \o (Implied(t, n+2, 1 = MaxCode) \o G[n+2].bytes)
  <2>1. Continues(t, G, n, pkt, 1)
    BY <1>2, FitsCodeBlock
  <2>2. QED
    BY <1>2, <2>1, Zenon DEF Continues
<1>4. SubSeq(t, n+2, n+1) = <<>> /\ pkt \o <<>> = pkt
  BY <1>2, SubSeqEmpty, ConcatEmptySeq
<1>5. G[1].bytes = pkt \o (Implied(t, n+2, 1 = MaxCode) \o G[n+2].bytes)
  BY <1>3, <1>4, Zenon
<1>6. 1 # MaxCode /\ 0 \in Bytes
  BY DecoderAssumption DEF Bytes
<1>7. PICK q \in Seq(Bytes) : q = Append(pkt, 0) /\ q # <<>>
  <2>1. Append(pkt, 0) \in Seq(Bytes) /\ Len(Append(pkt, 0)) = Len(pkt) + 1 /\ Len(pkt) \in Nat
    BY <1>6, AppendProperties, LenProperties
  <2>2. Append(pkt, 0) # <<>>
    BY <2>1, EmptySeq
  <2>3. QED
    BY <2>1, <2>2
<1>8. CASE n + 1 < L
  <2>1. Implied(t, n+2, 1 = MaxCode) = <<0>>
    BY <1>1, <1>6, <1>8 DEF Implied
  <2>2. PICK g \in Seq(Bytes) : g = G[n+2].bytes
    <3>1. n + 2 \in 1..L+1
      BY <1>2
    <3>2. QED
      BY <1>1, <3>1, DecodingAt
  <2>3. pkt \o (<<0>> \o g) = q \o g
    <3>1. <<0>> \in Seq(Bytes)
      BY <1>6
    <3>2. q = pkt \o <<0>>
      BY <1>6, <1>7, AppendIsConcat
    <3>3. (pkt \o <<0>>) \o g = pkt \o (<<0>> \o g)
      BY <3>1, SMTT(60)
    <3>4. QED
      BY <3>2, <3>3, Zenon
  <2>4. G[1].bytes = q \o G[n+2].bytes
    BY <1>5, <2>1, <2>2, <2>3, Zenon
  <2>5. n + 1 # L /\ ~(0 > 0)
    BY <1>8
  <2>6. QED
    BY <1>1, <1>2, <1>3, <1>7, <2>4, <2>5, Zenon DEF Fits
<1>9. CASE n + 1 = L
  <2>1. Implied(t, n+2, 1 = MaxCode) = <<>>
    BY <1>1, <1>2, <1>9 DEF Implied
  <2>2. G[n+2].bytes = <<>> /\ G[n+2].ok = TRUE
    <3>1. n + 2 = L + 1
      BY <1>9
    <3>2. G[Len(t)+1].bytes = <<>> /\ G[Len(t)+1].ok = TRUE
      BY <1>1, DecodingAt
    <3>3. QED
      BY <1>1, <3>1, <3>2, Zenon
  <2>3. G[1].bytes = pkt
    <3>1. <<>> \o <<>> = <<>>
      BY ConcatEmptySeq, EmptySeq
    <3>2. QED
      BY <1>4, <1>5, <2>1, <2>2, <3>1, Zenon
  <2>4. Trimmed(q) = pkt
    BY <1>7, TrimmedZero
  <2>5. ~(n + 1 < L) /\ ~(0 > 0)
    BY <1>9
  <2>6. QED
    BY <1>1, <1>3, <1>7, <1>9, <2>2, <2>3, <2>4, <2>5, Zenon DEF Fits
<1>10. n + 1 < L \/ n + 1 = L
  OBVIOUS
<1>11. QED
  BY <1>8, <1>9, <1>10, Zenon

\* A data byte inside a block.
LEMMA FitsData ==
  ASSUME NEW t, NEW G, NEW L \in Nat, Known(t, G, L), NEW n \in Nat, n < L,
         NEW rem \in Nat, rem > 1, NEW pkt \in Seq(Bytes), NEW long,
         Fits(t, G, n, rem, pkt, long), NEW b \in Nat, Holds(t, n + 1, b)
  PROVE  Fits(t, G, n + 1, rem - 1, Append(pkt, b), long)
<1>1. t \in Seq(NonZero) /\ Len(t) = L /\ t[n+1] = b
  BY DEF Known, Holds
<1>2. CASE n + rem > L
  <2>1. G[1].ok = FALSE
    <3>1. rem > 0
      OBVIOUS
    <3>2. ~G[1].ok
      BY <1>1, <1>2, <3>1, Zenon DEF Fits
    <3>3. G[1].ok \in BOOLEAN
      <4>1. 1 \in 1..L+1
        OBVIOUS
      <4>2. QED
        BY <4>1, DecodingAt DEF Known
    <3>4. QED
      BY <3>2, <3>3
  <2>2. rem - 1 # 0 /\ ~((n + 1) + (rem - 1) <= L)
    BY <1>2
  <2>3. QED
    BY <1>1, <2>1, <2>2, Zenon DEF Fits
<1>3. CASE ~(n + rem > L)
  <2>1. rem > 0 /\ n + rem <= L
    BY <1>3
  <2>2. /\ G[1].ok = G[n+rem+1].ok
        /\ G[1].bytes = (pkt \o SubSeq(t, n+1, n+rem))
                          \o (Implied(t, n+rem+1, long) \o G[n+rem+1].bytes)
    BY <1>1, <2>1, Zenon DEF Fits
  <2>3. pkt \o SubSeq(t, n+1, n+rem) = Append(pkt, b) \o SubSeq(t, n+2, n+rem)
    <3>1. n + 1 \in 1..L /\ n + rem \in n+1..L /\ (n + 1) + 1 = n + 2
      BY <2>1
    <3>2. PICK a, e : a = n + 1 /\ e = n + rem
      OBVIOUS
    <3>3. a \in 1..Len(t) /\ e \in a..Len(t)
      BY <1>1, <3>1, <3>2
    <3>4. pkt \o SubSeq(t, a, e) = Append(pkt, t[a]) \o SubSeq(t, a+1, e)
      BY <1>1, <3>3, FirstOfBlock
    <3>5. QED
      BY <1>1, <3>1, <3>2, <3>4, Zenon
  <2>4. /\ rem - 1 # 0 /\ (n + 1) + 1 = n + 2 /\ (n + 1) + (rem - 1) = n + rem
        /\ (n + 1) + (rem - 1) + 1 = n + rem + 1 /\ ~((n + 1) + (rem - 1) > L)
    BY <2>1
  <2>5. QED
    BY <1>1, <2>2, <2>3, <2>4, Zenon DEF Fits
<1>4. QED
  BY <1>2, <1>3

\* The last byte of a block, and the zero it may imply.
LEMMA FitsLast ==
  ASSUME NEW t, NEW G, NEW L \in Nat, Known(t, G, L), NEW n \in Nat, n < L,
         NEW pkt \in Seq(Bytes), NEW long \in BOOLEAN,
         Fits(t, G, n, 1, pkt, long), NEW b \in NonZero, Holds(t, n + 1, b)
  PROVE  Fits(t, G, n + 1, 0, Append(pkt, b) \o (IF long THEN <<>> ELSE <<0>>), FALSE)
<1>1. t \in Seq(NonZero) /\ Decodes(G, t) /\ Len(t) = L /\ t[n+1] = b
  BY DEF Known, Holds
<1>2. 0 \in Bytes /\ b \in Bytes
  BY DecoderAssumption DEF NonZero, Bytes
<1>3. PICK q \in Seq(Bytes) : q = Append(pkt, b)
  BY <1>2, AppendProperties
<1>4. PICK z \in Seq(Bytes) : z = (IF long THEN <<>> ELSE <<0>>)
  <2>1. <<>> \in Seq(Bytes) /\ <<0>> \in Seq(Bytes)
    BY <1>2
  <2>2. QED
    BY <2>1, Zenon
<1>5. 1 > 0 /\ n + 1 <= L /\ n + 1 + 1 = n + 2 /\ n + 1 < n + 2 /\ n + 1 \in 1..L
      /\ n + 1 \in n + 1..L /\ n + 2 \in Int /\ n + 1 \in Int /\ ~(0 > 0) /\ n + 2 \in 1..L+1
  OBVIOUS
<1>6. /\ G[1].ok = G[n+2].ok
      /\ G[1].bytes = (pkt \o SubSeq(t, n+1, n+1)) \o (Implied(t, n+2, long) \o G[n+2].bytes)
  BY <1>1, <1>5, Zenon DEF Fits
<1>7. pkt \o SubSeq(t, n+1, n+1) = q
  <2>1. PICK a : a = n + 1
    OBVIOUS
  <2>2. a \in 1..Len(t) /\ a \in a..Len(t)
    BY <1>1, <1>5, <2>1
  <2>3. pkt \o SubSeq(t, a, a) = Append(pkt, t[a]) \o SubSeq(t, a+1, a)
    BY <1>1, <2>2, FirstOfBlock
  <2>4. SubSeq(t, a+1, a) = <<>>
    BY <1>5, <2>1, SubSeqEmpty
  <2>5. q \o <<>> = q
    BY ConcatEmptySeq
  <2>6. QED
    BY <1>1, <1>3, <2>1, <2>3, <2>4, <2>5, Zenon
<1>8. G[1].bytes = q \o (Implied(t, n+2, long) \o G[n+2].bytes)
  BY <1>6, <1>7, Zenon
<1>9. PICK g \in Seq(Bytes) : g = G[n+2].bytes
  BY <1>1, <1>5, DecodingAt
<1>10. q \o z # <<>>
  <2>1. Len(q) = Len(pkt) + 1 /\ Len(pkt) \in Nat
    BY <1>2, <1>3, AppendProperties, LenProperties
  <2>2. q \o z \in Seq(Bytes) /\ Len(q \o z) = Len(q) + Len(z) /\ Len(z) \in Nat
    BY ConcatProperties, LenProperties
  <2>3. Len(q \o z) # 0
    BY <2>1, <2>2
  <2>4. QED
    BY <2>3, EmptySeq
<1>11. CASE n + 1 < L
  <2>1. Implied(t, n+2, long) = z
    <3>1. n + 2 # L + 1
      BY <1>11
    <3>2. QED
      BY <1>1, <1>4, <3>1, Zenon DEF Implied
  <2>2. q \o (z \o g) = (q \o z) \o g
    BY SMTT(60)
  <2>3. G[1].bytes = (q \o z) \o G[n+2].bytes
    BY <1>8, <1>9, <2>1, <2>2, Zenon
  <2>4. n + 1 # L
    BY <1>11
  <2>5. QED
    BY <1>1, <1>3, <1>4, <1>5, <1>6, <2>3, <2>4, Zenon DEF Fits
<1>12. CASE n + 1 = L
  <2>1. Implied(t, n+2, long) = <<>>
    <3>1. n + 2 = L + 1
      BY <1>12
    <3>2. QED
      BY <1>1, <3>1, Zenon DEF Implied
  <2>2. G[n+2].bytes = <<>> /\ G[n+2].ok = TRUE
    <3>1. n + 2 = L + 1
      BY <1>12
    <3>2. G[Len(t)+1].bytes = <<>> /\ G[Len(t)+1].ok = TRUE
      BY <1>1, DecodingAt
    <3>3. QED
      BY <1>1, <3>1, <3>2, Zenon
  <2>3. G[1].bytes = q
    <3>1. <<>> \o <<>> = <<>> /\ q \o <<>> = q
      BY ConcatEmptySeq, EmptySeq
    <3>2. QED
      BY <1>8, <2>1, <2>2, <3>1, Zenon
  <2>4. Trimmed(q \o z) = q
    <3>1. CASE long
      <4>1. z = <<>> /\ q \o <<>> = q
        BY <1>4, <3>1, ConcatEmptySeq
      <4>2. Trimmed(q) = q
        BY <1>3, TrimmedByte
      <4>3. QED
        BY <4>1, <4>2, Zenon
    <3>2. CASE ~long
      <4>1. z = <<0>> /\ Append(q, 0) = q \o <<0>>
        BY <1>2, <1>4, <3>2, AppendIsConcat
      <4>2. Trimmed(Append(q, 0)) = q
        BY TrimmedZero
      <4>3. QED
        BY <4>1, <4>2, Zenon
    <3>3. QED
      BY <3>1, <3>2, Zenon
  <2>5. ~(n + 1 < L)
    BY <1>12
  <2>6. QED
    BY <1>1, <1>3, <1>4, <1>5, <1>6, <1>10, <1>12, <2>2, <2>3, <2>4, <2>5, Zenon DEF Fits
<1>13. n + 1 < L \/ n + 1 = L
  OBVIOUS
<1>14. QED
  BY <1>11, <1>12, <1>13, Zenon

\* More than MTU + 1 bytes are too many, whatever follows.
LEMMA FitsTooLong ==
  ASSUME NEW t, NEW G, NEW L \in Nat, Known(t, G, L), NEW n \in Nat, n <= L,
         NEW rem \in Nat, NEW pkt \in Seq(Bytes), NEW long,
         Fits(t, G, n, rem, pkt, long), Len(pkt) > MTU + 1
  PROVE  TooLong(G)
<1>1. t \in Seq(NonZero) /\ Decodes(G, t) /\ Len(t) = L
  BY DEF Known
<1>2. Len(pkt) \in Nat /\ MTU \in Nat
  BY DecoderAssumption, LenProperties
<1>3. SUFFICES ASSUME G[1].ok PROVE Len(G[1].bytes) > MTU
  <2>1. 1 \in 1..L+1
    OBVIOUS
  <2>2. G[1].bytes \in Seq(Bytes)
    BY <1>1, <2>1, DecodingAt
  <2>3. Len(G[1].bytes) \in Nat
    BY <2>2, LenProperties
  <2>4. QED
    BY <1>2, <2>3 DEF TooLong
<1>4. CASE rem > 0
  <2>1. n + rem <= L
    <3>1. ~(n + rem > L)
      BY <1>1, <1>3, <1>4, Zenon DEF Fits
    <3>2. QED
      BY <3>1
  <2>2. G[1].bytes = (pkt \o SubSeq(t, n+1, n+rem))
                          \o (Implied(t, n+rem+1, long) \o G[n+rem+1].bytes)
    BY <1>1, <1>4, <2>1, Zenon DEF Fits
  <2>3. /\ SubSeq(t, n+1, n+rem) \in Seq(Bytes) /\ Implied(t, n+rem+1, long) \in Seq(Bytes)
        /\ G[n+rem+1].bytes \in Seq(Bytes)
    <3>1. n + 1 \in 1..L+1 /\ n + rem + 1 \in n+1..L+1 /\ (n + rem + 1) - 1 = n + rem
      BY <1>4, <2>1
    <3>2. PICK e : e = n + rem + 1
      OBVIOUS
    <3>3. /\ SubSeq(t, n+1, e - 1) \in Seq(Bytes) /\ Implied(t, e, long) \in Seq(Bytes)
          /\ G[e].bytes \in Seq(Bytes)
      BY <3>1, <3>2, PiecesTyped
    <3>4. QED
      BY <3>1, <3>2, <3>3
  <2>4. PICK x \in Seq(Bytes), z \in Seq(Bytes), g \in Seq(Bytes) :
          G[1].bytes = (pkt \o x) \o (z \o g)
    BY <2>2, <2>3, Zenon
  <2>5. Len((pkt \o x) \o (z \o g)) >= Len(pkt)
    OBVIOUS
  <2>6. QED
    BY <1>2, <2>4, <2>5
<1>5. CASE rem = 0 /\ n < L
  <2>1. G[1].bytes = pkt \o G[n+1].bytes
    BY <1>1, <1>5, Zenon DEF Fits
  <2>2. PICK g \in Seq(Bytes) : g = G[n+1].bytes
    <3>1. n + 1 \in 1..L+1
      BY <1>5
    <3>2. QED
      BY <1>1, <3>1, DecodingAt
  <2>3. Len(pkt \o g) >= Len(pkt)
    OBVIOUS
  <2>4. QED
    BY <1>2, <2>1, <2>2, <2>3
<1>6. CASE rem = 0 /\ n = L
  <2>1. pkt # <<>>
    BY <1>2, EmptySeq
  <2>2. G[1].bytes = Trimmed(pkt)
    BY <1>1, <1>6, <2>1, Zenon DEF Fits
  <2>3. Trimmed(pkt) \in Seq(Bytes) /\ Len(Trimmed(pkt)) >= Len(pkt) - 1
    BY <2>1, TrimmedLength
  <2>4. Len(Trimmed(pkt)) \in Nat
    BY <2>3, LenProperties
  <2>5. QED
    BY <1>2, <2>2, <2>3, <2>4
<1>7. QED
  BY <1>4, <1>5, <1>6

\* A string that goes on after s goes on after a shorter one.
LEMMA Longer ==
  ASSUME NEW s \in Seq(NonZero), NEW b \in NonZero, NEW t, Extends(t, Append(s, b))
  PROVE  /\ Extends(t, s) /\ Len(s) < Len(t) /\ t[Len(s)+1] = b
         /\ Len(Append(s, b)) = Len(s) + 1
<1>1. PICK u \in Seq(NonZero) : u = Append(s, b)
  BY AppendProperties
<1>2. Len(u) = Len(s) + 1 /\ (\A i \in 1..Len(s) : u[i] = s[i]) /\ u[Len(s)+1] = b
  BY <1>1, AppendProperties
<1>3. Len(s) \in Nat
  BY LenProperties
<1>4. t \in Seq(NonZero) /\ Len(t) >= Len(u) /\ \A i \in 1..Len(u) : t[i] = u[i]
  BY <1>1 DEF Extends
<1>5. Len(t) \in Nat
  BY <1>4, LenProperties
<1>6. Len(s) + 1 \in 1..Len(u) /\ \A i \in 1..Len(s) : i \in 1..Len(u)
  BY <1>2, <1>3
<1>7. t[Len(s)+1] = b /\ \A i \in 1..Len(s) : t[i] = s[i]
  BY <1>2, <1>4, <1>6
<1>8. Len(t) >= Len(s) /\ Len(s) < Len(t)
  BY <1>2, <1>3, <1>4, <1>5
<1>9. QED
  BY <1>1, <1>2, <1>4, <1>7, <1>8, Zenon DEF Extends

\* What a byte does to what the decoder holds, told for one string and its decoding, for
\* all of them.
Follows(s, b, st, rem, pkt, st2, rem2, pkt2) ==
  \A t, G, L : Known(t, G, L) /\ Len(s) < L /\ Holds(t, Len(s) + 1, b)
                 /\ Fits(t, G, Len(s), rem, pkt, st = "CASE255")
                => Fits(t, G, Len(s) + 1, rem2, pkt2, st2 = "CASE255")

\* A byte that does so keeps the promise.
LEMMA Grown ==
  ASSUME NEW s \in Seq(NonZero), NEW b \in NonZero, NEW st, NEW rem, NEW pkt,
         NEW st2, NEW rem2, NEW pkt2, st # "PACKET_TOO_LONG", st2 # "PACKET_TOO_LONG",
         Promise(s, st, rem, pkt), Follows(s, b, st, rem, pkt, st2, rem2, pkt2)
  PROVE  Promise(Append(s, b), st2, rem2, pkt2)
<1>1. ASSUME NEW t, NEW G, Extends(t, Append(s, b)), Decodes(G, t)
      PROVE  Fits(t, G, Len(Append(s, b)), rem2, pkt2, st2 = "CASE255")
  <2>1. Extends(t, s) /\ Len(s) < Len(t) /\ t[Len(s)+1] = b /\ Len(Append(s, b)) = Len(s) + 1
    BY <1>1, Longer
  <2>2. Fits(t, G, Len(s), rem, pkt, st = "CASE255")
    BY <1>1, <2>1, Zenon DEF Promise
  <2>3. Known(t, G, Len(t)) /\ Holds(t, Len(s) + 1, b)
    <3>1. t \in Seq(NonZero)
      BY <2>1 DEF Extends
    <3>2. Len(t) \in Nat /\ b \in Nat
      BY <3>1, LenProperties DEF NonZero
    <3>3. QED
      BY <1>1, <2>1, <3>1, <3>2, Zenon DEF Known, Holds
  <2>4. QED
    BY <2>1, <2>2, <2>3, Zenon DEF Follows
<1>2. QED
  BY <1>1, Zenon DEF Promise

\* One byte after another.
LEMMA DataFollows ==
  ASSUME NEW s \in Seq(NonZero), NEW b \in NonZero, NEW st, NEW rem \in Nat, rem > 1,
         NEW pkt \in Seq(Bytes)
  PROVE  Follows(s, b, st, rem, pkt, st, rem - 1, Append(pkt, b))
<1>1. PICK n \in Nat : n = Len(s)
  BY LenProperties
<1>2. PICK long : long = (st = "CASE255")
  OBVIOUS
<1>3. ASSUME NEW t, NEW G, NEW L, Known(t, G, L), n < L, Holds(t, n + 1, b),
             Fits(t, G, n, rem, pkt, long)
      PROVE  Fits(t, G, n + 1, rem - 1, Append(pkt, b), long)
  <2>1. L \in Nat /\ b \in Nat
    BY <1>3 DEF Known, Holds
  <2>2. QED
    BY <1>3, <2>1, FitsData
<1>4. QED
  BY <1>1, <1>2, <1>3, Zenon DEF Follows

\* So does the last byte of a block.
LEMMA LastFollows ==
  ASSUME NEW s \in Seq(NonZero), NEW b \in NonZero, NEW st, NEW pkt \in Seq(Bytes)
  PROVE  Follows(s, b, st, 1, pkt, "CHUNK", 0, Append(pkt, b) \o ImpliedZero(st))
<1>1. PICK n \in Nat : n = Len(s)
  BY LenProperties
<1>2. PICK long \in BOOLEAN : long = (st = "CASE255")
  OBVIOUS
<1>3. ("CHUNK" = "CASE255") = FALSE
  OBVIOUS
<1>4. ImpliedZero(st) = IF long THEN <<>> ELSE <<0>>
  BY <1>2, Zenon DEF ImpliedZero
<1>5. ASSUME NEW t, NEW G, NEW L, Known(t, G, L), n < L, Holds(t, n + 1, b),
             Fits(t, G, n, 1, pkt, long)
      PROVE  Fits(t, G, n + 1, 0, Append(pkt, b) \o (IF long THEN <<>> ELSE <<0>>), FALSE)
  <2>1. L \in Nat
    BY <1>5 DEF Known
  <2>2. QED
    BY <1>5, <2>1, FitsLast
<1>6. QED
  BY <1>1, <1>2, <1>3, <1>4, <1>5, Zenon DEF Follows

\* So does a code byte other than 1.
LEMMA CodeFollows ==
  ASSUME NEW s \in Seq(NonZero), NEW b \in NonZero, b # 1, NEW st, NEW st2,
         NEW pkt \in Seq(Bytes), st2 = (IF b = MaxCode THEN "CASE255" ELSE "CHUNK")
  PROVE  Follows(s, b, st, 0, pkt, st2, b - 1, pkt)
<1>1. PICK n \in Nat : n = Len(s)
  BY LenProperties
<1>2. PICK long : long = (st = "CASE255")
  OBVIOUS
<1>3. (st2 = "CASE255") = (b = MaxCode)
  OBVIOUS
<1>4. b \in Nat /\ b > 1
  BY DecoderAssumption DEF NonZero
<1>5. ASSUME NEW t, NEW G, NEW L, Known(t, G, L), n < L, Holds(t, n + 1, b),
             Fits(t, G, n, 0, pkt, long)
      PROVE  Fits(t, G, n + 1, b - 1, pkt, b = MaxCode)
  <2>1. L \in Nat
    BY <1>5 DEF Known
  <2>2. QED
    BY <1>4, <1>5, <2>1, FitsCode
<1>6. QED
  BY <1>1, <1>2, <1>3, <1>5, Zenon DEF Follows

\* So does the code byte 1.
LEMMA OneFollows ==
  ASSUME NEW s \in Seq(NonZero), NEW st, NEW pkt \in Seq(Bytes)
  PROVE  Follows(s, 1, st, 0, pkt, "RESET", 0, Append(pkt, 0))
<1>1. PICK n \in Nat : n = Len(s)
  BY LenProperties
<1>2. PICK long : long = (st = "CASE255")
  OBVIOUS
<1>3. ("RESET" = "CASE255") = FALSE
  OBVIOUS
<1>4. ASSUME NEW t, NEW G, NEW L, Known(t, G, L), n < L, Holds(t, n + 1, 1),
             Fits(t, G, n, 0, pkt, long)
      PROVE  Fits(t, G, n + 1, 0, Append(pkt, 0), FALSE)
  <2>1. L \in Nat
    BY <1>4 DEF Known
  <2>2. QED
    BY <1>4, <2>1, FitsOne
<1>5. QED
  BY <1>1, <1>2, <1>3, <1>4, Zenon DEF Follows

\* The check at the end of an iteration.
LEMMA PromiseLimited ==
  ASSUME NEW s \in Seq(NonZero), NEW st, NEW rem \in Nat, NEW pkt \in Seq(Bytes),
         st # "PACKET_TOO_LONG", Promise(s, st, rem, pkt)
  PROVE  Promise(s, Limit(st, pkt), rem, pkt)
<1>1. CASE ~(Len(pkt) > MTU + 1)
  <2>1. Limit(st, pkt) = st
    BY <1>1 DEF Limit
  <2>2. QED
    BY <2>1, Zenon
<1>2. CASE Len(pkt) > MTU + 1
  <2>1. Limit(st, pkt) = "PACKET_TOO_LONG"
    BY <1>2 DEF Limit
  <2>2. PICK long : long = (st = "CASE255")
    OBVIOUS
  <2>3. ASSUME NEW t, NEW G, Extends(t, s), Decodes(G, t) PROVE TooLong(G)
    <3>1. Fits(t, G, Len(s), rem, pkt, long)
      BY <2>2, <2>3, Zenon DEF Promise
    <3>2. PICK n \in Nat, L \in Nat : n = Len(s) /\ L = Len(t) /\ n <= L
      BY <2>3, LenProperties DEF Extends
    <3>3. Known(t, G, L)
      BY <2>3, <3>2 DEF Known, Extends
    <3>4. Fits(t, G, n, rem, pkt, long)
      BY <3>1, <3>2, Zenon
    <3>5. QED
      BY <1>2, <3>2, <3>3, <3>4, FitsTooLong
  <2>4. QED
    BY <2>1, <2>3, Zenon DEF Promise
<1>3. QED
  BY <1>1, <1>2

\* Before the first byte.
LEMMA PromiseInit == Promise(<<>>, "RESET", 0, <<>>)
<1>1. ("RESET" = "CASE255") = FALSE /\ "RESET" # "PACKET_TOO_LONG"
  OBVIOUS
<1>2. ASSUME NEW t, NEW G, Extends(t, <<>>), Decodes(G, t) PROVE Fits(t, G, 0, 0, <<>>, FALSE)
  <2>1. t \in Seq(NonZero) /\ Len(t) \in Nat
    BY <1>2, LenProperties DEF Extends
  <2>2. 1 \in 1..Len(t)+1 /\ 0 + 1 = 1 /\ ~(0 > 0)
    BY <2>1
  <2>3. G[1].bytes \in Seq(Bytes)
    BY <1>2, <2>1, <2>2, DecodingAt
  <2>4. G[1].bytes = <<>> \o G[1].bytes
    BY <2>3, ConcatEmptySeq
  <2>5. Len(t) = 0 => G[1].ok = TRUE /\ G[1].bytes = <<>>
    <3>1. Len(t) = 0 => Len(t) + 1 = 1
      OBVIOUS
    <3>2. G[Len(t)+1].ok = TRUE /\ G[Len(t)+1].bytes = <<>>
      BY <1>2, <2>1, DecodingAt
    <3>3. QED
      BY <3>1, <3>2, Zenon
  <2>6. QED
    BY <2>2, <2>4, <2>5, Zenon DEF Fits
<1>3. Len(<<>>) = 0
  OBVIOUS
<1>4. QED
  BY <1>1, <1>2, <1>3, Zenon DEF Promise

\* Once the packet is known to be too long, no byte of it changes that.
LEMMA PromiseSkips ==
  ASSUME NEW s \in Seq(NonZero), NEW b \in NonZero, NEW rem, NEW pkt,
         Promise(s, "PACKET_TOO_LONG", rem, pkt)
  PROVE  Promise(Append(s, b), "PACKET_TOO_LONG", rem, pkt)
<1>1. ASSUME NEW t, NEW G, Extends(t, Append(s, b)), Decodes(G, t) PROVE TooLong(G)
  <2>1. Extends(t, s)
    BY <1>1, Longer
  <2>2. QED
    BY <1>1, <2>1, Zenon DEF Promise
<1>2. QED
  BY <1>1, Zenon DEF Promise

\* What the decoder submits for what it holds when a delimiter arrives.
Verdict(st, rem, pkt) ==
  IF st = "PACKET_TOO_LONG" \/ rem > 0 \/ pkt = <<>> THEN NoPacket
  ELSE Submitted(Trimmed(pkt))

\* What the decoder submits at a delimiter is what decoding the whole string yields.
LEMMA VerdictIsDelivered ==
  ASSUME NEW s \in Seq(NonZero), NEW st, NEW rem \in Nat, NEW pkt \in Seq(Bytes),
         Promise(s, st, rem, pkt)
  PROVE  Stream!Delivered(s) = Verdict(st, rem, pkt)
<1>1. PICK G : Decodes(G, s) /\ Stream!Decode(s) = G[1]
  BY DecodeIs
<1>2. PICK n \in Nat : n = Len(s)
  BY LenProperties
<1>3. 1 \in 1..n+1
  OBVIOUS
<1>4. G[1] \in Result
  BY <1>1, <1>2, <1>3 DEF Decodes
<1>5. PICK ok \in BOOLEAN, bytes \in Seq(Bytes) : G[1].ok = ok /\ G[1].bytes = bytes
  BY <1>4 DEF Result
<1>6. Len(bytes) \in Nat
  BY LenProperties
<1>7. Stream!Delivered(s) = IF ok /\ Len(bytes) \in MinLen..MTU THEN bytes ELSE <<>>
  BY <1>1, <1>5, Zenon DEF Stream!Delivered, Stream!Acceptable, Stream!NoPacket
<1>8. Extends(s, s)
  BY <1>2 DEF Extends
<1>9. CASE st = "PACKET_TOO_LONG"
  <2>1. TooLong(G)
    BY <1>1, <1>8, <1>9, Zenon DEF Promise
  <2>2. ~(ok /\ Len(bytes) <= MTU)
    BY <1>5, <2>1, Zenon DEF TooLong
  <2>3. ~(ok /\ Len(bytes) \in MinLen..MTU)
    BY <2>2, <1>6, DecoderAssumption
  <2>4. QED
    BY <1>7, <1>9, <2>3, Zenon DEF Verdict, NoPacket
<1>10. CASE st # "PACKET_TOO_LONG"
  <2>1. PICK long : long = (st = "CASE255")
    OBVIOUS
  <2>2. Fits(s, G, n, rem, pkt, long)
    BY <1>1, <1>2, <1>8, <1>10, <2>1, Zenon DEF Promise
  <2>3. CASE rem > 0
    <3>1. n + rem > Len(s)
      BY <1>2, <2>3
    <3>2. ~G[1].ok
      BY <2>2, <2>3, <3>1, Zenon DEF Fits
    <3>3. QED
      BY <1>5, <1>7, <2>3, <3>2, Zenon DEF Verdict, NoPacket
  <2>4. CASE ~(rem > 0)
    <3>1. rem = 0
      BY <2>4
    <3>2. /\ G[1].ok = TRUE
          /\ pkt = <<>> => G[1].bytes = <<>>
          /\ pkt # <<>> => G[1].bytes = Trimmed(pkt)
      BY <1>2, <2>2, <3>1, Zenon DEF Fits
    <3>3. ok = TRUE
      BY <1>5, <3>2, Zenon
    <3>4. CASE pkt = <<>>
      <4>1. bytes = <<>>
        BY <1>5, <3>2, <3>4, Zenon
      <4>2. ~(Len(bytes) \in MinLen..MTU)
        BY <4>1, DecoderAssumption
      <4>3. QED
        BY <1>7, <3>4, <4>2, Zenon DEF Verdict, NoPacket
    <3>5. CASE pkt # <<>>
      <4>1. bytes = Trimmed(pkt)
        BY <1>5, <3>2, <3>5, Zenon
      <4>2. Verdict(st, rem, pkt) = Submitted(bytes)
        BY <1>10, <2>4, <3>5, <4>1, Zenon DEF Verdict
      <4>3. ok
        BY <3>3
      <4>4. Stream!Delivered(s) = IF Len(bytes) \in MinLen..MTU THEN bytes ELSE <<>>
        BY <1>7, <4>3, Zenon
      <4>5. QED
        BY <4>2, <4>4, Zenon DEF Submitted, NoPacket
    <3>6. QED
      BY <3>4, <3>5, Zenon
  <2>5. QED
    BY <2>3, <2>4, Zenon
<1>11. QED
  BY <1>9, <1>10, Zenon

-----------------------------------------------------------------------------
\* After a delimiter or reset() there is nothing to hold.
LEMMA ResetPromises ==
  ASSUME ResetDecoder
  PROVE  Promise(<<>>, state', remaining', packet')
BY PromiseInit DEF ResetDecoder

\* What Grow leaves keeps the promise, when what the byte makes of the packet does.
LEMMA GrowPromises ==
  ASSUME NEW s \in Seq(NonZero), Promise(s, state, remaining, packet),
         NEW b \in NonZero, state # "PACKET_TOO_LONG",
         NEW st \in {"RESET", "CHUNK", "CASE255"}, NEW rem \in Nat, NEW pkt \in Seq(Bytes),
         Follows(s, b, state, remaining, packet, st, rem, pkt),
         Grow(st, rem, pkt)
  PROVE  Promise(Append(s, b), state', remaining', packet')
<1>1. PICK st0, rem0, pkt0 : st0 = state /\ rem0 = remaining /\ pkt0 = packet
  OBVIOUS
<1>2. Promise(s, st0, rem0, pkt0) /\ Follows(s, b, st0, rem0, pkt0, st, rem, pkt)
  BY <1>1, Zenon
<1>3. st # "PACKET_TOO_LONG" /\ st0 # "PACKET_TOO_LONG"
  BY <1>1
<1>4. Promise(Append(s, b), st, rem, pkt)
  BY <1>2, <1>3, Grown
<1>5. PICK u \in Seq(NonZero) : u = Append(s, b)
  BY AppendProperties
<1>6. Promise(u, Limit(st, pkt), rem, pkt)
  BY <1>3, <1>4, <1>5, PromiseLimited
<1>7. state' = Limit(st, pkt) /\ remaining' = rem /\ packet' = pkt
  BY Zenon DEF Grow
<1>8. QED
  BY <1>5, <1>6, <1>7, Zenon

\* A byte of the stream that is no delimiter.
LEMMA ByteKeepsPromise ==
  ASSUME IInv, NEW s \in Seq(NonZero), Promise(s, state, remaining, packet),
         NEW b \in NonZero, Receive(b)
  PROVE  Promise(Append(s, b), state', remaining', packet')
<1>1. b \in Bytes /\ b # 0 /\ b \in Nat
  BY DecoderAssumption DEF NonZero, Bytes
<1>2. /\ state \in States /\ remaining \in 0..MaxCode-1 /\ packet \in Seq(Bytes)
      /\ StateCoherent
  BY DEF IInv, TypeOK
<1>3. PICK pkt \in Seq(Bytes) : pkt = packet
  BY <1>2
<1>4. CASE SkipByte(b)
  <2>1. PICK rem : rem = remaining
    OBVIOUS
  <2>2. Promise(s, "PACKET_TOO_LONG", rem, pkt)
    BY <1>3, <1>4, <2>1 DEF SkipByte
  <2>3. Promise(Append(s, b), "PACKET_TOO_LONG", rem, pkt)
    BY <2>2, PromiseSkips
  <2>4. state' = "PACKET_TOO_LONG" /\ remaining' = rem /\ packet' = pkt
    BY <1>3, <1>4, <2>1 DEF SkipByte
  <2>5. QED
    BY <2>3, <2>4, Zenon
<1>5. CASE DataByte(b)
  <2>2. PICK rem \in Nat : rem = remaining
    BY <1>2, DecoderAssumption
  <2>3. state \in {"CHUNK", "CASE255"} /\ rem > 0 /\ state # "PACKET_TOO_LONG"
    BY <1>2, <1>5, <2>2 DEF DataByte, StateCoherent, States
  <2>4. PICK st \in {"CHUNK", "CASE255"} : st = state
    BY <2>3
  <2>5. CASE rem = 1
    <3>1. PICK pkt2 : pkt2 = Append(pkt, b) \o ImpliedZero(st)
      OBVIOUS
    <3>2. pkt2 \in Seq(Bytes)
      <4>1. 0 \in Bytes
        BY DecoderAssumption DEF Bytes
      <4>2. ImpliedZero(st) \in Seq(Bytes)
        BY <4>1 DEF ImpliedZero
      <4>3. Append(pkt, b) \in Seq(Bytes)
        BY <1>1, AppendProperties
      <4>4. QED
        BY <3>1, <4>2, <4>3, ConcatProperties
    <3>3. Follows(s, b, st, 1, pkt, "CHUNK", 0, pkt2)
      BY <3>1, LastFollows
    <3>4. Follows(s, b, state, remaining, packet, "CHUNK", 0, pkt2)
      BY <1>3, <2>2, <2>4, <2>5, <3>3, Zenon
    <3>5. Grow("CHUNK", 0, pkt2)
      BY <1>3, <1>5, <2>2, <2>4, <2>5, <3>1 DEF DataByte
    <3>6. "CHUNK" \in {"RESET", "CHUNK", "CASE255"} /\ 0 \in Nat
      OBVIOUS
    <3>7. QED
      BY <2>3, <3>2, <3>4, <3>5, <3>6, GrowPromises
  <2>6. CASE rem # 1
    <3>1. rem > 1 /\ rem - 1 \in Nat
      BY <2>2, <2>3, <2>6
    <3>2. Append(pkt, b) \in Seq(Bytes)
      BY <1>1, AppendProperties
    <3>3. Follows(s, b, st, rem, pkt, st, rem - 1, Append(pkt, b))
      BY <3>1, DataFollows
    <3>4. Follows(s, b, state, remaining, packet, st, rem - 1, Append(pkt, b))
      BY <1>3, <2>2, <2>4, <3>3, Zenon
    <3>5. Grow(st, rem - 1, Append(pkt, b))
      BY <1>3, <1>5, <2>2, <2>4, <2>6 DEF DataByte
    <3>6. st \in {"RESET", "CHUNK", "CASE255"}
      BY <2>4
    <3>7. QED
      BY <2>3, <3>1, <3>2, <3>4, <3>5, <3>6, GrowPromises
  <2>7. QED
    BY <2>5, <2>6
<1>6. CASE LongCode(b) \/ ShortCode(b)
  <2>2. state # "PACKET_TOO_LONG" /\ remaining = 0
    BY <1>6 DEF LongCode, ShortCode
  <2>3. PICK st0 : st0 = state
    OBVIOUS
  <2>4. CASE b = 1
    <3>1. Grow("RESET", 0, Append(pkt, 0))
      BY <1>3, <1>6, <2>4, DecoderAssumption DEF LongCode, ShortCode
    <3>2. Follows(s, 1, st0, 0, pkt, "RESET", 0, Append(pkt, 0))
      BY OneFollows
    <3>3. Follows(s, b, state, remaining, packet, "RESET", 0, Append(pkt, 0))
      BY <1>3, <2>2, <2>3, <2>4, <3>2, Zenon
    <3>4. 0 \in Bytes /\ "RESET" \in {"RESET", "CHUNK", "CASE255"} /\ 0 \in Nat
      BY DecoderAssumption DEF Bytes
    <3>5. Append(pkt, 0) \in Seq(Bytes)
      BY <3>4, AppendProperties
    <3>6. QED
      BY <2>2, <3>1, <3>3, <3>4, <3>5, GrowPromises
  <2>5. CASE b # 1
    <3>1. PICK st2 : st2 = IF b = MaxCode THEN "CASE255" ELSE "CHUNK"
      OBVIOUS
    <3>2. Grow(st2, b - 1, pkt)
      BY <1>1, <1>3, <1>6, <2>5, <3>1 DEF LongCode, ShortCode
    <3>3. Follows(s, b, st0, 0, pkt, st2, b - 1, pkt)
      BY <2>5, <3>1, CodeFollows
    <3>4. Follows(s, b, state, remaining, packet, st2, b - 1, pkt)
      BY <1>3, <2>2, <2>3, <3>3, Zenon
    <3>5. st2 \in {"RESET", "CHUNK", "CASE255"} /\ b - 1 \in Nat
      BY <1>1, <3>1
    <3>6. QED
      BY <2>2, <3>2, <3>4, <3>5, GrowPromises
  <2>6. QED
    BY <2>4, <2>5
<1>7. ~(EndOfLongPacket(b) \/ UnexpectedZero(b) \/ EndOfPacket(b) \/ Filler(b))
  BY <1>1 DEF EndOfLongPacket, UnexpectedZero, EndOfPacket, Filler
<1>8. QED
  BY <1>4, <1>5, <1>6, <1>7, Zenon DEF Receive

\* A delimiter submits what decoding the whole string yields, and leaves nothing behind.
LEMMA DelimiterDelivers ==
  ASSUME IInv, NEW s \in Seq(NonZero), Promise(s, state, remaining, packet), Receive(0)
  PROVE  ResetDecoder /\ out' = Stream!Delivered(s)
<1>1. /\ state \in States /\ remaining \in 0..MaxCode-1 /\ packet \in Seq(Bytes)
      /\ StateCoherent
  BY DEF IInv, TypeOK
<1>3. PICK rem \in Nat : rem = remaining
  BY <1>1, DecoderAssumption
<1>4. PICK pkt \in Seq(Bytes) : pkt = packet
  BY <1>1
<1>5. PICK st : st = state
  OBVIOUS
<1>6. Promise(s, st, rem, pkt)
  BY <1>3, <1>4, <1>5, Zenon
<1>7. Stream!Delivered(s) = Verdict(st, rem, pkt)
  BY <1>6, VerdictIsDelivered
<1>8. ~(SkipByte(0) \/ DataByte(0) \/ LongCode(0) \/ ShortCode(0))
  BY DecoderAssumption DEF SkipByte, DataByte, LongCode, ShortCode
<1>9. /\ ResetDecoder
      /\ out' = Verdict(st, rem, pkt)
  <2>1. CASE EndOfLongPacket(0)
    BY <1>5, <2>1 DEF EndOfLongPacket, Verdict
  <2>2. CASE UnexpectedZero(0)
    BY <1>3, <2>2 DEF UnexpectedZero, Verdict
  <2>3. CASE EndOfPacket(0)
    <3>1. ResetDecoder /\ out' = Submitted(Trimmed(pkt))
      BY <1>4, <2>3, Zenon DEF EndOfPacket
    <3>2. ~(st = "PACKET_TOO_LONG" \/ rem > 0 \/ pkt = <<>>)
      BY <1>3, <1>4, <1>5, <2>3 DEF EndOfPacket
    <3>3. QED
      BY <3>1, <3>2, Zenon DEF Verdict
  <2>4. CASE Filler(0)
    <3>1. state = "RESET"
      BY <1>1, <2>4 DEF Filler, StateCoherent, States
    <3>2. ResetDecoder /\ out' = NoPacket
      BY <2>4, <3>1 DEF Filler, ResetDecoder
    <3>3. pkt = <<>>
      BY <1>4, <2>4 DEF Filler
    <3>4. QED
      BY <3>2, <3>3, Zenon DEF Verdict
  <2>5. QED
    BY <1>8, <2>1, <2>2, <2>3, <2>4, Zenon DEF Receive
<1>10. QED
  BY <1>7, <1>9, Zenon

\* The steps of the decoder with its history are steps of the decoder.
LEMMA HistoryIsNoHindrance ==
  ASSUME [HNext]_rvars PROVE [Next]_dvars
<1>1. CASE HRestart
  BY <1>1, Zenon DEF HRestart, Next
<1>2. CASE \E byte \in Bytes : HReceive(byte)
  BY <1>2, Zenon DEF HReceive, Next
<1>3. CASE UNCHANGED rvars
  BY <1>3 DEF rvars
<1>4. QED
  BY <1>1, <1>2, <1>3, Zenon DEF HNext

\* The bytes that are no delimiters.
LEMMA NonZeroBytes == NonZero = Bytes \ {0}
  BY DecoderAssumption DEF NonZero, Bytes

\* The inductive invariant of the refinement: the decoder holds what the bytes received
\* since the last delimiter promise.
Promised == Promise(raw, state, remaining, packet)
HInv == IInv /\ raw \in Seq(NonZero) /\ Promised

\* What a byte of the stream does to the invariant, and what a delimiter delivers.
LEMMA StreamStep ==
  ASSUME HInv, NEW byte \in Bytes, HReceive(byte)
  PROVE  /\ raw' \in Seq(NonZero) /\ Promised'
         /\ byte = 0 => out' = Stream!Delivered(raw)
<1>1. PICK s \in Seq(NonZero) : s = raw
  BY DEF HInv
<1>2. IInv /\ Promise(s, state, remaining, packet) /\ Receive(byte)
  BY <1>1, Zenon DEF HInv, Promised, HReceive
<1>3. CASE byte = 0
  <2>1. Receive(0)
    BY <1>2, <1>3
  <2>2. ResetDecoder /\ out' = Stream!Delivered(s)
    BY <1>2, <2>1, DelimiterDelivers
  <2>3. raw' = <<>>
    BY <1>3 DEF HReceive
  <2>4. Promise(raw', state', remaining', packet')
    BY <2>2, <2>3, ResetPromises, Zenon
  <2>5. QED
    BY <1>1, <2>2, <2>3, <2>4 DEF Promised
<1>4. CASE byte # 0
  <2>1. byte \in NonZero
    BY <1>4, NonZeroBytes
  <2>2. Promise(Append(s, byte), state', remaining', packet')
    BY <1>2, <2>1, ByteKeepsPromise
  <2>3. raw' = Append(s, byte)
    BY <1>1, <1>4 DEF HReceive
  <2>4. raw' \in Seq(NonZero)
    BY <2>1, <2>3, AppendProperties
  <2>5. Promise(raw', state', remaining', packet')
    BY <2>2, <2>3, Zenon
  <2>6. QED
    BY <1>4, <2>4, <2>5 DEF Promised
<1>5. QED
  BY <1>3, <1>4

\* The decoder keeps its promise in every reachable state.
THEOREM PromiseKept == HSpec => []HInv
<1>1. HInit => raw \in Seq(NonZero) /\ Promised
  <2> SUFFICES ASSUME HInit PROVE raw \in Seq(NonZero) /\ Promised
    OBVIOUS
  <2>1. Promise(raw, state, remaining, packet)
    BY PromiseInit DEF HInit, Init, IsReset
  <2>2. QED
    BY <2>1 DEF HInit, Promised
<1>2. HSpec => []IInv
  <2>1. HInit => Init
    BY DEF HInit
  <2>2. [HNext]_rvars => [Next]_dvars
    BY HistoryIsNoHindrance
  <2>3. QED
    BY <2>1, <2>2, InvariantHolds, PTL DEF HSpec, Spec
<1>3. HInv /\ [HNext]_rvars => (raw \in Seq(NonZero) /\ Promised)'
  <2> SUFFICES ASSUME HInv, [HNext]_rvars PROVE raw' \in Seq(NonZero) /\ Promised'
    OBVIOUS
  <2>1. CASE HRestart
    <3>1. ResetDecoder /\ raw' = <<>>
      BY <2>1 DEF HRestart, Restart
    <3>2. Promise(raw', state', remaining', packet')
      BY <3>1, ResetPromises, Zenon
    <3>3. QED
      BY <3>1, <3>2 DEF Promised
  <2>2. ASSUME NEW byte \in Bytes, HReceive(byte) PROVE raw' \in Seq(NonZero) /\ Promised'
    BY <2>2, StreamStep
  <2>3. CASE UNCHANGED rvars
    BY <2>3 DEF HInv, Promised, rvars, dvars
  <2>4. QED
    BY <2>1, <2>2, <2>3 DEF HNext
<1>4. QED
  BY <1>1, <1>2, <1>3, PTL DEF HSpec, HInv

\* Every delimiter delivers what decoding the string it ends yields.
THEOREM EveryPacketDelivered ==
  HSpec => [][HReceive(0) => out' = Stream!Delivered(raw)]_rvars
<1>1. ASSUME HInv, HReceive(0) PROVE out' = Stream!Delivered(raw)
  <2>1. 0 \in Bytes
    BY DecoderAssumption DEF Bytes
  <2>2. QED
    BY <1>1, <2>1, StreamStep
<1>2. HInv /\ [HNext]_rvars => [HReceive(0) => out' = Stream!Delivered(raw)]_rvars
  BY <1>1
<1>3. QED
  BY <1>2, PromiseKept, PTL DEF HSpec

\* The incremental decoder implements decoding each string as a whole.
THEOREM StreamImplemented == HSpec => DecodesTheStream
<1>1. HInit => Stream!Init
  BY Zenon DEF HInit, Init, NoPacket, Stream!Init, Stream!NoPacket
<1>2. HInv /\ [HNext]_rvars => [Stream!Next]_(Stream!vars)
  <2> SUFFICES ASSUME HInv, [HNext]_rvars PROVE [Stream!Next]_(Stream!vars)
    OBVIOUS
  <2>1. CASE HRestart
    <3>1. Stream!Restart
      BY <2>1, Zenon DEF HRestart, Restart, NoPacket, Stream!Restart, Stream!NoPacket
    <3>2. QED
      BY <3>1, Zenon DEF Stream!Next
  <2>2. ASSUME NEW byte \in Bytes, HReceive(byte) PROVE Stream!Next
    <3>1. CASE byte = 0
      <4>1. Receive(0) /\ raw' = <<>>
        BY <2>2, <3>1 DEF HReceive
      <4>2. out' = Stream!Delivered(raw)
        BY <2>2, <3>1, StreamStep
      <4>3. QED
        BY <4>1, <4>2, Zenon DEF Stream!Next, Stream!Delimiter
    <3>2. CASE byte # 0
      <4>1. Receive(byte) /\ raw' = Append(raw, byte)
        BY <2>2, <3>2 DEF HReceive
      <4>2. out' = <<>>
        BY <3>2, <4>1, Zenon DEF Receive, SkipByte, EndOfLongPacket, UnexpectedZero, EndOfPacket,
                 Filler, DataByte, LongCode, ShortCode, Grow, NoPacket
      <4>3. Stream!Data(byte)
        BY <3>2, <4>1, <4>2, Zenon DEF Stream!Data, Stream!NoPacket
      <4>4. byte \in Stream!Bytes
        BY DEF Bytes, Stream!Bytes
      <4>5. QED
        BY <4>3, <4>4, Zenon DEF Stream!Next
    <3>3. QED
      BY <3>1, <3>2, Zenon
  <2>3. CASE UNCHANGED rvars
    BY <2>3 DEF rvars, dvars, Stream!vars
  <2>4. QED
    BY <2>1, <2>2, <2>3, Zenon DEF HNext
<1>3. QED
  BY <1>1, <1>2, PromiseKept, PTL DEF HSpec, DecodesTheStream, Stream!Spec

-----------------------------------------------------------------------------
(***************************************************************************)
(* Strings of whole blocks                                                 *)
(***************************************************************************)

\* A packet that ends in data is not trimmed.
LEMMA TrimmedData ==
  ASSUME NEW p \in Seq(Bytes), NEW d \in Seq(NonZero), d # <<>>
  PROVE  Trimmed(p \o d) = p \o d /\ p \o d # <<>>
<1>1. PICK e \in Seq(NonZero), x \in NonZero : d = Append(e, x)
  BY SequenceEmptyOrAppend
<1>2. NonZero \subseteq Bytes
  BY NonZeroBytes
<1>3. e \in Seq(Bytes) /\ d \in Seq(Bytes) /\ x \in Bytes
  BY <1>2, SeqMonotonic
<1>4. PICK q \in Seq(Bytes) : q = p \o e
  BY <1>3, ConcatProperties
<1>5. p \o Append(e, x) = Append(p \o e, x)
  <2>1. Append(e, x) = e \o <<x>> /\ Append(q, x) = q \o <<x>>
    BY <1>3, AppendIsConcat
  <2>2. <<x>> \in Seq(Bytes)
    BY <1>3
  <2>3. (p \o e) \o <<x>> = p \o (e \o <<x>>)
    BY <1>3, <2>2, ConcatAssociative
  <2>4. QED
    BY <1>4, <2>1, <2>3, Zenon
<1>6. Trimmed(Append(q, x)) = Append(q, x) /\ Append(q, x) # <<>>
  BY TrimmedByte
<1>7. QED
  BY <1>1, <1>4, <1>5, <1>6, Zenon

\* The zero that a complete block implies when another one follows it.
BlockZero(c) == IF c = MaxCode THEN <<>> ELSE <<0>>

\* It is a string of bytes.
LEMMA BlockZeroType == ASSUME NEW c PROVE BlockZero(c) \in Seq(Bytes)
<1>1. 0 \in Bytes
  BY DecoderAssumption DEF Bytes
<1>2. <<>> \in Seq(Bytes) /\ <<0>> \in Seq(Bytes)
  BY <1>1
<1>3. QED
  BY <1>2, Zenon DEF BlockZero

\* A whole block of a string, taken at once.
LEMMA FitsBlock ==
  ASSUME NEW t, NEW G, NEW L \in Nat, Known(t, G, L), NEW n \in Nat, n < L,
         NEW pkt \in Seq(Bytes), Fits(t, G, n, 0, pkt, FALSE),
         NEW c \in Nat, Holds(t, n + 1, c), c >= 1, n + c <= L,
         NEW d \in Seq(NonZero), SubSeq(t, n+2, n+c) = d, c = MaxCode => d # <<>>
  PROVE  Fits(t, G, n + c, 0, (pkt \o d) \o BlockZero(c), FALSE)
<1>1. t \in Seq(NonZero) /\ Decodes(G, t) /\ Len(t) = L
  BY DEF Known
<1>2. Continues(t, G, n, pkt, c)
  BY FitsCodeBlock
<1>3. PICK q \in Seq(Bytes) : q = pkt \o d
  <2>1. d \in Seq(Bytes)
    BY NonZeroBytes, SeqMonotonic
  <2>2. QED
    BY <2>1, ConcatProperties
<1>4. PICK z \in Seq(Bytes) : z = BlockZero(c)
  BY BlockZeroType
<1>5. n + c + 1 \in 1..L+1 /\ ~(0 > 0)
  OBVIOUS
<1>6. PICK g \in Seq(Bytes) : g = G[n+c+1].bytes
  BY <1>1, <1>5, DecodingAt
<1>7. /\ G[1].ok = G[n+c+1].ok
      /\ G[1].bytes = q \o (Implied(t, n+c+1, c = MaxCode) \o g)
  BY <1>2, <1>3, <1>6, Zenon DEF Continues
<1>8. CASE n + c < L
  <2>1. Implied(t, n+c+1, c = MaxCode) = z
    <3>1. n + c + 1 # L + 1
      BY <1>8
    <3>2. QED
      BY <1>1, <1>4, <3>1, Zenon DEF Implied, BlockZero
  <2>2. q \o (z \o g) = (q \o z) \o g
    BY SMTT(60)
  <2>3. G[1].bytes = (q \o z) \o G[n+c+1].bytes
    BY <1>6, <1>7, <2>1, <2>2, Zenon
  <2>4. n + c # L
    BY <1>8
  <2>5. QED
    BY <1>1, <1>3, <1>4, <1>5, <1>7, <2>3, <2>4, Zenon DEF Fits
<1>9. CASE n + c = L
  <2>1. Implied(t, n+c+1, c = MaxCode) = <<>>
    <3>1. n + c + 1 = L + 1
      BY <1>9
    <3>2. QED
      BY <1>1, <3>1, Zenon DEF Implied
  <2>2. G[n+c+1].bytes = <<>> /\ G[n+c+1].ok = TRUE
    <3>1. n + c + 1 = L + 1
      BY <1>9
    <3>2. G[Len(t)+1].bytes = <<>> /\ G[Len(t)+1].ok = TRUE
      BY <1>1, DecodingAt
    <3>3. QED
      BY <1>1, <3>1, <3>2, Zenon
  <2>3. G[1].bytes = q
    <3>1. <<>> \o <<>> = <<>> /\ q \o <<>> = q
      BY ConcatEmptySeq, EmptySeq
    <3>2. QED
      BY <1>6, <1>7, <2>1, <2>2, <3>1, Zenon
  <2>4. Trimmed(q \o z) = q /\ q \o z # <<>>
    <3>1. CASE c = MaxCode
      <4>1. z = <<>> /\ q \o <<>> = q
        BY <1>4, <3>1, ConcatEmptySeq DEF BlockZero
      <4>2. Trimmed(q) = q /\ q # <<>>
        BY <1>3, <3>1, TrimmedData
      <4>3. QED
        BY <4>1, <4>2, Zenon
    <3>2. CASE c # MaxCode
      <4>1. 0 \in Bytes
        BY DecoderAssumption DEF Bytes
      <4>2. z = <<0>> /\ Append(q, 0) = q \o <<0>>
        BY <1>4, <3>2, <4>1, AppendIsConcat DEF BlockZero
      <4>3. Trimmed(Append(q, 0)) = q /\ Append(q, 0) # <<>>
        BY <4>1, TrimmedZero, AppendProperties
      <4>4. QED
        BY <4>2, <4>3, Zenon
    <3>3. QED
      BY <3>1, <3>2, Zenon
  <2>5. ~(n + c < L)
    BY <1>9
  <2>6. QED
    BY <1>1, <1>3, <1>4, <1>5, <1>7, <1>9, <2>2, <2>3, <2>4, <2>5, Zenon DEF Fits
<1>10. n + c < L \/ n + c = L
  OBVIOUS
<1>11. QED
  BY <1>8, <1>9, <1>10, Zenon

\* s is a string of complete blocks, decoded to pkt, which ends in the zero of the last of
\* them if it implies one.
Stands(s, pkt) == Promise(s, "RESET", 0, pkt)

\* A block: its code and its data.
CodeBlock(d) == <<Len(d) + 1>> \o d

\* A block holds no delimiter.
LEMMA CodeBlockType ==
  ASSUME NEW d \in Seq(NonZero), Len(d) + 1 <= MaxCode
  PROVE  /\ CodeBlock(d) \in Seq(NonZero) /\ Len(CodeBlock(d)) = Len(d) + 1
         /\ CodeBlock(d)[1] = Len(d) + 1
         /\ \A i \in 1..Len(d) : CodeBlock(d)[i+1] = d[i]
<1>1. Len(d) \in Nat /\ Len(d) + 1 \in NonZero
  BY LenProperties, DecoderAssumption DEF NonZero
<1>2. PICK c \in NonZero : c = Len(d) + 1
  BY <1>1
<1>3. PICK o \in Seq(NonZero) : o = <<c>> /\ Len(o) = 1 /\ o[1] = c
  <2>1. <<c>> \in Seq(NonZero)
    OBVIOUS
  <2>2. Len(<<c>>) = 1 /\ <<c>>[1] = c
    OBVIOUS
  <2>3. QED
    BY <2>1, <2>2, Zenon
<1>4. /\ o \o d \in Seq(NonZero) /\ Len(o \o d) = 1 + Len(d)
      /\ \A i \in 1..1 + Len(d) : (o \o d)[i] = IF i <= 1 THEN o[i] ELSE d[i - 1]
  BY <1>3, ConcatProperties
<1>5. (o \o d)[1] = c
  BY <1>1, <1>3, <1>4
<1>6. ASSUME NEW i \in 1..Len(d) PROVE (o \o d)[i+1] = d[i]
  <2>1. i + 1 \in 1..1 + Len(d) /\ ~(i + 1 <= 1) /\ (i + 1) - 1 = i
    BY <1>1
  <2>2. QED
    BY <1>4, <2>1
<1>7. CodeBlock(d) = o \o d
  BY <1>2, <1>3 DEF CodeBlock
<1>8. 1 + Len(d) = Len(d) + 1
  BY <1>1
<1>9. QED
  BY <1>2, <1>4, <1>5, <1>6, <1>7, <1>8

\* A string that goes on after one block more.
LEMMA ExtendsBlock ==
  ASSUME NEW s \in Seq(NonZero), NEW b \in Seq(NonZero), NEW t, Extends(t, s \o b)
  PROVE  /\ Extends(t, s) /\ Len(s \o b) = Len(s) + Len(b) /\ Len(t) >= Len(s) + Len(b)
         /\ t \in Seq(NonZero)
         /\ \A i \in 1..Len(b) : t[Len(s) + i] = b[i]
<1>1. PICK m \in Nat, n \in Nat : m = Len(s) /\ n = Len(b)
  BY LenProperties
<1>2. /\ s \o b \in Seq(NonZero) /\ Len(s \o b) = m + n
      /\ \A i \in 1..m+n : (s \o b)[i] = IF i <= m THEN s[i] ELSE b[i - m]
  BY <1>1, ConcatProperties
<1>3. t \in Seq(NonZero) /\ Len(t) >= m + n /\ \A i \in 1..m+n : t[i] = (s \o b)[i]
  BY <1>2 DEF Extends
<1>4. Len(t) \in Nat
  BY <1>3, LenProperties
<1>5. ASSUME NEW i \in 1..m PROVE t[i] = s[i]
  <2>1. i \in 1..m+n /\ i <= m
    OBVIOUS
  <2>2. QED
    BY <1>2, <1>3, <2>1
<1>6. ASSUME NEW i \in 1..n PROVE t[m + i] = b[i]
  <2>1. m + i \in 1..m+n /\ ~(m + i <= m) /\ (m + i) - m = i
    OBVIOUS
  <2>2. QED
    BY <1>2, <1>3, <2>1
<1>7. Len(t) >= m
  BY <1>3, <1>4
<1>8. QED
  BY <1>1, <1>2, <1>3, <1>5, <1>6, <1>7 DEF Extends

\* A block more.
LEMMA BlockStands ==
  ASSUME NEW s \in Seq(NonZero), NEW pkt \in Seq(Bytes), Stands(s, pkt),
         NEW d \in Seq(NonZero), Len(d) + 1 <= MaxCode
  PROVE  Stands(s \o CodeBlock(d), (pkt \o d) \o BlockZero(Len(d) + 1))
<1>1. PICK m \in Nat : m = Len(d)
  BY LenProperties
<1>2. PICK n \in Nat : n = Len(s)
  BY LenProperties
<1>3. PICK b \in Seq(NonZero) : b = CodeBlock(d)
  BY CodeBlockType
<1>4. Len(b) = m + 1 /\ b[1] = m + 1 /\ \A i \in 1..m : b[i+1] = d[i]
  BY <1>1, <1>3, CodeBlockType
<1>5. PICK pkt2 : pkt2 = (pkt \o d) \o BlockZero(m + 1)
  OBVIOUS
<1>6. ASSUME NEW t, NEW G, Extends(t, s \o b), Decodes(G, t)
      PROVE  Fits(t, G, Len(s \o b), 0, pkt2, FALSE)
  <2>1. /\ Extends(t, s) /\ Len(s \o b) = n + (m + 1) /\ Len(t) >= n + (m + 1)
        /\ t \in Seq(NonZero)
        /\ \A i \in 1..m+1 : t[n + i] = b[i]
    <3>1. /\ Extends(t, s) /\ Len(s \o b) = Len(s) + Len(b) /\ Len(t) >= Len(s) + Len(b)
          /\ t \in Seq(NonZero)
          /\ \A i \in 1..Len(b) : t[Len(s) + i] = b[i]
      BY <1>6, ExtendsBlock
    <3>2. Len(b) = m + 1
      BY <1>4
    <3>3. QED
      BY <1>2, <3>1, <3>2, Zenon
  <2>2. PICK L \in Nat : L = Len(t)
    BY <2>1, LenProperties
  <2>3. Known(t, G, L)
    BY <1>6, <2>1, <2>2 DEF Known
  <2>4. Fits(t, G, n, 0, pkt, FALSE)
    <3>1. ("RESET" = "CASE255") = FALSE /\ "RESET" # "PACKET_TOO_LONG"
      OBVIOUS
    <3>2. QED
      BY <1>2, <1>6, <2>1, <3>1, Zenon DEF Stands, Promise
  <2>5. PICK c \in Nat : c = m + 1 /\ c >= 1 /\ n + c <= L /\ n < L
    BY <2>1, <2>2
  <2>6. Holds(t, n + 1, c)
    <3>1. 1 \in 1..m+1
      OBVIOUS
    <3>2. t[n + 1] = c
      BY <1>4, <2>1, <2>5, <3>1
    <3>3. QED
      BY <3>2 DEF Holds
  <2>7. SubSeq(t, n+2, n+c) = d
    <3>1. n+2 \in 1..L+1 /\ n+c \in 0..L /\ n+2 \in Int /\ n+c \in Int
      BY <2>5
    <3>2. PICK r : r = SubSeq(t, n+2, n+c)
      OBVIOUS
    <3>3. \A i \in n+2..n+c : t[i] \in NonZero
      <4>1. \A i \in n+2..n+c : i \in 1..Len(t)
        BY <2>2, <2>5
      <4>2. QED
        BY <2>1, <4>1, ElementOfSeq
    <3>4. /\ r \in Seq(NonZero) /\ Len(r) = IF n+2 <= n+c THEN (n+c) - (n+2) + 1 ELSE 0
          /\ \A i \in 1..(n+c)-(n+2)+1 : r[i] = t[(n+2) + i - 1]
      BY <3>1, <3>2, <3>3, SubSeqProperties
    <3>5. Len(r) = m
      BY <2>5, <3>4
    <3>6. ASSUME NEW i \in 1..m PROVE r[i] = d[i]
      <4>1. i \in 1..(n+c)-(n+2)+1 /\ (n+2) + i - 1 = n + (i + 1) /\ i + 1 \in 1..m+1
        BY <2>5
      <4>2. r[i] = t[n + (i + 1)]
        BY <3>4, <4>1
      <4>3. t[n + (i + 1)] = b[i + 1] /\ b[i + 1] = d[i]
        BY <1>4, <2>1, <4>1
      <4>4. QED
        BY <4>2, <4>3
    <3>7. r = d
      BY <1>1, <3>4, <3>5, <3>6, SeqEqual
    <3>8. QED
      BY <3>2, <3>7
  <2>8. c = MaxCode => d # <<>>
    <3>1. c = MaxCode => Len(d) # 0
      BY <1>1, <2>5, DecoderAssumption
    <3>2. QED
      BY <3>1
  <2>9. Fits(t, G, n + c, 0, (pkt \o d) \o BlockZero(c), FALSE)
    BY <2>3, <2>4, <2>5, <2>6, <2>7, <2>8, FitsBlock
  <2>10. QED
    BY <1>5, <2>1, <2>5, <2>9, Zenon
<1>7. ("RESET" = "CASE255") = FALSE /\ "RESET" # "PACKET_TOO_LONG"
  OBVIOUS
<1>8. Promise(s \o b, "RESET", 0, pkt2)
  BY <1>6, <1>7, Zenon DEF Promise
<1>9. QED
  BY <1>1, <1>3, <1>5, <1>8, Zenon DEF Stands

\* A string of complete blocks and one last block is decoded to their bytes, whatever they are.
LEMMA WholeDecoded ==
  ASSUME NEW s \in Seq(NonZero), NEW pkt \in Seq(Bytes), Stands(s, pkt),
         NEW d \in Seq(NonZero), Len(d) + 1 <= MaxCode
  PROVE  /\ s \o CodeBlock(d) \in Seq(NonZero)
         /\ Stream!Delivered(s \o CodeBlock(d)) = Submitted(pkt \o d)
<1>1. PICK u \in Seq(NonZero) : u = s \o CodeBlock(d)
  BY CodeBlockType, ConcatProperties
<1>2. PICK q \in Seq(Bytes) : q = pkt \o d
  <2>1. d \in Seq(Bytes)
    BY NonZeroBytes, SeqMonotonic
  <2>2. QED
    BY <2>1, ConcatProperties
<1>3. PICK c : c = Len(d) + 1
  OBVIOUS
<1>4. PICK z \in Seq(Bytes) : z = BlockZero(c)
  BY BlockZeroType
<1>5. PICK p \in Seq(Bytes) : p = q \o z
  BY ConcatProperties
<1>6. Promise(u, "RESET", 0, p)
  <2>1. Stands(s \o CodeBlock(d), (pkt \o d) \o BlockZero(Len(d) + 1))
    BY BlockStands
  <2>2. QED
    BY <1>1, <1>2, <1>3, <1>4, <1>5, <2>1, Zenon DEF Stands
<1>7. Stream!Delivered(u) = Verdict("RESET", 0, p)
  BY <1>6, VerdictIsDelivered
<1>8. Trimmed(p) = q /\ p # <<>>
  <2>1. CASE c = MaxCode
    <3>1. z = <<>> /\ q \o <<>> = q
      BY <1>4, <2>1, ConcatEmptySeq DEF BlockZero
    <3>2. d # <<>>
      <4>1. Len(d) # 0
        BY <1>3, <2>1, DecoderAssumption
      <4>2. QED
        BY <4>1
    <3>3. Trimmed(q) = q /\ q # <<>>
      BY <1>2, <3>2, TrimmedData
    <3>4. QED
      BY <1>5, <3>1, <3>3, Zenon
  <2>2. CASE c # MaxCode
    <3>1. 0 \in Bytes
      BY DecoderAssumption DEF Bytes
    <3>2. z = <<0>> /\ Append(q, 0) = q \o <<0>>
      BY <1>4, <2>2, <3>1, AppendIsConcat DEF BlockZero
    <3>3. Trimmed(Append(q, 0)) = q /\ Append(q, 0) # <<>>
      BY <3>1, TrimmedZero, AppendProperties
    <3>4. QED
      BY <1>5, <3>2, <3>3, Zenon
  <2>3. QED
    BY <2>1, <2>2, Zenon
<1>9. Verdict("RESET", 0, p) = Submitted(q)
  BY <1>8 DEF Verdict
<1>10. QED
  BY <1>1, <1>2, <1>7, <1>9, Zenon

-----------------------------------------------------------------------------
(***************************************************************************)
(* The encoder's loop                                                      *)
(***************************************************************************)

\* What the encoder holds after i bytes of a source of n: complete blocks s, decoded to pkt,
\* and a block d in progress, behind the place of its code.
EncoderType == [out : Seq(Nat), code : Nat, len : Nat, overflow : BOOLEAN]

\* The overhead so far: a code byte for the block in progress, and one for each of the k
\* blocks that were closed because they were full.
Overhead(s, d, i, n) ==
  \E k \in Nat : /\ Len(s) + 1 + Len(d) = i + 1 + k
                 /\ k * (MaxCode - 1) + Len(d) <= i
                 /\ i = n /\ n > 0 => k * (MaxCode - 1) < i

\* The output: the blocks, the place of the code and the block in progress.
Written(e, s, d) ==
  e.out = s \o (<<0>> \o d) /\ e.code = Len(s) + 1 /\ e.len = Len(d) + 1

\* All of the source up to i is in the blocks or in the one in progress, which is not full
\* unless the source ends with it.
Encoded(e, src, i, s, d, pkt) ==
  /\ Written(e, s, d)
  /\ Stands(s, pkt)
  /\ pkt \o d = SubSeq(src, 1, i)
  /\ Len(d) + 1 <= MaxCode
  /\ i < Len(src) => Len(d) + 1 < MaxCode
  /\ Overhead(s, d, i, Len(src))

\* The invariant of the loop; nothing is said of an output that was too small.
EncoderInv(e, src, i) ==
  /\ e \in EncoderType
  /\ ~e.overflow => \E s \in Seq(NonZero), d \in Seq(NonZero), pkt \in Seq(Bytes) :
                       Encoded(e, src, i, s, d, pkt)

\* The empty string stands for the empty packet.
LEMMA StandsNone == Stands(<<>>, <<>>)
  BY PromiseInit DEF Stands

\* Blocks are closed with their code.
LEMMA CodeWritten ==
  ASSUME NEW s \in Seq(NonZero), NEW d \in Seq(NonZero), NEW o, o = s \o (<< 0 >> \o d),
         Len(d) + 1 <= MaxCode
  PROVE  /\ [o EXCEPT ![Len(s)+1] = Len(d) + 1] = s \o CodeBlock(d)
         /\ o \in Seq(Nat) /\ Len(o) = Len(s) + 1 + Len(d)
<1>1. PICK m \in Nat, n \in Nat : m = Len(s) /\ n = Len(d)
  BY LenProperties
<1>2. NonZero \subseteq Nat
  BY DecoderAssumption DEF NonZero
<1>3. s \in Seq(Nat) /\ d \in Seq(Nat)
  BY <1>2, SeqMonotonic
<1>4. PICK b \in Seq(NonZero) : b = CodeBlock(d)
  BY CodeBlockType
<1>5. Len(b) = n + 1 /\ b[1] = n + 1 /\ \A i \in 1..n : b[i+1] = d[i]
  BY <1>1, <1>4, CodeBlockType
<1>6. b \in Seq(Nat)
  BY <1>2, SeqMonotonic
<1>7. PICK z \in Seq(Nat) : z = <<0>> /\ Len(z) = 1 /\ z[1] = 0
  <2>1. <<0>> \in Seq(Nat)
    OBVIOUS
  <2>2. Len(<<0>>) = 1 /\ <<0>>[1] = 0
    OBVIOUS
  <2>3. QED
    BY <2>1, <2>2, Zenon
<1>8. PICK y \in Seq(Nat) : y = z \o d
  BY <1>3, ConcatProperties
<1>9. Len(y) = n + 1 /\ \A i \in 1..n+1 : y[i] = IF i <= 1 THEN z[i] ELSE d[i - 1]
  <2>1. /\ Len(z \o d) = Len(z) + Len(d)
        /\ \A i \in 1..Len(z) + Len(d) : (z \o d)[i] = IF i <= Len(z) THEN z[i] ELSE d[i - Len(z)]
    BY <1>3, ConcatProperties
  <2>2. Len(z) = 1 /\ Len(d) = n /\ 1 + n = n + 1
    BY <1>1, <1>7
  <2>3. QED
    BY <1>8, <2>1, <2>2, Zenon
<1>10. ASSUME NEW i \in 1..n+1, i # 1 PROVE y[i] = b[i]
  <2>1. i - 1 \in 1..n /\ (i - 1) + 1 = i /\ ~(i <= 1)
    BY <1>10
  <2>2. y[i] = d[i - 1]
    BY <1>9, <2>1
  <2>3. b[(i - 1) + 1] = d[i - 1]
    BY <1>5, <2>1
  <2>4. QED
    BY <2>1, <2>2, <2>3
<1>11. /\ o \in Seq(Nat) /\ Len(o) = m + (n + 1)
       /\ \A i \in 1..m+(n+1) : o[i] = IF i <= m THEN s[i] ELSE y[i - m]
  <2>1. /\ s \o y \in Seq(Nat) /\ Len(s \o y) = Len(s) + Len(y)
        /\ \A i \in 1..Len(s) + Len(y) : (s \o y)[i] = IF i <= Len(s) THEN s[i] ELSE y[i - Len(s)]
    BY <1>3, ConcatProperties
  <2>2. o = s \o y
    BY <1>7, <1>8, Zenon
  <2>3. QED
    BY <1>1, <1>9, <2>1, <2>2, Zenon
<1>12. PICK w \in Seq(Nat) : w = s \o b
  BY <1>3, <1>6, ConcatProperties
<1>13. Len(w) = m + (n + 1) /\ \A i \in 1..m+(n+1) : w[i] = IF i <= m THEN s[i] ELSE b[i - m]
  <2>1. /\ Len(s \o b) = Len(s) + Len(b)
        /\ \A i \in 1..Len(s) + Len(b) : (s \o b)[i] = IF i <= Len(s) THEN s[i] ELSE b[i - Len(s)]
    BY <1>3, <1>6, ConcatProperties
  <2>2. QED
    BY <1>1, <1>5, <1>12, <2>1, Zenon
<1>14. PICK v \in Seq(Nat) : v = [o EXCEPT ![m+1] = n + 1]
  <2>1. m + 1 \in 1..Len(o) /\ n + 1 \in Nat
    BY <1>11
  <2>2. QED
    BY <1>11, <2>1, ExceptSeq
<1>15. Len(v) = m + (n + 1) /\ \A i \in 1..m+(n+1) : v[i] = IF i = m + 1 THEN n + 1 ELSE o[i]
  <2>1. m + 1 \in 1..Len(o) /\ n + 1 \in Nat
    BY <1>11
  <2>2. /\ Len([o EXCEPT ![m+1] = n + 1]) = Len(o)
        /\ \A j \in 1..Len(o) : [o EXCEPT ![m+1] = n + 1][j] = IF j = m+1 THEN n + 1 ELSE o[j]
    <3>1. PICK k \in 1..Len(o), x \in Nat : k = m + 1 /\ x = n + 1
      BY <2>1
    <3>2. o \in Seq(Nat)
      BY <1>11
    <3>3. /\ Len([o EXCEPT ![k] = x]) = Len(o)
          /\ \A j \in 1..Len(o) : [o EXCEPT ![k] = x][j] = IF j = k THEN x ELSE o[j]
      <4>1. Len([o EXCEPT ![k] = x]) = Len(o)
        BY <3>2, ExceptSeq
      <4>2. o \in [1..Len(o) -> Nat]
        BY <3>2, LenProperties
      <4>3. \A j \in 1..Len(o) : [o EXCEPT ![k] = x][j] = IF j = k THEN x ELSE o[j]
        BY <4>2
      <4>4. QED
        BY <4>1, <4>3
    <3>4. QED
      BY <3>1, <3>3, Zenon
  <2>3. QED
    BY <1>11, <1>14, <2>2, Zenon
<1>16. ASSUME NEW i \in 1..m+(n+1) PROVE v[i] = w[i]
  <2>1. CASE i <= m
    <3>1. i # m + 1
      BY <2>1
    <3>2. v[i] = o[i]
      BY <1>15, <3>1
    <3>3. o[i] = s[i]
      BY <1>11, <2>1
    <3>4. w[i] = s[i]
      BY <1>13, <2>1
    <3>5. QED
      BY <3>2, <3>3, <3>4
  <2>2. CASE i = m + 1
    <3>1. ~(i <= m) /\ i - m = 1
      BY <2>2
    <3>2. w[i] = b[1]
      BY <1>13, <3>1
    <3>3. QED
      BY <1>5, <1>15, <2>2, <3>2
  <2>3. CASE i > m + 1
    <3>1. ~(i <= m) /\ i # m + 1 /\ i - m \in 1..n+1 /\ i - m # 1
      BY <2>3
    <3>2. v[i] = o[i]
      BY <1>15, <3>1
    <3>3. o[i] = y[i - m]
      BY <1>11, <3>1
    <3>4. w[i] = b[i - m]
      BY <1>13, <3>1
    <3>5. y[i - m] = b[i - m]
      BY <1>10, <3>1
    <3>6. QED
      BY <3>2, <3>3, <3>4, <3>5
  <2>4. QED
    BY <2>1, <2>2, <2>3
<1>17. v = w
  BY <1>13, <1>15, <1>16, SeqEqual
<1>18. m + (n + 1) = m + 1 + n
  OBVIOUS
<1>19. QED
  BY <1>1, <1>4, <1>11, <1>12, <1>14, <1>17, <1>18, Zenon

\* The overhead grows by no byte when one is copied, and by none that is not accounted for
\* when a zero or a full block closes a block.
LEMMA OverheadKept ==
  ASSUME NEW s \in Seq(NonZero), NEW d \in Seq(NonZero), NEW i \in Nat, NEW n \in Nat, i < n,
         Overhead(s, d, i, n)
  PROVE  /\ \A s2 \in Seq(NonZero) : Len(s2) = Len(s) + (Len(d) + 1) => Overhead(s2, <<>>, i + 1, n)
         /\ \A d2 \in Seq(NonZero) : Len(d2) = Len(d) + 1 =>
              /\ Overhead(s, d2, i + 1, n)
              /\ i + 1 # n /\ Len(d2) + 1 = MaxCode =>
                   \A s2 \in Seq(NonZero) : Len(s2) = Len(s) + (Len(d2) + 1)
                                              => Overhead(s2, <<>>, i + 1, n)
<1>1. PICK a \in Nat, m \in Nat : a = Len(s) /\ m = Len(d)
  BY LenProperties
<1>2. PICK k \in Nat : /\ a + 1 + m = i + 1 + k
                       /\ k * (MaxCode - 1) + m <= i
  BY <1>1 DEF Overhead
<1>3. PICK M \in Nat : M = MaxCode - 1
  BY DecoderAssumption
<1>4. k * M \in Nat /\ (k + 1) * M = k * M + M
  OBVIOUS
<1>5. PICK p \in Nat : p = k * M
  BY <1>4
<1>6. p + m <= i
  BY <1>2, <1>3, <1>5
<1>7. Len(<<>>) = 0
  OBVIOUS
<1>8. ASSUME NEW s2, Len(s2) = a + (m + 1) PROVE Overhead(s2, <<>>, i + 1, n)
  <2>1. Len(s2) + 1 + 0 = (i + 1) + 1 + k
    BY <1>2, <1>8
  <2>2. p + 0 <= i + 1 /\ p < i + 1
    BY <1>6
  <2>3. QED
    BY <1>3, <1>5, <1>7, <2>1, <2>2, Zenon DEF Overhead
<1>9. ASSUME NEW d2, Len(d2) = m + 1 PROVE Overhead(s, d2, i + 1, n)
  <2>1. Len(s) + 1 + Len(d2) = (i + 1) + 1 + k
    BY <1>1, <1>2, <1>9
  <2>2. p + Len(d2) <= i + 1 /\ p < i + 1
    BY <1>6, <1>9
  <2>3. QED
    BY <1>3, <1>5, <2>1, <2>2, Zenon DEF Overhead
<1>10. ASSUME i + 1 # n, m + 1 + 1 = MaxCode, NEW s2, Len(s2) = a + (m + 1 + 1)
       PROVE  Overhead(s2, <<>>, i + 1, n)
  <2>1. Len(s2) + 1 + 0 = (i + 1) + 1 + (k + 1)
    BY <1>2, <1>10
  <2>2. (k + 1) * M + 0 <= i + 1
    <3>1. PICK r \in Nat : r = (k + 1) * M
      BY <1>4
    <3>2. r = p + M
      BY <1>4, <1>5, <3>1
    <3>3. M = m + 1
      BY <1>3, <1>10, DecoderAssumption
    <3>4. r + 0 <= i + 1
      BY <1>6, <3>2, <3>3
    <3>5. QED
      BY <3>1, <3>4
  <2>3. k + 1 \in Nat
    OBVIOUS
  <2>4. QED
    BY <1>3, <1>7, <1>10, <2>1, <2>2, <2>3, Zenon DEF Overhead
<1>11. QED
  BY <1>1, <1>8, <1>9, <1>10, Zenon

\* A sequence of numbers stays one when one place is overwritten, in it or not.
LEMMA WriteType ==
  ASSUME NEW o \in Seq(Nat), NEW c, NEW v \in Nat
  PROVE  [o EXCEPT ![c] = v] \in Seq(Nat)
<1>1. CASE c \in 1..Len(o)
  BY <1>1, ExceptSeq
<1>2. CASE c \notin 1..Len(o)
  <2>1. o \in [1..Len(o) -> Nat]
    BY LenProperties
  <2>2. [o EXCEPT ![c] = v] = o
    BY <1>2, <2>1
  <2>3. QED
    BY <2>2
<1>3. QED
  BY <1>1, <1>2

\* What closing a block assigns.
LEMMA CloseBlockIs ==
  ASSUME NEW e \in EncoderType
  PROVE  /\ CloseBlock(e) \in EncoderType
         /\ CloseBlock(e).out = Append([e.out EXCEPT ![e.code] = e.len], 0)
         /\ CloseBlock(e).code = Len(e.out) + 1 /\ CloseBlock(e).len = 1
         /\ CloseBlock(e).overflow = e.overflow
<1>1. e.out \in Seq(Nat) /\ e.code \in Nat /\ e.len \in Nat
  BY DEF EncoderType
<1>2. [e.out EXCEPT ![e.code] = e.len] \in Seq(Nat)
  BY <1>1, WriteType
<1>3. PICK o \in Seq(Nat) : o = Append([e.out EXCEPT ![e.code] = e.len], 0)
  <2>1. 0 \in Nat
    OBVIOUS
  <2>2. QED
    BY <1>2, <2>1, AppendProperties
<1>4. PICK c \in Nat : c = Len(e.out) + 1
  BY <1>1, LenProperties
<1>5. CloseBlock(e) = [e EXCEPT !.out = o, !.code = c, !.len = 1]
  BY <1>3, <1>4 DEF CloseBlock
<1>6. PICK f : f = [e EXCEPT !.out = o, !.code = c, !.len = 1]
  OBVIOUS
<1>7. f \in EncoderType /\ f.out = o /\ f.code = c /\ f.len = 1 /\ f.overflow = e.overflow
  BY <1>6 DEF EncoderType
<1>8. QED
  BY <1>3, <1>4, <1>5, <1>6, <1>7, Zenon

\* A byte copied, before the block is closed or not.
Copied(e, byte) == [e EXCEPT !.out = Append(@, byte), !.len = @ + 1]

\* What copying a byte assigns.
LEMMA CopiedIs ==
  ASSUME NEW e \in EncoderType, NEW byte \in Nat
  PROVE  /\ Copied(e, byte) \in EncoderType
         /\ Copied(e, byte).out = Append(e.out, byte) /\ Copied(e, byte).code = e.code
         /\ Copied(e, byte).len = e.len + 1 /\ Copied(e, byte).overflow = e.overflow
<1>1. e.out \in Seq(Nat) /\ e.code \in Nat /\ e.len \in Nat
  BY DEF EncoderType
<1>2. PICK o \in Seq(Nat) : o = Append(e.out, byte)
  BY <1>1, AppendProperties
<1>3. PICK l \in Nat : l = e.len + 1
  BY <1>1
<1>4. Copied(e, byte) = [e EXCEPT !.out = o, !.len = l]
  BY <1>2, <1>3 DEF Copied
<1>5. QED
  BY <1>2, <1>3, <1>4 DEF EncoderType

\* The copied byte fills the block, and is not the last.
CopyCloses(e, byte, last) == ~last /\ Copied(e, byte).len = MaxCode

\* CopyByte in these terms.
LEMMA CopyByteIs ==
  ASSUME NEW e, NEW byte, NEW last
  PROVE  CopyByte(e, byte, last) = IF CopyCloses(e, byte, last) THEN CloseBlock(Copied(e, byte))
                                   ELSE Copied(e, byte)
  BY DEF CopyByte, CopyCloses, Copied

\* The encoder's variables keep their types.
LEMMA EncodeStepType ==
  ASSUME NEW e \in EncoderType, NEW byte \in Nat, NEW last, NEW dstLen
  PROVE  EncodeStep(e, byte, last, dstLen) \in EncoderType
<1>1. CASE e.overflow \/ Len(e.out) >= dstLen
  <2>1. EncodeStep(e, byte, last, dstLen) = [e EXCEPT !.overflow = TRUE]
    BY <1>1 DEF EncodeStep
  <2>2. QED
    BY <2>1 DEF EncoderType
<1>2. CASE ~(e.overflow \/ Len(e.out) >= dstLen)
  <2>1. /\ CloseBlock(e) \in EncoderType /\ Copied(e, byte) \in EncoderType
        /\ CloseBlock(Copied(e, byte)) \in EncoderType
    BY CloseBlockIs, CopiedIs
  <2>2. CopyByte(e, byte, last) \in EncoderType
    BY <2>1, CopyByteIs
  <2>3. QED
    BY <1>2, <2>1, <2>2, Zenon DEF EncodeStep
<1>3. QED
  BY <1>1, <1>2, Zenon

\* Closing a block ends it with its code and leaves an empty one.
LEMMA ClosedWritten ==
  ASSUME NEW e \in EncoderType, NEW s \in Seq(NonZero), NEW d \in Seq(NonZero), Written(e, s, d),
         Len(d) + 1 <= MaxCode
  PROVE  Written(CloseBlock(e), s \o CodeBlock(d), <<>>)
<1>1. PICK m \in Nat, n \in Nat : m = Len(s) /\ n = Len(d)
  BY LenProperties
<1>2. PICK u \in Seq(NonZero) : u = s \o CodeBlock(d) /\ Len(u) = m + (n + 1)
  <2>1. CodeBlock(d) \in Seq(NonZero) /\ Len(CodeBlock(d)) = n + 1
    BY <1>1, CodeBlockType
  <2>2. PICK b \in Seq(NonZero) : b = CodeBlock(d) /\ Len(b) = n + 1
    BY <2>1, Zenon
  <2>3. s \o b \in Seq(NonZero) /\ Len(s \o b) = Len(s) + Len(b)
    BY ConcatProperties
  <2>4. QED
    BY <1>1, <2>2, <2>3, Zenon
<1>3. /\ [e.out EXCEPT ![e.code] = e.len] = u
      /\ Len(e.out) = m + 1 + n
  <2>1. PICK o : o = e.out /\ o = s \o (<<0>> \o d)
    BY DEF Written
  <2>2. /\ [o EXCEPT ![Len(s)+1] = Len(d) + 1] = s \o CodeBlock(d)
        /\ Len(o) = Len(s) + 1 + Len(d)
    BY <2>1, CodeWritten
  <2>3. QED
    BY <1>1, <1>2, <2>1, <2>2, Zenon DEF Written
<1>4. CloseBlock(e).out = Append(u, 0)
  BY <1>3, CloseBlockIs
<1>5. Append(u, 0) = u \o (<<0>> \o <<>>)
  <2>1. NonZero \subseteq Bytes /\ 0 \in Bytes
    BY DecoderAssumption DEF NonZero, Bytes
  <2>2. u \in Seq(Bytes)
    BY <2>1, SeqMonotonic
  <2>3. Append(u, 0) = u \o <<0>>
    BY <2>1, <2>2, AppendIsConcat
  <2>4. <<0>> \o <<>> = <<0>>
    <3>1. <<0>> \in Seq(Bytes)
      BY <2>1
    <3>2. QED
      BY <3>1, ConcatEmptySeq
  <2>5. QED
    BY <2>3, <2>4, Zenon
<1>6. CloseBlock(e).code = Len(u) + 1 /\ CloseBlock(e).len = Len(<<>>) + 1
  <2>1. CloseBlock(e).code = Len(e.out) + 1 /\ CloseBlock(e).len = 1
    BY CloseBlockIs
  <2>2. Len(e.out) = Len(u) /\ Len(<<>>) + 1 = 1
    BY <1>2, <1>3
  <2>3. QED
    BY <2>1, <2>2, Zenon
<1>7. QED
  BY <1>2, <1>4, <1>5, <1>6, Zenon DEF Written

\* A copied byte ends the block in progress.
LEMMA CopiedWritten ==
  ASSUME NEW e \in EncoderType, NEW s \in Seq(NonZero), NEW d \in Seq(NonZero), Written(e, s, d),
         NEW byte \in NonZero
  PROVE  Written(Copied(e, byte), s, Append(d, byte))
<1>1. byte \in Nat /\ NonZero \subseteq Nat
  BY DecoderAssumption DEF NonZero
<1>2. s \in Seq(Nat) /\ d \in Seq(Nat)
  BY <1>1, SeqMonotonic
<1>3. /\ Copied(e, byte).out = Append(e.out, byte) /\ Copied(e, byte).code = Len(s) + 1
      /\ Copied(e, byte).len = Len(d) + 1 + 1
  BY <1>1, CopiedIs DEF Written
<1>4. Len(Append(d, byte)) = Len(d) + 1
  BY AppendProperties
<1>5. Append(e.out, byte) = s \o (<<0>> \o Append(d, byte))
  <2>1. PICK z \in Seq(Nat), x \in Seq(Nat) : z = <<0>> /\ x = <<byte>>
    <3>1. <<0>> \in Seq(Nat) /\ <<byte>> \in Seq(Nat)
      BY <1>1
    <3>2. QED
      BY <3>1, Zenon
  <2>2. PICK y \in Seq(Nat) : y = z \o d
    BY <1>2, ConcatProperties
  <2>3. PICK o \in Seq(Nat) : o = s \o y
    BY <1>2, ConcatProperties
  <2>4. e.out = o
    BY <2>1, <2>2, <2>3, Zenon DEF Written
  <2>5. Append(o, byte) = o \o x /\ Append(d, byte) = d \o x
    BY <1>1, <1>2, <2>1, AppendIsConcat
  <2>6. (s \o y) \o x = s \o (y \o x)
    BY <1>2, SMTT(60)
  <2>7. (z \o d) \o x = z \o (d \o x)
    BY <1>2, SMTT(60)
  <2>8. QED
    BY <2>1, <2>2, <2>3, <2>4, <2>5, <2>6, <2>7, Zenon
<1>6. QED
  BY <1>3, <1>4, <1>5, Zenon DEF Written

\* One byte more of the source.
LEMMA OneByteMore ==
  ASSUME NEW src \in Seq(Bytes), NEW i \in Nat, i < Len(src), NEW x \in Bytes, src[i+1] = x,
         NEW q \in Seq(Bytes), SubSeq(src, 1, i) = q
  PROVE  SubSeq(src, 1, i + 1) = q \o <<x>>
<1>1. PICK k : k = i + 1
  OBVIOUS
<1>2. Len(src) \in Nat
  BY LenProperties
<1>3. 1 \in 1..Len(src) /\ k \in 1..Len(src) /\ k - 1 = i
  BY <1>1, <1>2
<1>4. SubSeq(src, 1, k) = SubSeq(src, 1, k - 1) \o <<src[k]>>
  BY <1>3, SubSeqRecursiveSecond
<1>5. QED
  BY <1>1, <1>3, <1>4, Zenon

\* A zero ends the block in progress, whose code then stands for it.
LEMMA ZeroKeeps ==
  ASSUME NEW src \in Seq(Bytes), NEW i \in Nat, i < Len(src), src[i+1] = 0,
         NEW e \in EncoderType, NEW s \in Seq(NonZero), NEW d \in Seq(NonZero),
         NEW pkt \in Seq(Bytes), Encoded(e, src, i, s, d, pkt)
  PROVE  EncoderInv(CloseBlock(e), src, i + 1)
<1>1. PICK n \in Nat : n = Len(src)
  BY LenProperties
<1>2. PICK m \in Nat : m = Len(d) /\ m + 1 < MaxCode
  BY LenProperties DEF Encoded
<1>3. d \in Seq(Bytes)
  BY NonZeroBytes, SeqMonotonic
<1>4. PICK q \in Seq(Bytes) : q = pkt \o d
  BY <1>3, ConcatProperties
<1>5. Len(d) + 1 <= MaxCode /\ m + 1 # MaxCode
  BY <1>2, DecoderAssumption
<1>6. PICK b \in Seq(NonZero) : b = CodeBlock(d) /\ Len(b) = m + 1
  <2>1. CodeBlock(d) \in Seq(NonZero) /\ Len(CodeBlock(d)) = m + 1
    BY <1>2, <1>5, CodeBlockType
  <2>2. QED
    BY <2>1, Zenon
<1>7. PICK u \in Seq(NonZero) : u = s \o b /\ Len(u) = Len(s) + (m + 1)
  <2>1. s \o b \in Seq(NonZero) /\ Len(s \o b) = Len(s) + Len(b)
    BY ConcatProperties
  <2>2. QED
    BY <1>6, <2>1, Zenon
<1>8. 0 \in Bytes /\ <<0>> \in Seq(Bytes)
  BY DecoderAssumption DEF Bytes
<1>9. PICK pkt2 \in Seq(Bytes) : pkt2 = q \o <<0>>
  BY <1>8, ConcatProperties
<1>10. Written(CloseBlock(e), u, <<>>)
  <2>1. Written(CloseBlock(e), s \o CodeBlock(d), <<>>)
    BY <1>5, ClosedWritten DEF Encoded
  <2>2. QED
    BY <1>6, <1>7, <2>1, Zenon
<1>11. Stands(u, pkt2)
  <2>1. Stands(s \o CodeBlock(d), (pkt \o d) \o BlockZero(Len(d) + 1))
    BY <1>5, BlockStands DEF Encoded
  <2>2. BlockZero(Len(d) + 1) = <<0>>
    BY <1>2, <1>5 DEF BlockZero
  <2>3. QED
    BY <1>4, <1>6, <1>7, <1>9, <2>1, <2>2, Zenon
<1>12. pkt2 \o <<>> = SubSeq(src, 1, i + 1)
  <2>1. SubSeq(src, 1, i) = q
    BY <1>4 DEF Encoded
  <2>2. SubSeq(src, 1, i + 1) = q \o <<0>>
    BY <1>8, <2>1, OneByteMore
  <2>3. pkt2 \o <<>> = pkt2
    BY ConcatEmptySeq
  <2>4. QED
    BY <1>9, <2>2, <2>3, Zenon
<1>13. Overhead(u, <<>>, i + 1, n)
  <2>1. Overhead(s, d, i, n) /\ i < n
    BY <1>1 DEF Encoded
  <2>2. Len(u) = Len(s) + (Len(d) + 1)
    BY <1>2, <1>7
  <2>3. QED
    BY <2>1, <2>2, OverheadKept
<1>14. Len(<<>>) + 1 <= MaxCode /\ Len(<<>>) + 1 < MaxCode /\ <<>> \in Seq(NonZero)
  BY DecoderAssumption
<1>15. Encoded(CloseBlock(e), src, i + 1, u, <<>>, pkt2)
  BY <1>1, <1>10, <1>11, <1>12, <1>13, <1>14, Zenon DEF Encoded
<1>16. CloseBlock(e) \in EncoderType
  BY CloseBlockIs
<1>17. QED
  BY <1>14, <1>15, <1>16, Zenon DEF EncoderInv

\* A byte that is copied belongs to the block in progress.
LEMMA CopyKeeps ==
  ASSUME NEW src \in Seq(Bytes), NEW i \in Nat, i < Len(src),
         NEW byte \in NonZero, src[i+1] = byte,
         NEW e \in EncoderType, NEW s \in Seq(NonZero), NEW d \in Seq(NonZero),
         NEW pkt \in Seq(Bytes), Encoded(e, src, i, s, d, pkt)
  PROVE  EncoderInv(CopyByte(e, byte, i + 1 = Len(src)), src, i + 1)
<1>1. PICK n \in Nat : n = Len(src)
  BY LenProperties
<1>2. PICK m \in Nat : m = Len(d) /\ m + 1 < MaxCode
  BY LenProperties DEF Encoded
<1>3. byte \in Bytes /\ byte \in Nat /\ d \in Seq(Bytes)
  <2>1. byte \in Bytes /\ byte \in Nat
    BY DecoderAssumption DEF NonZero, Bytes
  <2>2. NonZero \subseteq Bytes
    BY NonZeroBytes
  <2>3. d \in Seq(Bytes)
    BY <2>2, SeqMonotonic
  <2>4. QED
    BY <2>1, <2>3
<1>4. PICK d2 \in Seq(NonZero) : d2 = Append(d, byte) /\ Len(d2) = m + 1
  <2>1. Append(d, byte) \in Seq(NonZero) /\ Len(Append(d, byte)) = m + 1
    BY <1>2, AppendProperties
  <2>2. QED
    BY <2>1, Zenon
<1>5. Len(d2) + 1 <= MaxCode
  BY <1>2, <1>4, DecoderAssumption
<1>6. d2 \in Seq(Bytes)
  BY NonZeroBytes, SeqMonotonic
<1>7. PICK q \in Seq(Bytes) : q = pkt \o d2
  BY <1>6, ConcatProperties
<1>8. q = SubSeq(src, 1, i + 1)
  <2>1. PICK p \in Seq(Bytes) : p = pkt \o d
    BY <1>3, ConcatProperties
  <2>2. SubSeq(src, 1, i) = p
    BY <2>1 DEF Encoded
  <2>3. SubSeq(src, 1, i + 1) = p \o <<byte>>
    <3>1. PICK x \in Bytes : x = byte /\ src[i+1] = x
      BY <1>3
    <3>2. SubSeq(src, 1, i + 1) = p \o <<x>>
      BY <2>2, <3>1, OneByteMore
    <3>3. QED
      BY <3>1, <3>2, Zenon
  <2>4. d2 = d \o <<byte>>
    BY <1>3, <1>4, AppendIsConcat
  <2>5. PICK x \in Seq(Bytes) : x = <<byte>>
    <3>1. <<byte>> \in Seq(Bytes)
      BY <1>3
    <3>2. QED
      BY <3>1, Zenon
  <2>6. (pkt \o d) \o x = pkt \o (d \o x)
    BY <1>3, SMTT(60)
  <2>7. QED
    BY <1>7, <2>1, <2>3, <2>4, <2>5, <2>6, Zenon
<1>9. PICK e2 \in EncoderType : e2 = Copied(e, byte)
  BY <1>3, CopiedIs
<1>10. Written(e2, s, d2)
  BY <1>4, <1>9, CopiedWritten DEF Encoded
<1>11. Stands(s, pkt) /\ Overhead(s, d, i, n) /\ i < n
  BY <1>1 DEF Encoded
<1>12. Len(d2) = Len(d) + 1
  BY <1>2, <1>4
<1>13. PICK last \in BOOLEAN : last = (i + 1 = n)
  OBVIOUS
<1>14. CASE CopyCloses(e, byte, last)
  <2>1. ~last /\ e2.len = MaxCode
    BY <1>9, <1>14, Zenon DEF CopyCloses
  <2>2. Len(d2) + 1 = MaxCode /\ i + 1 # n
    BY <1>10, <1>13, <2>1 DEF Written
  <2>3. PICK b \in Seq(NonZero) : b = CodeBlock(d2) /\ Len(b) = Len(d2) + 1
    <3>1. CodeBlock(d2) \in Seq(NonZero) /\ Len(CodeBlock(d2)) = Len(d2) + 1
      BY <1>5, CodeBlockType
    <3>2. QED
      BY <3>1, Zenon
  <2>4. PICK u \in Seq(NonZero) : u = s \o b /\ Len(u) = Len(s) + (Len(d2) + 1)
    <3>1. s \o b \in Seq(NonZero) /\ Len(s \o b) = Len(s) + Len(b)
      BY ConcatProperties
    <3>2. QED
      BY <2>3, <3>1, Zenon
  <2>5. Written(CloseBlock(e2), u, <<>>)
    <3>1. Written(CloseBlock(e2), s \o CodeBlock(d2), <<>>)
      BY <1>5, <1>10, ClosedWritten
    <3>2. QED
      BY <2>3, <2>4, <3>1, Zenon
  <2>6. Stands(u, q) /\ q \o <<>> = q
    <3>1. Stands(s \o CodeBlock(d2), (pkt \o d2) \o BlockZero(Len(d2) + 1))
      BY <1>5, <1>11, BlockStands
    <3>2. BlockZero(Len(d2) + 1) = <<>>
      BY <2>2 DEF BlockZero
    <3>3. q \o <<>> = q
      BY ConcatEmptySeq
    <3>4. QED
      BY <1>7, <2>3, <2>4, <3>1, <3>2, <3>3, Zenon
  <2>7. Overhead(u, <<>>, i + 1, n)
    BY <1>11, <1>12, <2>2, <2>4, OverheadKept
  <2>8. Len(<<>>) + 1 <= MaxCode /\ Len(<<>>) + 1 < MaxCode /\ <<>> \in Seq(NonZero)
    BY DecoderAssumption
  <2>9. Encoded(CloseBlock(e2), src, i + 1, u, <<>>, q)
    BY <1>1, <1>8, <2>5, <2>6, <2>7, <2>8, Zenon DEF Encoded
  <2>10. CloseBlock(e2) \in EncoderType
    BY CloseBlockIs
  <2>11. CopyByte(e, byte, last) = CloseBlock(e2)
    BY <1>9, <1>14, CopyByteIs, Zenon
  <2>12. QED
    BY <1>1, <1>13, <2>8, <2>9, <2>10, <2>11, Zenon DEF EncoderInv
<1>15. CASE ~CopyCloses(e, byte, last)
  <2>1. i + 1 < n => Len(d2) + 1 < MaxCode
    <3>1. SUFFICES ASSUME i + 1 < n PROVE Len(d2) + 1 < MaxCode
      OBVIOUS
    <3>2. last = FALSE
      <4>1. (i + 1 = n) = FALSE
        BY <3>1
      <4>2. QED
        BY <1>13, <4>1, Zenon
    <3>3. e2.len # MaxCode
      BY <1>9, <1>15, <3>2, Zenon DEF CopyCloses
    <3>4. Len(d2) + 1 # MaxCode
      BY <1>10, <3>3 DEF Written
    <3>5. QED
      BY <1>4, <1>5, <3>4, DecoderAssumption
  <2>2. Overhead(s, d2, i + 1, n)
    BY <1>11, <1>12, OverheadKept
  <2>3. Encoded(e2, src, i + 1, s, d2, pkt)
    BY <1>1, <1>5, <1>7, <1>8, <1>10, <1>11, <2>1, <2>2, Zenon DEF Encoded
  <2>4. CopyByte(e, byte, last) = e2
    BY <1>9, <1>15, CopyByteIs, Zenon
  <2>5. QED
    BY <1>1, <1>13, <2>3, <2>4, Zenon DEF EncoderInv
<1>16. QED
  BY <1>14, <1>15, Zenon

\* An iteration of the loop keeps the encoder's invariant.
LEMMA EncodeStepKeeps ==
  ASSUME NEW src \in Seq(Bytes), NEW i \in Nat, i < Len(src), NEW e, EncoderInv(e, src, i),
         NEW dstLen
  PROVE  EncoderInv(EncodeStep(e, src[i+1], i + 1 = Len(src), dstLen), src, i + 1)
<1>1. e \in EncoderType
  BY DEF EncoderInv
<1>2. PICK byte \in Bytes : byte = src[i+1]
  <2>1. i + 1 \in 1..Len(src)
    BY LenProperties
  <2>2. src[i+1] \in Bytes
    BY <2>1, ElementOfSeq
  <2>3. QED
    BY <2>2
<1>3. PICK last : last = (i + 1 = Len(src))
  OBVIOUS
<1>4. CASE e.overflow \/ Len(e.out) >= dstLen
  <2>1. EncodeStep(e, byte, last, dstLen) = [e EXCEPT !.overflow = TRUE]
    BY <1>4 DEF EncodeStep
  <2>2. [e EXCEPT !.overflow = TRUE] \in EncoderType /\ [e EXCEPT !.overflow = TRUE].overflow
    BY <1>1 DEF EncoderType
  <2>3. QED
    BY <1>2, <1>3, <2>1, <2>2, Zenon DEF EncoderInv
<1>5. CASE ~(e.overflow \/ Len(e.out) >= dstLen)
  <2>1. PICK s \in Seq(NonZero), d \in Seq(NonZero), pkt \in Seq(Bytes) :
          Encoded(e, src, i, s, d, pkt)
    BY <1>5, Zenon DEF EncoderInv
  <2>2. CASE byte = 0
    <3>1. EncoderInv(CloseBlock(e), src, i + 1)
      BY <1>1, <1>2, <2>1, <2>2, ZeroKeeps
    <3>2. EncodeStep(e, byte, last, dstLen) = CloseBlock(e)
      BY <1>5, <2>2, Zenon DEF EncodeStep
    <3>3. QED
      BY <1>2, <1>3, <3>1, <3>2, Zenon
  <2>3. CASE byte # 0
    <3>1. byte \in NonZero
      BY <2>3, NonZeroBytes
    <3>2. EncoderInv(CopyByte(e, byte, i + 1 = Len(src)), src, i + 1)
      BY <1>1, <1>2, <2>1, <3>1, CopyKeeps
    <3>3. EncodeStep(e, byte, last, dstLen) = CopyByte(e, byte, last)
      BY <1>5, <2>3, Zenon DEF EncodeStep
    <3>4. QED
      BY <1>2, <1>3, <3>2, <3>3, Zenon
  <2>4. QED
    BY <2>2, <2>3
<1>6. QED
  BY <1>4, <1>5, Zenon

\* Before the first byte.
LEMMA EncoderStarts ==
  ASSUME NEW src \in Seq(Bytes)
  PROVE  EncoderInv(EncoderStart, src, 0)
<1>1. EncoderStart \in EncoderType
  <2>1. <<0>> \in Seq(Nat)
    OBVIOUS
  <2>2. QED
    BY <2>1 DEF EncoderStart, EncoderType
<1>2. PICK n \in Nat : n = Len(src)
  BY LenProperties
<1>3. /\ EncoderStart.out = <<0>> /\ EncoderStart.code = 1 /\ EncoderStart.len = 1
  BY DEF EncoderStart
<1>4. Written(EncoderStart, <<>>, <<>>)
  <2>1. <<>> \o (<<0>> \o <<>>) = <<0>>
    <3>1. PICK z \in Seq(Nat) : z = <<0>>
      <4>1. <<0>> \in Seq(Nat)
        OBVIOUS
      <4>2. QED
        BY <4>1, Zenon
    <3>2. z \o <<>> = z /\ <<>> \o z = z
      BY ConcatEmptySeq
    <3>3. QED
      BY <3>1, <3>2, Zenon
  <2>2. Len(<<>>) + 1 = 1
    OBVIOUS
  <2>3. QED
    BY <1>3, <2>1, <2>2, Zenon DEF Written
<1>5. <<>> \in Seq(NonZero) /\ <<>> \in Seq(Bytes) /\ Len(<<>>) = 0 /\ <<>> \o <<>> = <<>>
  BY ConcatEmptySeq, EmptySeq
<1>6. SubSeq(src, 1, 0) = <<>>
  BY SubSeqEmpty
<1>7. Len(<<>>) + 1 <= MaxCode /\ Len(<<>>) + 1 < MaxCode
  BY DecoderAssumption
<1>8. Overhead(<<>>, <<>>, 0, n)
  <2>1. PICK M \in Nat : M = MaxCode - 1
    BY DecoderAssumption
  <2>2. PICK k \in Nat : k = 0
    OBVIOUS
  <2>3. 0 + 1 + 0 = 0 + 1 + k /\ k * M + 0 <= 0 /\ ~(0 = n /\ n > 0)
    BY <2>2
  <2>4. QED
    BY <1>5, <2>1, <2>3, Zenon DEF Overhead
<1>9. Encoded(EncoderStart, src, 0, <<>>, <<>>, <<>>)
  BY <1>2, <1>4, <1>5, <1>6, <1>7, <1>8, StandsNone, Zenon DEF Encoded
<1>10. QED
  BY <1>1, <1>5, <1>9, Zenon DEF EncoderInv

-----------------------------------------------------------------------------
(***************************************************************************)
(* What cobs_encode returns                                                *)
(***************************************************************************)

\* What cobs_encode returns when its loop has left it with e.
Ending(e, dstLen) ==
  LET full == e.code > dstLen
  IN  [ok    |-> ~e.overflow /\ ~full,
       bytes |-> IF full THEN SubSeq(e.out, 1, dstLen) ELSE [e.out EXCEPT ![e.code] = e.len]]

\* cobs_encode returns what its invariant allows.
LEMMA EncodeIs ==
  ASSUME NEW src \in Seq(Bytes), NEW dstLen
  PROVE  \E e : EncoderInv(e, src, Len(src)) /\ Encode(src, dstLen) = Ending(e, dstLen)
<1> DEFINE Body(h) ==
             [i \in 0..Len(src) |->
                IF i = 0 THEN EncoderStart
                ELSE EncodeStep(h[i-1], src[i], i = Len(src), dstLen)]
           g == CHOOSE h : h = Body(h)
<1>1. Encode(src, dstLen) = Ending(g[Len(src)], dstLen)
  BY DEF Encode, Ending
<1>2. PICK n \in Nat : n = Len(src)
  BY LenProperties
<1>3. ASSUME NEW i \in 0..n-1 PROVE src[i+1] \in Nat
  <2>1. i + 1 \in 1..Len(src)
    BY <1>2
  <2>2. src[i+1] \in Bytes
    BY <2>1, ElementOfSeq
  <2>3. QED
    BY <2>2, DecoderAssumption DEF Bytes
<1> DEFINE byte(i) == IF i \in 0..n-1 THEN src[i+1] ELSE 0
           step == [i \in Nat |-> [e \in EncoderType |->
                      EncodeStep(e, byte(i), i + 1 = Len(src), dstLen)]]
<1>4. step \in [Nat -> [EncoderType -> EncoderType]]
  <2>1. ASSUME NEW i \in Nat, NEW e \in EncoderType
        PROVE  EncodeStep(e, byte(i), i + 1 = Len(src), dstLen) \in EncoderType
    <3>1. byte(i) \in Nat
      BY <1>3
    <3> HIDE DEF byte
    <3>2. QED
      BY <3>1, EncodeStepType
  <2> HIDE DEF byte
  <2>2. QED
    BY <2>1
<1>5. EncoderStart \in EncoderType
  BY EncoderStarts DEF EncoderInv
<1>6. PICK f : Begins(f, n, EncoderType, EncoderStart, step)
  <2> HIDE DEF step
  <2>1. QED
    BY <1>4, <1>5, BeginningsExist
<1> DEFINE h == [i \in 0..n |-> f[i]]
<1>7. h = Body(h)
  <2>1. ASSUME NEW i \in 0..n, i # 0
        PROVE  f[i] = EncodeStep(h[i-1], src[i], i = Len(src), dstLen)
    <3>1. PICK j \in Nat : j = i - 1 /\ i = j + 1 /\ j \in 0..n-1
      BY <2>1
    <3>2. f[j+1] = step[j][f[j]] /\ f[j] \in EncoderType
      <4>1. j \in 0..n
        BY <3>1
      <4> HIDE DEF step
      <4>2. QED
        BY <1>6, <3>1, <4>1 DEF Begins
    <3>3. step[j][f[j]] = EncodeStep(f[j], byte(j), j + 1 = Len(src), dstLen)
      BY <3>2
    <3>4. byte(j) = src[j+1] /\ h[j] = f[j]
      BY <3>1
    <3> HIDE DEF step, byte, h
    <3>5. QED
      BY <3>1, <3>2, <3>3, <3>4, Zenon
  <2>2. f[0] = EncoderStart
    BY <1>6 DEF Begins
  <2>3. ASSUME NEW i \in 0..n
        PROVE  f[i] = IF i = 0 THEN EncoderStart
                      ELSE EncodeStep(h[i-1], src[i], i = Len(src), dstLen)
    <3> HIDE DEF h, step
    <3>1. QED
      BY <2>1, <2>2, Zenon
  <2>4. QED
    BY <1>2, <2>3
<1>8. g = Body(g)
  <2> HIDE DEF Body, h, step
  <2>1. QED
    BY <1>7
<1> HIDE DEF g
<1>9. /\ g[0] = EncoderStart
      /\ \A i \in 0..n : i # 0 => g[i] = EncodeStep(g[i-1], src[i], i = Len(src), dstLen)
  <2>1. 0 \in 0..n
    OBVIOUS
  <2>2. \A i \in 0..Len(src) : Body(g)[i] = IF i = 0 THEN EncoderStart
                ELSE EncodeStep(g[i-1], src[i], i = Len(src), dstLen)
    OBVIOUS
  <2> HIDE DEF Body
  <2>3. QED
    BY <1>2, <1>8, <2>1, <2>2, Zenon
<1> DEFINE S == {i \in 0..n : EncoderInv(g[i], src, i)}
<1>10. 0 \in S
  BY <1>9, EncoderStarts
<1>11. ASSUME NEW i \in 0..n-1, i \in S PROVE i + 1 \in S
  <2>1. EncoderInv(g[i], src, i) /\ i \in Nat /\ i < Len(src)
    BY <1>2, <1>11
  <2>2. PICK e : e = g[i]
    OBVIOUS
  <2>3. EncoderInv(EncodeStep(e, src[i+1], i + 1 = Len(src), dstLen), src, i + 1)
    BY <2>1, <2>2, EncodeStepKeeps
  <2>4. i + 1 \in 0..n /\ i + 1 # 0 /\ (i + 1) - 1 = i
    OBVIOUS
  <2>5. g[i+1] = EncodeStep(e, src[i+1], i + 1 = Len(src), dstLen)
    BY <1>9, <2>2, <2>4, Zenon
  <2>6. QED
    BY <2>3, <2>4, <2>5
<1>12. 0..n \subseteq S
  <2> HIDE DEF S
  <2>1. QED
    BY <1>10, <1>11, BoundedInduction
<1>13. EncoderInv(g[n], src, n)
  BY <1>12
<1>14. QED
  BY <1>1, <1>2, <1>13, Zenon

\* The overhead that COBS_ENCODE_DST_BUF_LEN_MAX allows for.
LEMMA OverheadBounded ==
  ASSUME NEW n \in Nat, NEW k \in Nat, NEW M \in Nat, M > 0, k * M < n
  PROVE  (n + M - 1) \div M \in Nat /\ k + 1 <= (n + M - 1) \div M
<1>1. PICK a \in Nat : a = n + M - 1
  OBVIOUS
<1>2. PICK q \in Nat : q = a \div M
  OBVIOUS
<1>3. a < (q + 1) * M
  BY <1>2
<1>4. (k + 1) * M <= a
  <2>1. PICK p \in Nat : p = k * M
    OBVIOUS
  <2>2. (k + 1) * M = p + M
    BY <2>1
  <2>3. p + M <= a
    BY <1>1, <2>1
  <2>4. QED
    BY <2>2, <2>3
<1>5. ASSUME q < k + 1 PROVE FALSE
  <2>1. PICK r \in Nat : k = q + r
    <3>1. k - q \in Nat /\ k = q + (k - q)
      BY <1>5
    <3>2. QED
      BY <3>1
  <2>2. (k + 1) * M = (q + 1) * M + r * M
    BY <2>1
  <2>3. r * M \in Nat /\ (q + 1) * M \in Nat /\ (k + 1) * M \in Nat
    OBVIOUS
  <2>4. QED
    BY <1>3, <1>4, <2>2, <2>3
<1>6. QED
  BY <1>1, <1>2, <1>5

\* The encoding of a packet holds no delimiter, is no longer than promised, and is delivered
\* as the packet.
LEMMA EncodedPacket ==
  ASSUME NEW src \in Seq(Bytes), src # <<>>, NEW dstLen, Encode(src, dstLen).ok
  PROVE  /\ Encode(src, dstLen).bytes \in Seq(NonZero)
         /\ Len(Encode(src, dstLen).bytes) <= EncodedLenMax(Len(src))
         /\ Stream!Delivered(Encode(src, dstLen).bytes) = Submitted(src)
<1>1. PICK n \in Nat : n = Len(src) /\ n > 0
  <2>1. Len(src) \in Nat /\ Len(src) > 0
    BY EmptySeq
  <2>2. QED
    BY <2>1
<1>2. PICK e : EncoderInv(e, src, n) /\ Encode(src, dstLen) = Ending(e, dstLen)
  BY <1>1, EncodeIs
<1>3. ~e.overflow /\ ~(e.code > dstLen)
  <2>1. Ending(e, dstLen).ok = (~e.overflow /\ ~(e.code > dstLen))
    BY DEF Ending
  <2>2. Ending(e, dstLen).ok
    BY <1>2, Zenon
  <2>3. QED
    BY <2>1, <2>2, Zenon
<1>4. PICK s \in Seq(NonZero), d \in Seq(NonZero), pkt \in Seq(Bytes) :
        Encoded(e, src, n, s, d, pkt)
  BY <1>2, <1>3, Zenon DEF EncoderInv
<1>5. Len(d) + 1 <= MaxCode /\ Stands(s, pkt) /\ pkt \o d = SubSeq(src, 1, n)
      /\ Overhead(s, d, n, n) /\ Written(e, s, d)
  BY <1>1, <1>4, Zenon DEF Encoded
<1>6. pkt \o d = src
  <2>1. SubSeq(src, 1, Len(src)) = src
    BY SubSeqFull
  <2>2. QED
    BY <1>1, <1>5, <2>1, Zenon
<1>7. PICK o : o = s \o (<<0>> \o d) /\ o = e.out
  BY <1>5 DEF Written
<1>8. Encode(src, dstLen).bytes = [e.out EXCEPT ![e.code] = e.len]
  BY <1>2, <1>3 DEF Ending
<1>9. [o EXCEPT ![Len(s)+1] = Len(d) + 1] = s \o CodeBlock(d)
  BY <1>5, <1>7, CodeWritten
<1>10. Encode(src, dstLen).bytes = s \o CodeBlock(d)
  BY <1>5, <1>7, <1>8, <1>9, Zenon DEF Written
<1>11. /\ s \o CodeBlock(d) \in Seq(NonZero)
       /\ Stream!Delivered(s \o CodeBlock(d)) = Submitted(pkt \o d)
  BY <1>5, WholeDecoded
<1>12. Len(s \o CodeBlock(d)) <= EncodedLenMax(n)
  <2>1. PICK a \in Nat, m \in Nat : a = Len(s) /\ m = Len(d)
    BY LenProperties
  <2>2. Len(s \o CodeBlock(d)) = a + (m + 1)
    <3>1. PICK b \in Seq(NonZero) : b = CodeBlock(d) /\ Len(b) = m + 1
      <4>1. CodeBlock(d) \in Seq(NonZero) /\ Len(CodeBlock(d)) = m + 1
        BY <1>5, <2>1, CodeBlockType
      <4>2. QED
        BY <4>1, Zenon
    <3>2. Len(s \o b) = Len(s) + Len(b)
      BY ConcatProperties
    <3>3. QED
      BY <2>1, <3>1, <3>2, Zenon
  <2>3. PICK M \in Nat : M = MaxCode - 1 /\ M > 0 /\ n + MaxCode - 2 = n + M - 1
    BY DecoderAssumption
  <2>4. PICK k \in Nat : a + 1 + m = n + 1 + k /\ k * M < n
    BY <1>1, <1>5, <2>1, <2>3, Zenon DEF Overhead
  <2>5. (n + M - 1) \div M \in Nat /\ k + 1 <= (n + M - 1) \div M
    BY <2>3, <2>4, OverheadBounded
  <2>6. PICK q \in Nat : q = (n + M - 1) \div M
    BY <2>5
  <2>7. EncodedLenMax(n) = n + q
    BY <2>3, <2>6, Zenon DEF EncodedLenMax
  <2>8. a + (m + 1) <= n + q
    BY <2>4, <2>5, <2>6
  <2>9. QED
    BY <2>2, <2>7, <2>8, Zenon
<1>13. QED
  BY <1>1, <1>6, <1>10, <1>11, <1>12, Zenon

-----------------------------------------------------------------------------
(***************************************************************************)
(* The link                                                                *)
(***************************************************************************)

\* What the encoder makes of a packet, and the zeros that fill its frame.
Enc(p) == Encode(p, FrameLen).bytes
Zeros(m) == [i \in 1..m |-> 0]

\* The packets cobs_encode_voice_frame accepts, and their encodings.
LEMMA PacketFacts ==
  ASSUME NEW p \in Packets
  PROVE  /\ p \in Seq(Bytes) /\ p # <<>> /\ Encode(p, FrameLen).ok
         /\ Enc(p) \in Seq(NonZero) /\ Len(Enc(p)) < FrameLen
         /\ Len(Enc(p)) <= EncodedLenMax(Len(p))
         /\ Stream!Delivered(Enc(p)) = Submitted(p)
<1>1. PICK n \in PacketLens : p \in [1..n -> Symbols]
  BY DEF Packets
<1>2. n \in Nat /\ n > 0 /\ Symbols \subseteq Bytes
  BY LinkAssumption
<1>3. p \in Seq(Bytes) /\ Len(p) = n
  <2>1. p \in [1..n -> Bytes]
    BY <1>1, <1>2
  <2>2. QED
    BY <1>2, <2>1
<1>4. p # <<>>
  BY <1>2, <1>3
<1>5. Encode(p, FrameLen).ok /\ Len(Enc(p)) < FrameLen
  BY DEF Packets, VoiceFrameFits, Enc
<1>6. QED
  BY <1>3, <1>4, <1>5, EncodedPacket DEF Enc

\* Zeros are a string of bytes.
LEMMA ZerosString ==
  ASSUME NEW m \in Nat
  PROVE  Zeros(m) \in Seq(Bytes)
<1>1. 0 \in Bytes
  BY DecoderAssumption DEF Bytes
<1>2. PICK z : z = Zeros(m)
  OBVIOUS
<1>3. z \in [1..m -> Bytes]
  BY <1>1, <1>2 DEF Zeros
<1>4. z \in Seq(Bytes)
  BY <1>3
<1>5. QED
  BY <1>2, <1>4, Zenon

\* Zeros end after as many as there are.
LEMMA ZerosType ==
  ASSUME NEW m \in Nat
  PROVE  /\ Zeros(m) \in Seq(Bytes) /\ Len(Zeros(m)) = m
         /\ m > 0 => Zeros(m) # <<>> /\ Head(Zeros(m)) = 0 /\ Tail(Zeros(m)) = Zeros(m - 1)
         /\ Zeros(0) = <<>>
<1>1. 0 \in Bytes
  BY DecoderAssumption DEF Bytes
<1>2. PICK z \in Seq(Bytes) : z = Zeros(m)
  BY ZerosString, Zenon
<1>3. Len(z) = m /\ \A i \in 1..m : z[i] = 0
  BY <1>2 DEF Zeros
<1>4. ASSUME m > 0 PROVE z # <<>> /\ Head(z) = 0 /\ Tail(z) = Zeros(m - 1)
  <2>1. z # <<>>
    BY <1>3, <1>4
  <2>2. Head(z) = 0
    BY <1>3, <1>4, <2>1
  <2>3. PICK y \in Seq(Bytes) : y = Zeros(m - 1)
    <3>1. m - 1 \in Nat
      BY <1>4
    <3>2. Zeros(m - 1) \in Seq(Bytes)
      BY <3>1, ZerosString
    <3>3. QED
      BY <3>2, Zenon
  <2>4. Len(y) = m - 1 /\ \A i \in 1..m-1 : y[i] = 0
    BY <1>4, <2>3 DEF Zeros
  <2>5. PICK x \in Seq(Bytes) : x = Tail(z) /\ Len(x) = m - 1 /\ \A i \in 1..m-1 : x[i] = z[i+1]
    <3>1. /\ Tail(z) \in Seq(Bytes) /\ Len(Tail(z)) = Len(z) - 1
          /\ \A i \in 1..Len(Tail(z)) : Tail(z)[i] = z[i+1]
      BY <2>1, HeadTailProperties
    <3>2. QED
      BY <1>3, <3>1, Zenon
  <2>6. \A i \in 1..m-1 : x[i] = 0
    BY <1>3, <2>5
  <2>7. x = y
    BY <2>4, <2>5, <2>6, SeqEqual
  <2>8. QED
    BY <2>1, <2>2, <2>3, <2>5, <2>7
<1>5. Zeros(0) = <<>>
  <2>1. Zeros(0) \in Seq(Bytes) /\ Len(Zeros(0)) = 0
    BY <1>1 DEF Zeros
  <2>2. QED
    BY <2>1, EmptySeq
<1>6. QED
  BY <1>2, <1>3, <1>4, <1>5, Zenon

\* The frame of a packet.
LEMMA FrameIs ==
  ASSUME NEW p \in Packets
  PROVE  \E m \in Nat : /\ m > 0 /\ VoiceFrame(p, FrameLen) = Enc(p) \o Zeros(m)
                        /\ Enc(p) \o Zeros(m) \in Seq(Bytes)
                        /\ Len(Enc(p) \o Zeros(m)) = FrameLen
<1>1. PICK n \in Nat : n = Len(Enc(p)) /\ n < FrameLen
  BY PacketFacts, LenProperties
<1>2. PICK m \in Nat : m = FrameLen - n /\ m > 0
  BY <1>1, LinkAssumption
<1>3. VoiceFrame(p, FrameLen) = Enc(p) \o Zeros(m)
  BY <1>1, <1>2 DEF VoiceFrame, Enc, Zeros
<1>4. PICK e \in Seq(Bytes) : e = Enc(p)
  <2>1. NonZero \subseteq Bytes /\ Enc(p) \in Seq(NonZero)
    BY NonZeroBytes, PacketFacts
  <2>2. QED
    BY <2>1, SeqMonotonic
<1>5. PICK z \in Seq(Bytes) : z = Zeros(m) /\ Len(z) = m
  BY ZerosType
<1>6. e \o z \in Seq(Bytes) /\ Len(e \o z) = Len(e) + Len(z)
  BY ConcatProperties
<1>7. Len(e) + Len(z) = FrameLen
  BY <1>1, <1>2, <1>4, <1>5, LinkAssumption
<1>8. QED
  BY <1>2, <1>3, <1>4, <1>5, <1>6, <1>7, Zenon

\* Where the decoder is in an intact frame: in the encoding, of which it has taken a and is
\* yet to take b, or in the padding.
InPacket(p, a, b, m) == p \in Packets /\ a \o b = Enc(p) /\ m \in Nat /\ m > 0
InEncoding == \E a \in Seq(NonZero), b \in Seq(NonZero), m \in Nat :
                /\ InPacket(sent, a, b, m)
                /\ line = b \o Zeros(m)
                /\ synced => Promise(a, state, remaining, packet) /\ got = <<>>

InPadding == \E m \in Nat :
               /\ line = Zeros(m)
               /\ IsReset
               /\ synced => got = Owed(sent)

\* The inductive invariant of the link.
LinkInv == /\ IInv /\ LinkTypeOK
           /\ intact => InEncoding \/ InPadding
           /\ prevIntact => synced

\* The next byte of an intact frame.
LEMMA NextOfFrame ==
  ASSUME NEW b \in Seq(NonZero), b # <<>>, NEW m \in Nat
  PROVE  /\ Head(b) \in NonZero /\ Tail(b) \in Seq(NonZero)
         /\ Head(b \o Zeros(m)) = Head(b) /\ Tail(b \o Zeros(m)) = Tail(b) \o Zeros(m)
         /\ \A a \in Seq(NonZero) : Append(a, Head(b)) \o Tail(b) = a \o b
<1>1. PICK z \in Seq(Bytes) : z = Zeros(m)
  BY ZerosType
<1>2. PICK c \in Seq(Bytes) : c = b /\ c # <<>>
  BY NonZeroBytes, SeqMonotonic
<1>3. Head(b) \in NonZero /\ Tail(b) \in Seq(NonZero)
  BY HeadTailProperties
<1>4. Head(c \o z) = Head(c) /\ Tail(c \o z) = Tail(c) \o z
  BY <1>2
<1>5. PICK x \in NonZero, y \in Seq(NonZero) : x = Head(b) /\ y = Tail(b)
  BY <1>3
<1>6. ASSUME NEW a \in Seq(NonZero) PROVE Append(a, x) \o y = a \o b
  <2>1. b = <<x>> \o y
    BY <1>5
  <2>2. Append(a, x) = a \o <<x>>
    BY AppendIsConcat
  <2>3. PICK o \in Seq(NonZero) : o = <<x>>
    <3>1. <<x>> \in Seq(NonZero)
      OBVIOUS
    <3>2. QED
      BY <3>1, Zenon
  <2>4. (a \o o) \o y = a \o (o \o y)
    BY SMTT(60)
  <2>5. QED
    BY <2>1, <2>2, <2>3, <2>4, Zenon
<1>7. QED
  BY <1>1, <1>2, <1>3, <1>4, <1>5, <1>6, Zenon

\* The decoder's own variables in a step of the link.
LEMMA LinkTakesBytes ==
  ASSUME IInv, LinkTypeOK, NEW byte \in Bytes, TakeByte(byte), intact' \in BOOLEAN
  PROVE  IInv' /\ LinkTypeOK'
<1>1. IInv'
  BY ReceiveKeepsIInv DEF TakeByte
<1>2. TypeOK' /\ out' \in Seq(Bytes)
  BY <1>1 DEF IInv, TypeOK
<1>3. line' \in Seq(Bytes) /\ Len(line') <= FrameLen
  <2>1. line \in Seq(Bytes) /\ line # <<>> /\ line' = Tail(line) /\ Len(line) <= FrameLen
    BY DEF LinkTypeOK, TakeByte
  <2>2. Tail(line) \in Seq(Bytes) /\ Len(Tail(line)) = Len(line) - 1
    BY <2>1, HeadTailProperties
  <2>3. Len(line) \in Nat
    BY <2>1, LenProperties
  <2>4. QED
    BY <2>1, <2>2, <2>3, LinkAssumption
<1>4. got' \in Seq(Seq(Bytes))
  <2>1. PICK g \in Seq(Seq(Bytes)), o \in Seq(Bytes) : g = got /\ o = out'
    BY <1>2 DEF LinkTypeOK
  <2>2. <<>> \in Seq(Seq(Bytes)) /\ Append(g, o) \in Seq(Seq(Bytes))
    BY EmptySeq, AppendProperties
  <2>3. got' = <<>> \/ got' = g \/ got' = Append(g, o)
    BY <2>1, Zenon DEF TakeByte
  <2>4. QED
    BY <2>2, <2>3, Zenon
<1>5. sent' = sent /\ synced' = synced /\ prevIntact' = prevIntact
  BY DEF TakeByte
<1>6. sent' \in Packets \cup {NoPacket} /\ {intact', synced', prevIntact'} \subseteq BOOLEAN
  BY <1>5 DEF LinkTypeOK
<1>7. QED
  BY <1>1, <1>2, <1>3, <1>4, <1>6 DEF LinkTypeOK

\* A frame of which bytes of the encoding or a zero are left has not ended.
LEMMA NotOver ==
  ASSUME NEW b \in Seq(NonZero), NEW k \in Nat, k > 0
  PROVE  b \o Zeros(k) # <<>>
<1>1. PICK z \in Seq(Bytes) : z = Zeros(k) /\ Len(z) = k
  BY ZerosType
<1>2. PICK c \in Seq(Bytes) : c = b
  BY NonZeroBytes, SeqMonotonic
<1>3. Len(c \o z) = Len(c) + Len(z) /\ Len(c) \in Nat
  BY ConcatProperties, LenProperties
<1>4. Len(c \o z) # 0
  BY <1>1, <1>3
<1>5. c \o z # <<>>
  BY <1>4
<1>6. QED
  BY <1>1, <1>2, <1>5, Zenon

\* A frame starts.
LEMMA FrameStarts ==
  ASSUME LinkInv, NEW p \in Packets, NextFrame(p) \/ FrameAfterLoss(p)
  PROVE  LinkInv'
<1>1. PICK m \in Nat : /\ m > 0 /\ VoiceFrame(p, FrameLen) = Enc(p) \o Zeros(m)
                       /\ Enc(p) \o Zeros(m) \in Seq(Bytes)
                       /\ Len(Enc(p) \o Zeros(m)) = FrameLen
  BY FrameIs
<1>2. /\ line = <<>> /\ sent' = p /\ line' = Enc(p) \o Zeros(m) /\ got' = <<>> /\ intact' = TRUE
  BY <1>1 DEF NextFrame, FrameAfterLoss, NewFrame
<1>3. IInv'
  <2>1. CASE NextFrame(p)
    <3>1. out' = NoPacket /\ UNCHANGED <<state, remaining, packet>>
      BY <2>1 DEF NextFrame
    <3>2. QED
      BY <3>1, NoPacketType DEF LinkInv, IInv, TypeOK, StateCoherent, NoBufferOverrun
  <2>2. CASE FrameAfterLoss(p)
    <3>1. ResetDecoder /\ out' \in Seq(Bytes)
      BY <2>2, NoPacketType DEF FrameAfterLoss, Restart
    <3>2. QED
      BY <3>1, ResetKeepsIInv
  <2>3. QED
    BY <2>1, <2>2
<1>4. synced' \in BOOLEAN /\ prevIntact' \in BOOLEAN
  BY DEF NextFrame, FrameAfterLoss, IsReset, LinkInv, LinkTypeOK
<1>5. LinkTypeOK'
  <2>1. TypeOK'
    BY <1>3 DEF IInv
  <2>2. <<>> \in Seq(Seq(Bytes))
    BY EmptySeq
  <2>3. Len(line') <= FrameLen
    BY <1>1, <1>2, LinkAssumption
  <2>4. QED
    BY <1>1, <1>2, <1>4, <2>1, <2>2, <2>3 DEF LinkTypeOK
<1>6. synced' => state' = "RESET" /\ remaining' = 0 /\ packet' = <<>>
  BY DEF NextFrame, FrameAfterLoss, Restart, ResetDecoder, IsReset
<1>7. prevIntact' => synced'
  <2>1. CASE NextFrame(p)
    <3>1. prevIntact' = intact /\ synced' = IsReset
      BY <2>1 DEF NextFrame
    <3>2. intact => IsReset
      <4>1. ~InEncoding
        <5>1. SUFFICES ASSUME NEW b \in Seq(NonZero), NEW k \in Nat, k > 0, line = b \o Zeros(k)
                       PROVE  FALSE
          BY Zenon DEF InEncoding, InPacket
        <5>2. QED
          BY <1>2, <5>1, NotOver
      <4>2. QED
        BY <4>1, Zenon DEF LinkInv, InPadding
    <3>3. QED
      BY <3>1, <3>2
  <2>2. CASE FrameAfterLoss(p)
    BY <2>2 DEF FrameAfterLoss
  <2>3. QED
    BY <2>1, <2>2
<1>8. InEncoding'
  <2>1. synced' => Promise(<<>>, state', remaining', packet') /\ got' = <<>>
    BY <1>2, <1>6, PromiseInit, Zenon
  <2>2. PICK b \in Seq(NonZero) : b = Enc(p)
    BY PacketFacts
  <2>3. <<>> \in Seq(NonZero) /\ <<>> \o b = b
    BY ConcatEmptySeq, EmptySeq
  <2>4. InPacket(sent', <<>>, b, m)
    BY <1>1, <1>2, <2>2, <2>3, Zenon DEF InPacket
  <2>5. line' = b \o Zeros(m)
    BY <1>2, <2>2
  <2>6. QED
    BY <2>1, <2>3, <2>4, <2>5, Zenon DEF InEncoding
<1>9. QED
  BY <1>3, <1>5, <1>7, <1>8, Zenon DEF LinkInv

\* What the receiver owes for a packet is what a delimiter after its encoding yields.
LEMMA SubmittedIsOwed ==
  ASSUME NEW p \in Seq(Bytes), p # <<>>
  PROVE  (IF Submitted(p) = NoPacket THEN <<>> ELSE Append(<<>>, Submitted(p))) = Owed(p)
<1>1. Append(<<>>, p) = <<p>>
  OBVIOUS
<1>2. QED
  BY <1>1, Zenon DEF Submitted, NoPacket, Owed

\* A byte of an intact frame.
LEMMA GoodByteKeeps ==
  ASSUME LinkInv, GoodByte, intact
  PROVE  (InEncoding \/ InPadding)'
<1>1. IInv /\ LinkTypeOK /\ line # <<>> /\ Receive(Head(line)) /\ line' = Tail(line)
  BY DEF LinkInv, GoodByte, TakeByte
<1>2. /\ sent' = sent /\ synced' = synced /\ intact'
      /\ got' = IF out' = NoPacket THEN got ELSE Append(got, out')
  BY DEF GoodByte, TakeByte
<1>3. CASE InEncoding
  <2>1. PICK a \in Seq(NonZero), b \in Seq(NonZero), m \in Nat :
          /\ InPacket(sent, a, b, m)
          /\ line = b \o Zeros(m)
          /\ synced => Promise(a, state, remaining, packet) /\ got = <<>>
    BY <1>3, Zenon DEF InEncoding
  <2>2. PICK p \in Packets : p = sent /\ a \o b = Enc(p) /\ m > 0
    BY <2>1 DEF InPacket
  <2>3. CASE b # <<>>
    <3>1. PICK x \in NonZero, y \in Seq(NonZero) :
            /\ x = Head(line) /\ Tail(line) = y \o Zeros(m) /\ Append(a, x) \o y = a \o b
      BY <2>1, <2>3, NextOfFrame, Zenon
    <3>2. PICK a2 \in Seq(NonZero) : a2 = Append(a, x)
      BY AppendProperties
    <3>3. Receive(x)
      BY <1>1, <3>1
    <3>4. synced => Promise(a2, state', remaining', packet')
      BY <1>1, <2>1, <3>2, <3>3, ByteKeepsPromise
    <3>5. x # 0
      BY DEF NonZero
    <3>6. out' = NoPacket
      BY <3>3, <3>5, Zenon DEF Receive, SkipByte, EndOfLongPacket, UnexpectedZero, EndOfPacket,
               Filler, DataByte, LongCode, ShortCode, Grow
    <3>7. synced' => Promise(a2, state', remaining', packet') /\ got' = <<>>
      BY <1>2, <2>1, <3>4, <3>6, Zenon
    <3>8. InPacket(sent', a2, y, m) /\ line' = y \o Zeros(m)
      BY <1>1, <1>2, <2>1, <3>1, <3>2, Zenon DEF InPacket
    <3>9. QED
      BY <3>7, <3>8, Zenon DEF InEncoding
  <2>4. CASE b = <<>>
    <3>1. PICK k \in Nat : k = m - 1
      BY <2>2
    <3>2. line = Zeros(m)
      <4>1. PICK z \in Seq(Bytes) : z = Zeros(m)
        BY ZerosType
      <4>2. <<>> \o z = z
        BY ConcatEmptySeq
      <4>3. QED
        BY <2>1, <2>4, <4>1, <4>2, Zenon
    <3>3. Head(line) = 0 /\ line' = Zeros(k)
      BY <1>1, <2>2, <3>1, <3>2, ZerosType
    <3>4. Receive(0)
      BY <1>1, <3>3
    <3>5. IsReset'
      BY <1>1, <3>4, ZeroResets
    <3>6. a = Enc(p)
      <4>1. a \o <<>> = a
        BY ConcatEmptySeq
      <4>2. QED
        BY <2>2, <2>4, <4>1, Zenon
    <3>7. synced => got' = Owed(p)
      <4>1. SUFFICES ASSUME synced PROVE got' = Owed(p)
        OBVIOUS
      <4>2. Promise(a, state, remaining, packet) /\ got = <<>>
        BY <2>1, <4>1
      <4>3. out' = Stream!Delivered(a)
        BY <1>1, <3>4, <4>2, DelimiterDelivers
      <4>4. p \in Seq(Bytes) /\ p # <<>> /\ Stream!Delivered(Enc(p)) = Submitted(p)
        BY PacketFacts
      <4>5. out' = Submitted(p)
        BY <3>6, <4>3, <4>4, Zenon
      <4>6. (IF Submitted(p) = NoPacket THEN <<>> ELSE Append(<<>>, Submitted(p))) = Owed(p)
        BY <4>4, SubmittedIsOwed
      <4>7. QED
        BY <1>2, <4>2, <4>5, <4>6, Zenon
    <3>8. synced' => got' = Owed(sent')
      BY <1>2, <2>2, <3>7, Zenon
    <3>9. QED
      BY <3>3, <3>5, <3>8, Zenon DEF InPadding
  <2>5. QED
    BY <2>3, <2>4
<1>4. CASE InPadding
  <2>1. PICK m \in Nat : line = Zeros(m) /\ IsReset /\ (synced => got = Owed(sent))
    BY <1>4 DEF InPadding
  <2>2. m > 0
    <3>1. m = 0 => FALSE
      BY <1>1, <2>1, ZerosType
    <3>2. QED
      BY <3>1
  <2>3. PICK k \in Nat : k = m - 1
    BY <2>2
  <2>4. Head(line) = 0 /\ line' = Zeros(k)
    BY <1>1, <2>1, <2>2, <2>3, ZerosType
  <2>5. Receive(0)
    BY <1>1, <2>4
  <2>6. IsReset'
    BY <1>1, <2>5, ZeroResets
  <2>7. out' = NoPacket
    BY <2>1, <2>5, DecoderAssumption DEF Receive, SkipByte, EndOfLongPacket, UnexpectedZero,
             EndOfPacket, Filler, DataByte, LongCode, ShortCode, IsReset
  <2>8. synced' => got' = Owed(sent')
    BY <1>2, <2>1, <2>7, Zenon
  <2>9. QED
    BY <2>4, <2>6, <2>8, Zenon DEF InPadding
<1>5. QED
  BY <1>3, <1>4, Zenon DEF LinkInv

\* The link's invariant holds in every reachable state.
THEOREM LinkInvariant == LinkSpec => []LinkInv
<1>1. LinkInit => LinkInv
  <2> SUFFICES ASSUME LinkInit PROVE LinkInv
    OBVIOUS
  <2>1. IInv
    BY DecoderAssumption, NoPacketType
       DEF LinkInit, Init, IsReset, IInv, TypeOK, StateCoherent, NoBufferOverrun, States
  <2>2. <<>> \in Seq(Bytes) /\ <<>> \in Seq(Seq(Bytes)) /\ Len(<<>>) = 0
    BY EmptySeq
  <2>3. LinkTypeOK
    BY <2>1, <2>2, LinkAssumption DEF LinkInit, LinkTypeOK, IInv
  <2>4. InPadding
    <3>1. line = Zeros(0) /\ 0 \in Nat
      BY ZerosType DEF LinkInit
    <3>2. IsReset
      BY DEF LinkInit, Init
    <3>3. got = Owed(sent)
      <4>1. ~(Len(<<>>) \in MinLen..MTU)
        BY DecoderAssumption
      <4>2. Owed(<<>>) = <<>>
        BY <4>1, Zenon DEF Owed
      <4>3. QED
        BY <4>2, Zenon DEF LinkInit, NoPacket
    <3>4. QED
      BY <3>1, <3>2, <3>3, Zenon DEF InPadding
  <2>5. prevIntact => synced
    BY DEF LinkInit
  <2>6. QED
    BY <2>1, <2>3, <2>4, <2>5, Zenon DEF LinkInv
<1>2. LinkInv /\ [LinkNext]_lvars => LinkInv'
  <2> SUFFICES ASSUME LinkInv, [LinkNext]_lvars PROVE LinkInv'
    OBVIOUS
  <2>1. ASSUME NEW p \in Packets, NextFrame(p) \/ FrameAfterLoss(p) PROVE LinkInv'
    BY <2>1, FrameStarts
  <2>2. CASE GoodByte
    <3>1. Head(line) \in Bytes
      BY <2>2, HeadTailProperties DEF GoodByte, LinkInv, LinkTypeOK
    <3>2. TakeByte(Head(line)) /\ intact' = intact /\ intact \in BOOLEAN
      BY <2>2 DEF GoodByte, LinkInv, LinkTypeOK
    <3>3. IInv' /\ LinkTypeOK'
      BY <3>1, <3>2, LinkTakesBytes DEF LinkInv
    <3>4. prevIntact' => synced'
      BY <3>2 DEF TakeByte, LinkInv
    <3>5. intact' => (InEncoding \/ InPadding)'
      BY <2>2, <3>2, GoodByteKeeps
    <3>6. QED
      BY <3>3, <3>4, <3>5 DEF LinkInv
  <2>3. ASSUME NEW byte \in Bytes, WrongByte(byte) PROVE LinkInv'
    <3>1. TakeByte(byte) /\ intact' = FALSE
      BY <2>3 DEF WrongByte
    <3>2. IInv' /\ LinkTypeOK'
      BY <3>1, LinkTakesBytes DEF LinkInv
    <3>3. prevIntact' => synced'
      BY <3>1 DEF TakeByte, LinkInv
    <3>4. QED
      BY <3>1, <3>2, <3>3 DEF LinkInv
  <2>4. CASE UNCHANGED lvars
    BY <2>4 DEF lvars, dvars, LinkInv, IInv, TypeOK, StateCoherent, NoBufferOverrun, LinkTypeOK,
                InEncoding, InPadding, IsReset
  <2>5. QED
    BY <2>1, <2>2, <2>3, <2>4 DEF LinkNext
<1>3. QED
  BY <1>1, <1>2, PTL DEF LinkSpec

\* The link's variables keep their types.
THEOREM LinkTypeCorrect == LinkSpec => []LinkTypeOK
<1>1. LinkInv => LinkTypeOK
  BY DEF LinkInv
<1>2. QED
  BY <1>1, LinkInvariant, PTL

\* At the end of an intact frame the decoder has submitted what it owes, if it started afresh.
LEMMA EndOfFrame ==
  ASSUME LinkInv, FrameEnded, intact, synced
  PROVE  got = Owed(sent)
<1>1. ~InEncoding
  <2>1. SUFFICES ASSUME NEW b \in Seq(NonZero), NEW k \in Nat, k > 0, line = b \o Zeros(k)
                 PROVE  FALSE
    BY Zenon DEF InEncoding, InPacket
  <2>2. QED
    BY <2>1, NotOver DEF FrameEnded
<1>2. QED
  BY <1>1, Zenon DEF LinkInv, InPadding

\* The round trip of a frame received intact by a decoder that starts afresh.
THEOREM RoundTripHolds == LinkSpec => []RoundTrip
<1>1. LinkInv => RoundTrip
  BY EndOfFrame, Zenon DEF RoundTrip
<1>2. QED
  BY <1>1, LinkInvariant, PTL

\* One intact frame is enough to resynchronize the decoder.
THEOREM RecoveryHolds == LinkSpec => []RecoversAfterOneFrame
<1>1. LinkInv => RecoversAfterOneFrame
  <2> SUFFICES ASSUME LinkInv, FrameEnded, intact, prevIntact PROVE got = Owed(sent)
    BY Zenon DEF RecoversAfterOneFrame
  <2>1. synced
    BY DEF LinkInv
  <2>2. QED
    BY <2>1, EndOfFrame
<1>2. QED
  BY <1>1, LinkInvariant, PTL

\* Every packet that is sent is encoded without a zero and with the overhead cobs.h promises.
THEOREM EncodingIsSound == LinkSpec => []EncodingSound
<1>1. LinkInv => EncodingSound
  <2> SUFFICES ASSUME LinkInv, sent # NoPacket
               PROVE  /\ Encode(sent, FrameLen).ok
                      /\ \A i \in DOMAIN Enc(sent) : Enc(sent)[i] \in 1..MaxCode
                      /\ Len(Enc(sent)) <= EncodedLenMax(Len(sent))
    BY Zenon DEF EncodingSound, Enc
  <2>1. sent \in Packets
    BY DEF LinkInv, LinkTypeOK
  <2>2. PICK e \in Seq(NonZero) : e = Enc(sent)
    BY <2>1, PacketFacts
  <2>3. \A i \in DOMAIN e : e[i] \in 1..MaxCode
    BY ElementOfSeq, LenProperties DEF NonZero
  <2>4. QED
    BY <2>1, <2>2, <2>3, PacketFacts
<1>2. QED
  BY <1>1, LinkInvariant, PTL
=============================================================================
