----------------------- MODULE ConvolutionalCodeProofs ------------------------
(***************************************************************************)
(* What ConvolutionalCode's decoder makes of any soft bits, for a payload  *)
(* of any length.  Viterbi's search keeps, for each state, a path that ends*)
(* there and is as near to what was received as any (SearchGoesOn), so that*)
(* the chainback answers the beginning of a path to the flushed state that *)
(* no other path to it is nearer than (ChainbackIs).  And the code's       *)
(* distance: a path that differs from the one that was sent is too far away*)
(* from it for two wrong soft bits to bring it nearer (NearestIsSent).     *)
(***************************************************************************)
EXTENDS ConvolutionalCode, DataInduction

Taps(poly, m) == {b \in poly : (m \div 2^b) % 2 = 1}

\* The constants of Convolution.h and Viterbi.h, and the powers of two up to the memory's.
LEMMA Numbers ==
  /\ K = 4 /\ NumStates = 16 /\ States = 0..15 /\ NumStates \div 2 = 8
  /\ 2^(K+1) = 32 /\ LlrLimit = 7
  /\ 2^0 = 1 /\ 2^1 = 2 /\ 2^2 = 4 /\ 2^3 = 8 /\ 2^4 = 16
  BY DEF K, NumStates, States, LlrLimit

\* A memory has finitely many tapped bits.
LEMMA TapsFinite ==
  ASSUME NEW P \in {PolyA, PolyB}, NEW m
  PROVE  IsFiniteSet(Taps(P, m)) /\ Cardinality(Taps(P, m)) \in Nat
<1>1. IsFiniteSet(P)
  <2>1. IsFiniteSet(0..4)
    <3>1. 0 \in Int /\ 4 \in Int
      OBVIOUS
    <3>2. QED
      BY <3>1, FS_Interval, Zenon
  <2>2. P \subseteq 0..4
    BY DEF PolyA, PolyB
  <2>3. QED
    BY <2>1, <2>2, FS_Subset
<1>2. Taps(P, m) \subseteq P
  BY DEF Taps
<1>3. QED
  BY <1>1, <1>2, FS_Subset, FS_CardinalityType

\* A coded bit is a bit.
LEMMA ConvolveBitType ==
  ASSUME NEW P \in {PolyA, PolyB}, NEW m
  PROVE  ConvolveBit(P, m) \in {0, 1}
<1>1. ConvolveBit(P, m) = Cardinality(Taps(P, m)) % 2
  BY DEF ConvolveBit, Taps
<1>2. PICK c \in Nat : c = Cardinality(Taps(P, m))
  BY TapsFinite
<1>3. c % 2 \in {0, 1}
  OBVIOUS
<1>4. QED
  BY <1>1, <1>2, <1>3, Zenon

\* One more tapped bit inverts the coded bit.
LEMMA TapAdded ==
  ASSUME NEW P \in {PolyA, PolyB}, NEW m, NEW k, NEW b \in P,
         b \notin Taps(P, m), Taps(P, k) = Taps(P, m) \cup {b}
  PROVE  ConvolveBit(P, k) = 1 - ConvolveBit(P, m)
<1>1. Cardinality(Taps(P, k)) = Cardinality(Taps(P, m)) + 1
  BY TapsFinite, FS_AddElement
<1>2. PICK c \in Nat : c = Cardinality(Taps(P, m))
  BY TapsFinite
<1>3. (c + 1) % 2 = 1 - (c % 2)
  OBVIOUS
<1>4. ConvolveBit(P, m) = c % 2 /\ ConvolveBit(P, k) = (c + 1) % 2
  BY <1>1, <1>2 DEF ConvolveBit, Taps
<1>5. QED
  BY <1>3, <1>4, Zenon

\* Both polynomials tap the memory's newest bit.
LEMMA FirstTap ==
  ASSUME NEW P \in {PolyA, PolyB}, NEW j \in 0..15
  PROVE  ConvolveBit(P, 2*j+1) = 1 - ConvolveBit(P, 2*j)
<1>1. 0 \in P /\ P \subseteq 0..4
  BY DEF PolyA, PolyB
<1>2. ((2*j) \div 1) % 2 = 0 /\ ((2*j+1) \div 1) % 2 = 1
  OBVIOUS
<1>3. /\ (2*j) \div 2 = (2*j+1) \div 2
      /\ (2*j) \div 4 = (2*j+1) \div 4
      /\ (2*j) \div 8 = (2*j+1) \div 8
      /\ (2*j) \div 16 = (2*j+1) \div 16
  OBVIOUS
<1>4. \A b \in 0..4 : b # 0 => (2*j) \div 2^b = (2*j+1) \div 2^b
  <2>1. \A b \in 0..4 : b \in {0,1,2,3,4}
    OBVIOUS
  <2>2. QED
    BY <2>1, <1>3, Numbers
<1>5. 0 \notin Taps(P, 2*j) /\ 0 \in Taps(P, 2*j+1)
  BY <1>1, <1>2, Numbers DEF Taps
<1>6. Taps(P, 2*j+1) = Taps(P, 2*j) \cup {0}
  BY <1>1, <1>4, <1>5 DEF Taps
<1>7. QED
  BY <1>1, <1>5, <1>6, TapAdded

\* Both polynomials tap the memory's oldest bit.
LEMMA LastTap ==
  ASSUME NEW P \in {PolyA, PolyB}, NEW m \in 0..15
  PROVE  ConvolveBit(P, m+16) = 1 - ConvolveBit(P, m)
<1>1. 4 \in P /\ P \subseteq 0..4
  BY DEF PolyA, PolyB
<1>2. (m \div 16) % 2 = 0 /\ ((m+16) \div 16) % 2 = 1
  OBVIOUS
<1>3. /\ (m \div 1) % 2 = ((m+16) \div 1) % 2
      /\ (m \div 2) % 2 = ((m+16) \div 2) % 2
      /\ (m \div 4) % 2 = ((m+16) \div 4) % 2
      /\ (m \div 8) % 2 = ((m+16) \div 8) % 2
  OBVIOUS
<1>4. \A b \in 0..4 : b # 4 => (m \div 2^b) % 2 = ((m+16) \div 2^b) % 2
  <2>1. \A b \in 0..4 : b \in {0,1,2,3,4}
    OBVIOUS
  <2>2. QED
    BY <2>1, <1>3, Numbers
<1>5. 4 \notin Taps(P, m) /\ 4 \in Taps(P, m+16)
  BY <1>1, <1>2, Numbers DEF Taps
<1>6. Taps(P, m+16) = Taps(P, m) \cup {4}
  BY <1>1, <1>4, <1>5 DEF Taps
<1>7. QED
  BY <1>1, <1>5, <1>6, TapAdded

-----------------------------------------------------------------------------
\* What it costs to have sent the coded bits of a memory when a pair was received.
Soft == -7..7
Branch(m, p, q) ==
  SoftCost(Ideal(ConvolveBit(PolyA, m)), p) + SoftCost(Ideal(ConvolveBit(PolyB, m)), q)

\* A soft bit is at most 14 from what a coded bit should be received as.
LEMMA SoftCostBounds ==
  ASSUME NEW c \in {0, 1}, NEW s \in Soft
  PROVE  SoftCost(Ideal(c), s) \in 0..14
  BY DEF Soft, SoftCost, Ideal, LlrLimit, Abs

\* A pair of soft bits is at most 28 from what a memory's should be.
LEMMA BranchBounds ==
  ASSUME NEW m, NEW p \in Soft, NEW q \in Soft
  PROVE  Branch(m, p, q) \in 0..28
<1>1. PICK a \in {0, 1}, b \in {0, 1} : a = ConvolveBit(PolyA, m) /\ b = ConvolveBit(PolyB, m)
  BY ConvolveBitType
<1>2. SoftCost(Ideal(a), p) \in 0..14 /\ SoftCost(Ideal(b), q) \in 0..14
  BY SoftCostBounds
<1>3. QED
  BY <1>1, <1>2 DEF Branch

\* The cost of a 0 and that of a 1 are those of the memories that they lead to.
LEMMA BranchCosts ==
  ASSUME NEW i \in 0..15, NEW p \in Soft, NEW q \in Soft
  PROVE  LET j == i \div 2
             zero == Cost0(j, <<p, q>>)
             one == Cost1(j, <<p, q>>)
         IN  /\ (IF i % 2 = 0 THEN zero ELSE one) = Branch(i, p, q)
             /\ (IF i % 2 = 0 THEN one ELSE zero) = Branch(i + 16, p, q)
<1> DEFINE j == i \div 2
<1>1. j \in 0..7 /\ j \in 0..15 /\ 2*j \in 0..15 /\ i % 2 \in {0, 1} /\ i = 2*j + (i % 2)
  OBVIOUS
<1>2. PICK a \in {0, 1}, b \in {0, 1} : a = ConvolveBit(PolyA, 2*j) /\ b = ConvolveBit(PolyB, 2*j)
  BY ConvolveBitType
<1> HIDE DEF j
<1>3. ConvolveBit(PolyA, 2*j+1) = 1 - a /\ ConvolveBit(PolyB, 2*j+1) = 1 - b
  BY <1>1, <1>2, FirstTap
<1>4. ConvolveBit(PolyA, i + 16) = 1 - ConvolveBit(PolyA, i)
      /\ ConvolveBit(PolyB, i + 16) = 1 - ConvolveBit(PolyB, i)
  BY LastTap
<1>5. Cost[j][1] = Ideal(a) /\ Cost[j][2] = Ideal(b)
  BY <1>1, <1>2, Numbers DEF Cost
<1>6. \A c \in {0, 1} : -Ideal(c) = Ideal(1 - c) /\ 1 - (1 - c) = c
  BY DEF Ideal, LlrLimit
<1>7. <<p, q>>[1] = p /\ <<p, q>>[2] = q
  OBVIOUS
<1>8. Cost0(j, <<p, q>>) = SoftCost(Ideal(a), p) + SoftCost(Ideal(b), q)
  BY <1>5, <1>7, Zenon DEF Cost0
<1>9. Cost1(j, <<p, q>>) = SoftCost(Ideal(1 - a), p) + SoftCost(Ideal(1 - b), q)
  BY <1>2, <1>5, <1>6, <1>7, Zenon DEF Cost1
<1>10. CASE i % 2 = 0
  <2>1. i = 2*j
    BY <1>1, <1>10
  <2>2. ConvolveBit(PolyA, i) = a /\ ConvolveBit(PolyB, i) = b
    BY <1>2, <2>1, Zenon
  <2>3. Branch(i, p, q) = Cost0(j, <<p, q>>) /\ Branch(i + 16, p, q) = Cost1(j, <<p, q>>)
    BY <1>4, <1>8, <1>9, <2>2, Zenon DEF Branch
  <2>4. QED
    BY <1>10, <2>3, Zenon DEF j
<1>11. CASE i % 2 # 0
  <2>1. i = 2*j+1
    BY <1>1, <1>11
  <2>2. ConvolveBit(PolyA, i) = 1 - a /\ ConvolveBit(PolyB, i) = 1 - b
    BY <1>3, <2>1, Zenon
  <2>3. ConvolveBit(PolyA, i + 16) = a /\ ConvolveBit(PolyB, i + 16) = b
    BY <1>2, <1>4, <1>6, <2>2, Zenon
  <2>4. Branch(i, p, q) = Cost1(j, <<p, q>>) /\ Branch(i + 16, p, q) = Cost0(j, <<p, q>>)
    BY <1>8, <1>9, <2>2, <2>3, Zenon DEF Branch
  <2>5. QED
    BY <1>11, <2>4, Zenon DEF j
<1>12. QED
  BY <1>10, <1>11

-----------------------------------------------------------------------------
\* The encoder's memory holds the last five bits, of which the last four are the state.
Bits(N) == [1..N -> {0, 1}]
Bit(b, n) == IF n >= 1 THEN b[n] ELSE 0
State(b, n) == 8 * Bit(b, n-3) + 4 * Bit(b, n-2) + 2 * Bit(b, n-1) + Bit(b, n)
Memory(b, n) == 16 * Bit(b, n-4) + State(b, n)
CodedBit(b, m) == ConvolveBit(IF m % 2 = 1 THEN PolyA ELSE PolyB, Memory(b, (m + 1) \div 2))

\* A bit of a path is a bit, and so is each of the zeros before it.
LEMMA BitType ==
  ASSUME NEW N \in Nat, NEW b \in Bits(N), NEW n \in Int, n <= N
  PROVE  Bit(b, n) \in {0, 1}
<1>1. CASE n >= 1
  <2>1. n \in 1..N
    BY <1>1
  <2>2. QED
    BY <1>1, <2>1 DEF Bit, Bits
<1>2. CASE ~(n >= 1)
  BY <1>2 DEF Bit
<1>3. QED
  BY <1>1, <1>2

\* The states and memories of a path are numbers of four and of five bits.
LEMMA StateType ==
  ASSUME NEW N \in Nat, NEW b \in Bits(N), NEW n \in 0..N
  PROVE  /\ State(b, n) \in 0..15 /\ Memory(b, n) \in 0..31
         /\ State(b, n) % 2 = Bit(b, n)
<1>1. PICK x \in {0, 1} : x = Bit(b, n-4)
  BY BitType
<1>2. PICK y \in {0, 1} : y = Bit(b, n-3)
  BY BitType
<1>3. PICK z \in {0, 1} : z = Bit(b, n-2)
  BY BitType
<1>4. PICK u \in {0, 1} : u = Bit(b, n-1)
  BY BitType
<1>5. PICK v \in {0, 1} : v = Bit(b, n)
  BY BitType
<1>6. State(b, n) = 8*y + 4*z + 2*u + v /\ Memory(b, n) = 16*x + (8*y + 4*z + 2*u + v)
  BY <1>1, <1>2, <1>3, <1>4, <1>5, Zenon DEF State, Memory
<1>7. QED
  BY <1>5, <1>6

\* What a step does to the memory and the state.
LEMMA StateStep ==
  ASSUME NEW N \in Nat, NEW b \in Bits(N), NEW n \in 0..N-1
  PROVE  /\ Memory(b, n + 1) = 16 * Bit(b, n-3) + State(b, n + 1)
         /\ Memory(b, n + 1) = UpdateMemory(Memory(b, n), b[n + 1])
         /\ State(b, n) = State(b, n + 1) \div 2 + 8 * Bit(b, n-3)
         /\ State(b, n + 1) = (2 * State(b, n) + b[n + 1]) % 16
         /\ Bit(b, n-3) = 1 <=> State(b, n) >= 8
         /\ b[n + 1] = State(b, n + 1) % 2
<1>1. PICK x \in {0, 1} : x = Bit(b, n-4)
  BY BitType
<1>2. PICK y \in {0, 1} : y = Bit(b, n-3)
  BY BitType
<1>3. PICK z \in {0, 1} : z = Bit(b, n-2)
  BY BitType
<1>4. PICK u \in {0, 1} : u = Bit(b, n-1)
  BY BitType
<1>5. PICK v \in {0, 1} : v = Bit(b, n)
  BY BitType
<1>6. PICK w \in {0, 1} : w = b[n+1] /\ w = Bit(b, n+1)
  <2>1. n + 1 \in 1..N /\ n + 1 >= 1
    OBVIOUS
  <2>2. QED
    BY <2>1 DEF Bit, Bits
<1>7. (n+1)-4 = n-3 /\ (n+1)-3 = n-2 /\ (n+1)-2 = n-1 /\ (n+1)-1 = n
  OBVIOUS
<1>8. State(b, n) = 8*y + 4*z + 2*u + v /\ Memory(b, n) = 16*x + (8*y + 4*z + 2*u + v)
  BY <1>1, <1>2, <1>3, <1>4, <1>5, Zenon DEF State, Memory
<1>9. State(b, n+1) = 8*z + 4*u + 2*v + w /\ Memory(b, n+1) = 16*y + (8*z + 4*u + 2*v + w)
  BY <1>2, <1>3, <1>4, <1>5, <1>6, <1>7, Zenon DEF State, Memory
<1>10. UpdateMemory(Memory(b, n), b[n+1]) = (2 * (16*x + (8*y + 4*z + 2*u + v)) + w) % 32
  BY <1>6, <1>8, Numbers, Zenon DEF UpdateMemory
<1>11. (2 * (16*x + (8*y + 4*z + 2*u + v)) + w) % 32 = 16*y + (8*z + 4*u + 2*v + w)
  OBVIOUS
<1>12. /\ 8*y + 4*z + 2*u + v = (8*z + 4*u + 2*v + w) \div 2 + 8 * y
       /\ 8*z + 4*u + 2*v + w = (2 * (8*y + 4*z + 2*u + v) + w) % 16
       /\ y = 1 <=> 8*y + 4*z + 2*u + v >= 8
       /\ w = (8*z + 4*u + 2*v + w) % 2
  OBVIOUS
<1>13. QED
  BY <1>2, <1>6, <1>8, <1>9, <1>10, <1>11, <1>12, Zenon

\* The encoder answers the coded bits of its path's memories, two for each bit.
LEMMA EncodeBitsIs ==
  ASSUME NEW N \in Nat, NEW b \in Bits(N)
  PROVE  /\ \A m \in 1..2*N : CodedBit(b, m) \in {0, 1}
         /\ EncodeBits(b) = [m \in 1..2*N |-> CodedBit(b, m)]
<1>1. Len(b) = N
  BY DEF Bits
<1>2. \A m : CodedBit(b, m) \in {0, 1}
  BY ConvolveBitType, Zenon DEF CodedBit
<1> DEFINE Code(n) == [m \in 1..2*n |-> CodedBit(b, m)]
           G == [n \in 0..N |-> [memory |-> Memory(b, n), code |-> Code(n)]]
           Body(f) == [n \in 0..N |->
             IF n = 0 THEN [memory |-> 0, code |-> <<>>] ELSE EncodeBit(f[n-1], b[n])]
           g == CHOOSE f : f = Body(f)
<1>3. \A n \in 0..N : Code(n) \in Seq({0, 1}) /\ Len(Code(n)) = 2*n
  <2>1. SUFFICES ASSUME NEW n \in 0..N PROVE Code(n) \in Seq({0, 1}) /\ Len(Code(n)) = 2*n
    BY Zenon
  <2>2. Code(n) \in [1..2*n -> {0, 1}] /\ 2*n \in Nat
    BY <1>2
  <2> HIDE DEF Code
  <2>3. QED
    BY <2>2
<1>4. ASSUME NEW n \in 0..N-1
      PROVE  EncodeBit(G[n], b[n+1]) = [memory |-> Memory(b, n+1), code |-> Code(n+1)]
  <2> DEFINE mem == Memory(b, n+1)
  <2>1. G[n].memory = Memory(b, n) /\ G[n].code = Code(n)
    <3>1. n \in 0..N
      OBVIOUS
    <3>2. QED
      BY <3>1, Zenon
  <2>2. UpdateMemory(G[n].memory, b[n+1]) = mem
    BY <2>1, StateStep, Zenon
  <2> DEFINE x == ConvolveBit(PolyA, mem)
             y == ConvolveBit(PolyB, mem)
  <2>3. /\ (2*n+1) % 2 = 1 /\ ((2*n+1) + 1) \div 2 = n + 1
        /\ (2*n+2) % 2 # 1 /\ ((2*n+2) + 1) \div 2 = n + 1
    OBVIOUS
  <2>4. x = CodedBit(b, 2*n+1) /\ y = CodedBit(b, 2*n+2)
    BY <2>3, Zenon DEF CodedBit
  <2> HIDE DEF x, y, mem
  <2>5. Code(n) \o <<x, y>> = Code(n+1)
    <3>1. n \in 0..N /\ n + 1 \in 0..N
      OBVIOUS
    <3>2. PICK s \in Seq({0, 1}) : s = Code(n) /\ Len(s) = 2*n
      BY <1>3, <3>1, Zenon
    <3>3. PICK t \in Seq({0, 1}) : t = Code(n+1) /\ Len(t) = 2*(n+1)
      BY <1>3, <3>1, Zenon
    <3>4. PICK u \in {0, 1}, v \in {0, 1} : u = x /\ v = y
      BY <1>2, <2>4, Zenon
    <3>5. \A i \in 1..2*n : s[i] = CodedBit(b, i)
      BY <3>2, Zenon
    <3>6. \A i \in 1..2*(n+1) : t[i] = CodedBit(b, i)
      BY <3>3, Zenon
    <3> HIDE DEF Code
    <3>7. \A i \in 1..2*n : t[i] = s[i]
      BY <3>5, <3>6
    <3>8. t[2*n+1] = u /\ t[2*n+2] = v
      <4>1. 2*n+1 \in 1..2*(n+1) /\ 2*n+2 \in 1..2*(n+1)
        OBVIOUS
      <4>2. QED
        BY <4>1, <3>4, <3>6, <2>4, Zenon
    <3>9. /\ s \o <<u, v>> \in Seq({0, 1}) /\ Len(s \o <<u, v>>) = 2*n + 2
          /\ \A i \in 1..2*n+2 : (s \o <<u, v>>)[i] = IF i <= 2*n THEN s[i] ELSE <<u, v>>[i - 2*n]
      <4>1. <<u, v>> \in Seq({0, 1}) /\ Len(<<u, v>>) = 2
        OBVIOUS
      <4>2. QED
        BY <3>2, <4>1, ConcatProperties
    <3>10. \A i \in 1..2*n+2 : (s \o <<u, v>>)[i] = t[i]
      <4>1. SUFFICES ASSUME NEW i \in 1..2*n+2 PROVE (s \o <<u, v>>)[i] = t[i]
        BY Zenon
      <4>2. CASE i <= 2*n
        BY <4>2, <3>7, <3>9
      <4>3. CASE i = 2*n + 1
        <5>1. i - 2*n = 1 /\ ~(i <= 2*n)
          BY <4>3
        <5>2. (s \o <<u, v>>)[i] = <<u, v>>[1]
          BY <3>9, <5>1, Zenon
        <5>3. QED
          BY <5>2, <3>8, <4>3
      <4>4. CASE i = 2*n + 2
        <5>1. i - 2*n = 2 /\ ~(i <= 2*n)
          BY <4>4
        <5>2. (s \o <<u, v>>)[i] = <<u, v>>[2]
          BY <3>9, <5>1, Zenon
        <5>3. QED
          BY <5>2, <3>8, <4>4
      <4>5. i <= 2*n \/ i = 2*n + 1 \/ i = 2*n + 2
        OBVIOUS
      <4>6. QED
        BY <4>2, <4>3, <4>4, <4>5, Zenon
    <3>11. 2*(n+1) = 2*n + 2
      OBVIOUS
    <3>12. s \o <<u, v>> = t
      BY <3>3, <3>9, <3>10, <3>11, SeqEqual, Zenon
    <3>13. QED
      BY <3>2, <3>3, <3>4, <3>12, Zenon
  <2>6. EncodeBit(G[n], b[n+1]) = [memory |-> mem, code |-> Code(n) \o <<x, y>>]
    BY <2>1, <2>2, Zenon DEF EncodeBit, x, y
  <2>7. QED
    BY <2>5, <2>6, Zenon DEF mem
<1>5. G[0] = [memory |-> 0, code |-> <<>>]
  <2>1. Memory(b, 0) = 0
    BY DEF Memory, State, Bit
  <2>2. Code(0) = <<>>
    <3>1. 0 \in 0..N /\ 2*0 = 0
      OBVIOUS
    <3>2. Code(0) \in Seq({0, 1}) /\ Len(Code(0)) = 0
      BY <1>3, <3>1, Zenon
    <3> HIDE DEF Code
    <3>3. QED
      BY <3>2, EmptySeq, Zenon
  <2>3. 0 \in 0..N
    OBVIOUS
  <2>4. QED
    BY <2>1, <2>2, <2>3, Zenon
<1>6. \A n \in 0..N : n # 0 => n - 1 \in 0..N-1 /\ (n - 1) + 1 = n
  OBVIOUS
<1>7. G = Body(G)
  <2>1. ASSUME NEW n \in 0..N
        PROVE  G[n] = IF n = 0 THEN [memory |-> 0, code |-> <<>>] ELSE EncodeBit(G[n-1], b[n])
    <3>1. CASE n = 0
      BY <3>1, <1>5, Zenon
    <3>2. CASE n # 0
      <4>1. EncodeBit(G[n-1], b[(n-1)+1]) = [memory |-> Memory(b, (n-1)+1), code |-> Code((n-1)+1)]
        BY <1>4, <1>6, <3>2, Zenon
      <4>2. G[n] = [memory |-> Memory(b, n), code |-> Code(n)]
        BY Zenon
      <4> HIDE DEF G, Code
      <4>3. QED
        BY <1>6, <3>2, <4>1, <4>2, Zenon
    <3>3. QED
      BY <3>1, <3>2, Zenon
  <2>2. G = [n \in 0..N |-> G[n]]
    BY Zenon
  <2> HIDE DEF G
  <2>3. QED
    BY <2>1, <2>2, Zenon
<1>8. g = Body(g)
  <2> HIDE DEF Body, G
  <2>1. QED
    BY <1>7, Zenon
<1> HIDE DEF g
<1> DEFINE T == {n \in 0..N : g[n] = G[n]}
<1>9. 0 \in T
  <2>1. 0 \in 0..N
    OBVIOUS
  <2>2. g[0] = [memory |-> 0, code |-> <<>>]
    BY <1>8, <2>1, Zenon
  <2> HIDE DEF G
  <2>3. QED
    BY <1>5, <2>1, <2>2, Zenon
<1>10. ASSUME NEW n \in 0..N-1, n \in T PROVE n + 1 \in T
  <2>1. n + 1 \in 0..N /\ n + 1 # 0 /\ (n + 1) - 1 = n
    OBVIOUS
  <2>2. g[n+1] = EncodeBit(g[n], b[n+1])
    BY <1>8, <2>1, Zenon
  <2>3. g[n] = G[n]
    BY <1>10, Zenon
  <2>4. G[n+1] = [memory |-> Memory(b, n+1), code |-> Code(n+1)]
    BY <2>1, Zenon
  <2> HIDE DEF G, Code
  <2>5. QED
    BY <1>4, <2>1, <2>2, <2>3, <2>4, Zenon
<1>11. 0..N \subseteq T
  <2> HIDE DEF T
  <2>1. QED
    BY <1>9, <1>10, BoundedInduction
<1>12. N \in 0..N
  OBVIOUS
<1>13. EncodeBits(b) = g[N].code
  BY <1>1, Zenon DEF EncodeBits, g
<1>14. g[N] = [memory |-> Memory(b, N), code |-> Code(N)]
  <2>1. g[N] = G[N]
    BY <1>11, <1>12, Zenon
  <2>2. QED
    BY <1>12, <2>1, Zenon
<1>15. EncodeBits(b) = Code(N)
  <2>1. \A x, y : [memory |-> x, code |-> y].code = y
    OBVIOUS
  <2> HIDE DEF Code
  <2>2. QED
    BY <1>13, <1>14, <2>1, Zenon
<1>16. QED
  BY <1>2, <1>15, Zenon

-----------------------------------------------------------------------------
\* How far what was received of a path's first pairs is from what they should be.
Receivable(N) == [1..2*N -> Soft]
PairCost(b, soft, n) == Branch(Memory(b, n), soft[2*n-1], soft[2*n])
DistanceTo(b, soft, N) ==
  LET to[n \in 0..N] == IF n = 0 THEN 0 ELSE to[n-1] + PairCost(b, soft, n)
  IN  to

\* A pair of a path costs at most 28.
LEMMA PairCostBounds ==
  ASSUME NEW N \in Nat, NEW soft \in Receivable(N), NEW b, NEW n \in 1..N
  PROVE  PairCost(b, soft, n) \in 0..28
<1>1. 2*n-1 \in 1..2*N /\ 2*n \in 1..2*N
  OBVIOUS
<1>2. soft[2*n-1] \in Soft /\ soft[2*n] \in Soft
  BY <1>1 DEF Receivable
<1>3. QED
  BY <1>2, BranchBounds, Zenon DEF PairCost

\* The distance to a path grows by its pairs' costs, from 0.
LEMMA DistanceToIs ==
  ASSUME NEW N \in Nat, NEW b, NEW soft \in Receivable(N), NEW D, D = DistanceTo(b, soft, N)
  PROVE  /\ D \in [0..N -> Nat] /\ D[0] = 0
         /\ \A n \in 1..N : D[n] = D[n-1] + PairCost(b, soft, n)
         /\ \A n \in 0..N : D[n] <= 28 * n
<1> DEFINE c(n) == IF n + 1 \in 1..N THEN PairCost(b, soft, n + 1) ELSE 0
           step == [n \in Nat |-> [v \in Nat |-> v + c(n)]]
           Body(f) == [n \in 0..N |-> IF n = 0 THEN 0 ELSE f[n-1] + PairCost(b, soft, n)]
<1>1. \A n \in Nat : c(n) \in Nat
  <2>1. \A n \in 1..N : PairCost(b, soft, n) \in Nat
    <3>1. 0..28 \subseteq Nat
      OBVIOUS
    <3>2. QED
      BY <3>1, PairCostBounds, Zenon
  <2>2. QED
    BY <2>1
<1>2. PICK f : Begins(f, N, Nat, 0, step)
  <2> HIDE DEF c
  <2>1. \A n \in Nat : \A v \in Nat : v + c(n) \in Nat
    BY <1>1
  <2>2. step \in [Nat -> [Nat -> Nat]]
    BY <2>1
  <2> HIDE DEF step
  <2>3. 0 \in Nat
    OBVIOUS
  <2>4. QED
    BY <2>2, <2>3, BeginningsExist, Zenon
<1>3. f \in [0..N -> Nat] /\ f[0] = 0
  BY <1>2, Zenon DEF Begins
<1>4. ASSUME NEW n \in 1..N PROVE f[n] = f[n-1] + PairCost(b, soft, n)
  <2>1. n - 1 \in 0..N-1 /\ n - 1 \in Nat /\ (n - 1) + 1 = n /\ n - 1 \in 0..N
    OBVIOUS
  <2>2. f[(n-1)+1] = step[n-1][f[n-1]]
    BY <1>2, <2>1, Zenon DEF Begins
  <2>3. f[n-1] \in Nat
    BY <1>3, <2>1, Zenon
  <2>4. step[n-1][f[n-1]] = f[n-1] + c(n-1)
    <3> HIDE DEF c
    <3>1. QED
      BY <2>1, <2>3, Zenon
  <2>5. c(n-1) = PairCost(b, soft, n)
    BY <2>1
  <2>6. QED
    BY <2>1, <2>2, <2>4, <2>5, Zenon
<1> HIDE DEF step, c
<1>5. f = Body(f)
  <2>1. \A n \in 0..N : n # 0 => n \in 1..N
    OBVIOUS
  <2>2. f = [n \in 0..N |-> f[n]]
    BY <1>3, Zenon
  <2>3. \A n \in 0..N : f[n] = IF n = 0 THEN 0 ELSE f[n-1] + PairCost(b, soft, n)
    BY <1>3, <1>4, <2>1, Zenon
  <2>4. QED
    BY <2>2, <2>3, Zenon
<1>6. D = Body(D)
  <2>1. D = CHOOSE g : g = Body(g)
    BY Zenon DEF DistanceTo
  <2> HIDE DEF Body
  <2>2. QED
    BY <1>5, <2>1, Zenon
<1>7. D \in [0..N -> Nat] /\ D[0] = 0 /\ \A n \in 1..N : D[n] = D[n-1] + PairCost(b, soft, n)
  <2> DEFINE T == {n \in 0..N : D[n] = f[n]}
  <2>0. 0 \in 0..N /\ \A n \in 1..N : n \in 0..N /\ n # 0
    OBVIOUS
  <2>1. D[0] = 0
    BY <1>6, <2>0, Zenon
  <2>2. \A n \in 1..N : D[n] = D[n-1] + PairCost(b, soft, n)
    BY <1>6, <2>0, Zenon
  <2>3. 0 \in T
    BY <1>3, <2>0, <2>1, Zenon
  <2>4. ASSUME NEW n \in 0..N-1, n \in T PROVE n + 1 \in T
    <3>1. n + 1 \in 1..N /\ n + 1 \in 0..N /\ (n + 1) - 1 = n
      OBVIOUS
    <3>2. QED
      BY <1>4, <2>2, <2>4, <3>1, Zenon
  <2>5. 0..N \subseteq T
    <3> HIDE DEF T
    <3>1. QED
      BY <2>3, <2>4, BoundedInduction
  <2>6. D = [n \in 0..N |-> D[n]]
    BY <1>6, Zenon
  <2>7. \A n \in 0..N : D[n] \in Nat
    BY <1>3, <2>5, Zenon
  <2>8. QED
    BY <2>1, <2>2, <2>6, <2>7, Zenon
<1>8. \A n \in 0..N : D[n] <= 28 * n
  <2> DEFINE T == {n \in 0..N : D[n] <= 28 * n}
  <2>1. 0 \in T
    BY <1>7
  <2>2. ASSUME NEW n \in 0..N-1, n \in T PROVE n + 1 \in T
    <3>1. n + 1 \in 1..N /\ n + 1 \in 0..N /\ (n + 1) - 1 = n /\ n \in 0..N
      OBVIOUS
    <3>2. PICK x \in Nat, y \in 0..28 : x = D[n] /\ y = PairCost(b, soft, n + 1)
      BY <1>7, <3>1, PairCostBounds, Zenon
    <3>3. D[n+1] = x + y
      BY <1>7, <3>1, <3>2, Zenon
    <3>4. x <= 28 * n
      BY <2>2, <3>2
    <3>5. x + y <= 28 * (n + 1)
      BY <3>4
    <3>6. QED
      BY <3>1, <3>3, <3>5, Zenon
  <2>3. 0..N \subseteq T
    <3> HIDE DEF T
    <3>1. QED
      BY <2>1, <2>2, BoundedInduction
  <2>4. QED
    BY <2>3
<1>9. QED
  BY <1>7, <1>8, Zenon

\* Two paths that begin alike are equally far for as long as they are alike.
LEMMA AlikeBits ==
  ASSUME NEW N \in Nat, NEW b \in Bits(N), NEW c \in Bits(N), NEW t \in 0..N,
         \A n \in 1..t : b[n] = c[n]
  PROVE  /\ \A n \in Int : n <= t => Bit(b, n) = Bit(c, n)
         /\ \A n \in 0..t : State(b, n) = State(c, n) /\ Memory(b, n) = Memory(c, n)
<1>1. \A n \in Int : n <= t => Bit(b, n) = Bit(c, n)
  <2>1. SUFFICES ASSUME NEW n \in Int, n <= t PROVE Bit(b, n) = Bit(c, n)
    BY Zenon
  <2>2. n >= 1 => n \in 1..t
    BY <2>1
  <2>3. QED
    BY <2>2, Zenon DEF Bit
<1>2. ASSUME NEW n \in 0..t PROVE State(b, n) = State(c, n) /\ Memory(b, n) = Memory(c, n)
  <2>1. /\ n \in Int /\ n <= t /\ n-1 \in Int /\ n-1 <= t /\ n-2 \in Int /\ n-2 <= t
        /\ n-3 \in Int /\ n-3 <= t /\ n-4 \in Int /\ n-4 <= t
    OBVIOUS
  <2>2. QED
    BY <1>1, <2>1, Zenon DEF State, Memory
<1>3. QED
  BY <1>1, <1>2, Zenon

\* Two paths that begin alike are equally far away there.
LEMMA AlikeDistances ==
  ASSUME NEW N \in Nat, NEW b \in Bits(N), NEW c \in Bits(N), NEW soft \in Receivable(N),
         NEW t \in 0..N, \A n \in 1..t : b[n] = c[n]
  PROVE  DistanceTo(b, soft, N)[t] = DistanceTo(c, soft, N)[t]
<1> DEFINE D == DistanceTo(b, soft, N)
           E == DistanceTo(c, soft, N)
           T == {n \in 0..t : D[n] = E[n]}
<1>1. D[0] = 0 /\ \A n \in 1..N : D[n] = D[n-1] + PairCost(b, soft, n)
  <2> HIDE DEF D
  <2>1. D = DistanceTo(b, soft, N)
    BY DEF D
  <2>2. QED
    BY <2>1, DistanceToIs, Zenon
<1>2. E[0] = 0 /\ \A n \in 1..N : E[n] = E[n-1] + PairCost(c, soft, n)
  <2> HIDE DEF E
  <2>1. E = DistanceTo(c, soft, N)
    BY DEF E
  <2>2. QED
    BY <2>1, DistanceToIs, Zenon
<1> HIDE DEF D, E
<1>3. 0 \in T
  BY <1>1, <1>2
<1>4. ASSUME NEW n \in 0..t-1, n \in T PROVE n + 1 \in T
  <2>1. n + 1 \in 1..N /\ n + 1 \in 0..t /\ (n + 1) - 1 = n
    OBVIOUS
  <2>2. Memory(b, n + 1) = Memory(c, n + 1)
    BY <2>1, AlikeBits, Zenon
  <2>3. PairCost(b, soft, n + 1) = PairCost(c, soft, n + 1)
    BY <2>2, Zenon DEF PairCost
  <2>4. D[n] = E[n]
    BY <1>4, Zenon
  <2>5. QED
    BY <1>1, <1>2, <2>1, <2>3, <2>4, Zenon
<1>5. t \in Nat /\ t \in 0..t
  OBVIOUS
<1>6. 0..t \subseteq T
  <2> HIDE DEF T
  <2>1. QED
    BY <1>3, <1>4, <1>5, BoundedInduction
<1>7. QED
  BY <1>5, <1>6, Zenon DEF D, E

-----------------------------------------------------------------------------
\* The distance summed bit by bit.
DistanceOf(ideal, soft) ==
  LET upTo[n \in 0..Len(soft)] ==
        IF n = 0 THEN 0 ELSE upTo[n-1] + SoftCost(ideal[n], soft[n])
  IN  upTo[Len(soft)]

\* The distance summed bit by bit is that summed pair by pair.
LEMMA DistanceIs ==
  ASSUME NEW N \in Nat, NEW b \in Bits(N), NEW soft \in Receivable(N),
         NEW ideal, \A m \in 1..2*N : ideal[m] = Ideal(CodedBit(b, m))
  PROVE  DistanceOf(ideal, soft) = DistanceTo(b, soft, N)[N]
<1>1. PICK D \in [0..N -> Nat] : D = DistanceTo(b, soft, N)
  BY DistanceToIs
<1>2. D[0] = 0 /\ \A n \in 1..N : D[n] = D[n-1] + PairCost(b, soft, n)
  BY <1>1, DistanceToIs, Zenon
<1>3. Len(soft) = 2*N
  BY DEF Receivable
<1> DEFINE Body(f) == [m \in 0..2*N |-> IF m = 0 THEN 0 ELSE f[m-1] + SoftCost(ideal[m], soft[m])]
           G == [m \in 0..2*N |->
                   IF m % 2 = 0 THEN D[m \div 2]
                   ELSE D[m \div 2] + SoftCost(ideal[m], soft[m])]
           g == CHOOSE f : f = Body(f)
<1>4. \A m \in 1..2*N : SoftCost(ideal[m], soft[m]) \in Nat
  <2>1. SUFFICES ASSUME NEW m \in 1..2*N PROVE SoftCost(ideal[m], soft[m]) \in Nat
    BY Zenon
  <2>2. PICK x \in {0, 1} : x = CodedBit(b, m)
    BY EncodeBitsIs, Zenon
  <2>3. soft[m] \in Soft
    BY DEF Receivable
  <2>4. SoftCost(Ideal(x), soft[m]) \in 0..14
    BY <2>3, SoftCostBounds, Zenon
  <2>5. \A k \in 0..14 : k \in Nat
    OBVIOUS
  <2>6. QED
    BY <2>2, <2>4, <2>5, Zenon
<1>5. ASSUME NEW n \in 1..N
      PROVE  SoftCost(ideal[2*n-1], soft[2*n-1]) + SoftCost(ideal[2*n], soft[2*n]) = PairCost(b, soft, n)
  <2>1. /\ 2*n-1 \in 1..2*N /\ 2*n \in 1..2*N
        /\ (2*n-1) % 2 = 1 /\ (2*n) % 2 # 1
        /\ ((2*n-1) + 1) \div 2 = n /\ (2*n + 1) \div 2 = n
    OBVIOUS
  <2>2. CodedBit(b, 2*n-1) = ConvolveBit(PolyA, Memory(b, n))
        /\ CodedBit(b, 2*n) = ConvolveBit(PolyB, Memory(b, n))
    BY <2>1, Zenon DEF CodedBit
  <2>3. ideal[2*n-1] = Ideal(CodedBit(b, 2*n-1)) /\ ideal[2*n] = Ideal(CodedBit(b, 2*n))
    BY <2>1, Zenon
  <2>4. QED
    BY <2>2, <2>3, Zenon DEF PairCost, Branch
<1>6. G[0] = 0
  BY <1>2
<1>7. \A m \in 1..2*N : G[m] = G[m-1] + SoftCost(ideal[m], soft[m])
  <2>1. SUFFICES ASSUME NEW m \in 1..2*N PROVE G[m] = G[m-1] + SoftCost(ideal[m], soft[m])
    BY Zenon
  <2>2. m \in 0..2*N /\ m-1 \in 0..2*N
    OBVIOUS
  <2>3. CASE m % 2 = 1
    <3>1. (m-1) % 2 = 0 /\ (m-1) \div 2 = m \div 2 /\ m % 2 # 0
      BY <2>3
    <3>2. QED
      BY <2>2, <3>1, Zenon
  <2>4. CASE m % 2 = 0
    <3>1. PICK n \in 1..N : m = 2*n
      <4>1. m = 2*(m \div 2) /\ m \div 2 \in 1..N
        BY <2>4
      <4>2. QED
        BY <4>1, Zenon
    <3>2. (m-1) % 2 # 0 /\ (m-1) \div 2 = n - 1 /\ m \div 2 = n /\ m - 1 = 2*n-1
      BY <3>1
    <3>3. G[m] = D[n] /\ G[m-1] = D[n-1] + SoftCost(ideal[2*n-1], soft[2*n-1])
      BY <2>2, <2>4, <3>2, Zenon
    <3>4. PICK x \in Nat, y \in Nat, z \in Nat :
            /\ x = D[n-1] /\ y = SoftCost(ideal[2*n-1], soft[2*n-1])
            /\ z = SoftCost(ideal[2*n], soft[2*n])
      <4>1. n-1 \in 0..N /\ 2*n-1 \in 1..2*N /\ 2*n \in 1..2*N
        OBVIOUS
      <4>2. QED
        BY <1>1, <1>4, <4>1, Zenon
    <3>5. D[n] = x + (y + z)
      BY <1>2, <1>5, <3>4, Zenon
    <3>6. x + (y + z) = (x + y) + z
      OBVIOUS
    <3> HIDE DEF G
    <3>7. QED
      BY <3>1, <3>3, <3>4, <3>5, <3>6, Zenon
  <2>5. m % 2 = 0 \/ m % 2 = 1
    OBVIOUS
  <2>6. QED
    BY <2>3, <2>4, <2>5, Zenon
<1>8. G = Body(G)
  <2>1. \A m \in 0..2*N : m # 0 => m \in 1..2*N
    OBVIOUS
  <2>2. G = [m \in 0..2*N |-> G[m]]
    BY Zenon
  <2> HIDE DEF G
  <2>3. \A m \in 0..2*N : G[m] = IF m = 0 THEN 0 ELSE G[m-1] + SoftCost(ideal[m], soft[m])
    BY <1>6, <1>7, <2>1, Zenon
  <2>4. QED
    BY <2>2, <2>3, Zenon
<1>9. g = Body(g)
  <2> HIDE DEF Body, G
  <2>1. QED
    BY <1>8, Zenon
<1> HIDE DEF g
<1> DEFINE T == {m \in 0..2*N : g[m] = G[m]}
<1>10. 0 \in T
  <2>1. 0 \in 0..2*N
    OBVIOUS
  <2>2. g[0] = 0
    BY <1>9, <2>1, Zenon
  <2> HIDE DEF G
  <2>3. QED
    BY <1>6, <2>1, <2>2, Zenon
<1>11. ASSUME NEW m \in 0..2*N-1, m \in T PROVE m + 1 \in T
  <2>1. m + 1 \in 0..2*N /\ m + 1 # 0 /\ (m + 1) - 1 = m /\ m + 1 \in 1..2*N
    OBVIOUS
  <2> HIDE DEF G
  <2>2. g[m+1] = g[m] + SoftCost(ideal[m+1], soft[m+1])
    BY <1>9, <2>1, Zenon
  <2>3. g[m] = G[m]
    BY <1>11, Zenon
  <2>4. QED
    BY <1>7, <2>1, <2>2, <2>3, Zenon
<1>12. 0..2*N \subseteq T
  <2>1. 2*N \in Nat
    OBVIOUS
  <2> HIDE DEF T
  <2>2. QED
    BY <1>10, <1>11, <2>1, BoundedInduction
<1>13. 2*N \in 0..2*N /\ (2*N) % 2 = 0 /\ (2*N) \div 2 = N
  OBVIOUS
<1>14. DistanceOf(ideal, soft) = g[2*N]
  BY <1>3, Zenon DEF DistanceOf, g
<1>15. G[2*N] = D[N]
  BY <1>13, Zenon
<1> HIDE DEF G
<1>16. g[2*N] = G[2*N]
  BY <1>12, <1>13, Zenon
<1>17. QED
  BY <1>1, <1>14, <1>15, <1>16, Zenon

-----------------------------------------------------------------------------
(***************************************************************************)
(* What the decoder knows after t pairs: no path to a state is nearer than  *)
(* the state's metric; a metric that is not one of a state where no path    *)
(* leads is the distance of a path that the history leads back along.       *)
(***************************************************************************)
Follows(b, history, t) ==
  \A k \in 1..t : history[k][State(b, k)] <=> Bit(b, k-4) = 1

NoneNearer(metrics, soft, N, t) ==
  \A b \in Bits(N) : metrics[State(b, t)] <= DistanceTo(b, soft, N)[t]

Attained(metrics, history, soft, N, t) ==
  \A i \in States : metrics[i] < MaxMetric =>
    \E b \in Bits(N) :
      State(b, t) = i /\ DistanceTo(b, soft, N)[t] = metrics[i] /\ Follows(b, history, t)

TrellisType(trellis, t) ==
  /\ trellis = [metrics |-> trellis.metrics, history |-> trellis.history]
  /\ trellis.metrics \in [States -> Nat]
  /\ trellis.history \in Seq([States -> BOOLEAN]) /\ Len(trellis.history) = t
  /\ \A i \in States : trellis.metrics[i] <= MaxMetric + 28 * t

Searched(trellis, soft, N, t) ==
  /\ TrellisType(trellis, t)
  /\ NoneNearer(trellis.metrics, soft, N, t)
  /\ Attained(trellis.metrics, trellis.history, soft, N, t)

\* The metric of a state that is not reached yet is a positive number.
LEMMA MaxMetricType == MaxMetric \in Nat /\ 0 < MaxMetric
  BY DEF MaxMetric

\* The decoder's first trellis is that of a search that has taken no pair yet.
LEMMA SearchStarts ==
  ASSUME NEW N \in Nat, NEW soft \in Receivable(N)
  PROVE  Searched(StartTrellis, soft, N, 0)
<1> DEFINE m == StartTrellis.metrics
           h == StartTrellis.history
<1>1. m = [i \in States |-> IF i = 0 THEN 0 ELSE MaxMetric] /\ h = <<>>
  BY DEF StartTrellis
<1>2. TrellisType(StartTrellis, 0)
  <2>1. m \in [States -> Nat] /\ \A i \in States : m[i] <= MaxMetric + 28 * 0
    BY <1>1, MaxMetricType
  <2>2. h \in Seq([States -> BOOLEAN]) /\ Len(h) = 0
    BY <1>1
  <2>3. StartTrellis = [metrics |-> m, history |-> h]
    BY DEF StartTrellis
  <2>4. QED
    BY <2>1, <2>2, <2>3, Zenon DEF TrellisType
<1>3. \A b \in Bits(N) : State(b, 0) = 0 /\ DistanceTo(b, soft, N)[0] = 0
  <2>1. \A b \in Bits(N) : State(b, 0) = 0
    BY DEF State, Bit
  <2>2. \A b \in Bits(N) : DistanceTo(b, soft, N)[0] = 0
    BY DistanceToIs, Zenon
  <2>3. QED
    BY <2>1, <2>2, Zenon
<1>4. m[0] = 0 /\ 0 <= 0 /\ \A i \in States : m[i] < MaxMetric => i = 0
  BY <1>1, Numbers, MaxMetricType
<1> HIDE DEF m, h
<1>5. NoneNearer(m, soft, N, 0)
  BY <1>3, <1>4, Zenon DEF NoneNearer
<1>6. [n \in 1..N |-> 0] \in Bits(N)
  BY DEF Bits
<1>7. \A b : Follows(b, h, 0)
  BY DEF Follows
<1>8. Attained(m, h, soft, N, 0)
  BY <1>3, <1>4, <1>6, <1>7, Zenon DEF Attained
<1>9. QED
  BY <1>2, <1>5, <1>8, Zenon DEF Searched, m, h

\* A step of the search: each state takes the nearer of the two ways into it.
ViaLower(metrics, i, p, q) == metrics[i \div 2] + Branch(i, p, q)
ViaUpper(metrics, i, p, q) == metrics[i \div 2 + 8] + Branch(i + 16, p, q)
Advances(trellis, next, p, q) ==
  /\ next = [metrics |-> next.metrics, history |-> next.history]
  /\ next.metrics \in [States -> Nat]
  /\ \E upper \in [States -> BOOLEAN] :
       /\ next.history = Append(trellis.history, upper)
       /\ \A i \in States :
            /\ upper[i] <=> ViaLower(trellis.metrics, i, p, q) > ViaUpper(trellis.metrics, i, p, q)
            /\ next.metrics[i] = IF upper[i] THEN ViaUpper(trellis.metrics, i, p, q)
                                             ELSE ViaLower(trellis.metrics, i, p, q)

\* An iteration of the decoder's loop takes, for each state, the nearer of the two ways into
\* it, the lower when they are equally near, and remembers which.
LEMMA AddPairIs ==
  ASSUME NEW t \in Nat, NEW trellis, TrellisType(trellis, t),
         NEW p \in Soft, NEW q \in Soft
  PROVE  Advances(trellis, AddPair(trellis, <<p, q>>), p, q)
<1> DEFINE m == trellis.metrics
           lower == [i \in States |-> FromLower(i, m, <<p, q>>)]
           higher == [i \in States |-> FromUpper(i, m, <<p, q>>)]
           upper == [i \in States |-> TakesUpper(lower[i], higher[i])]
           low(i) == ViaLower(m, i, p, q)
           up(i) == ViaUpper(m, i, p, q)
           next == AddPair(trellis, <<p, q>>)
<1>1. next = [metrics |-> [i \in States |-> IF upper[i] THEN higher[i] ELSE lower[i]],
              history |-> Append(trellis.history, upper)]
  BY Zenon DEF AddPair
<1>2. ASSUME NEW i \in States
      PROVE  /\ lower[i] = low(i) /\ higher[i] = up(i)
             /\ low(i) \in Nat /\ up(i) \in Nat
  <2>1. i \in 0..15 /\ i \div 2 \in States /\ i \div 2 + 8 \in States
    BY Numbers
  <2>2. /\ (IF i % 2 = 0 THEN Cost0(i \div 2, <<p, q>>) ELSE Cost1(i \div 2, <<p, q>>)) = Branch(i, p, q)
        /\ (IF i % 2 = 0 THEN Cost1(i \div 2, <<p, q>>) ELSE Cost0(i \div 2, <<p, q>>)) = Branch(i + 16, p, q)
    BY <2>1, BranchCosts, Zenon
  <2>3. FromLower(i, m, <<p, q>>) = low(i)
    BY <2>2, Zenon DEF FromLower, ViaLower
  <2>4. FromUpper(i, m, <<p, q>>) = up(i)
    BY <2>2, Numbers, Zenon DEF FromUpper, ViaUpper
  <2>5. m[i \div 2] \in Nat /\ m[i \div 2 + 8] \in Nat
    BY <2>1, Zenon DEF TrellisType
  <2>6. PICK x \in 0..28, y \in 0..28 : x = Branch(i, p, q) /\ y = Branch(i + 16, p, q)
    BY BranchBounds, Zenon
  <2>7. \A u \in Nat, v \in 0..28 : u + v \in Nat
    OBVIOUS
  <2>8. low(i) \in Nat /\ up(i) \in Nat
    BY <2>5, <2>6, <2>7, Zenon DEF ViaLower, ViaUpper
  <2> HIDE DEF low, up, m
  <2>9. QED
    BY <2>3, <2>4, <2>8, Zenon
<1> HIDE DEF low, up, lower, higher, next
<1>3. upper \in [States -> BOOLEAN] /\ \A i \in States : upper[i] <=> low(i) > up(i)
  <2>1. ASSUME NEW i \in States PROVE upper[i] = (low(i) > up(i))
    BY <1>2, Zenon DEF TakesUpper
  <2>2. \A i \in States : (low(i) > up(i)) \in BOOLEAN
    BY <1>2
  <2>3. upper = [i \in States |-> upper[i]]
    BY Zenon
  <2>4. \A i \in States : upper[i] \in BOOLEAN
    BY <2>1, <2>2, Zenon
  <2> HIDE DEF upper
  <2>5. upper \in [States -> BOOLEAN]
    BY <2>3, <2>4, Zenon
  <2>6. QED
    BY <2>1, <2>5, Zenon
<1> HIDE DEF upper
<1>4. next.history = Append(trellis.history, upper)
      /\ next.metrics = [i \in States |-> IF upper[i] THEN higher[i] ELSE lower[i]]
  BY <1>1
<1>5. \A i \in States : next.metrics[i] = IF upper[i] THEN up(i) ELSE low(i)
  BY <1>2, <1>4, Zenon
<1>6. next.metrics \in [States -> Nat]
  <2>1. \A i \in States : (IF upper[i] THEN higher[i] ELSE lower[i]) \in Nat
    BY <1>2, Zenon
  <2>2. QED
    BY <1>4, <2>1, Zenon
<1>7. next = [metrics |-> next.metrics, history |-> next.history]
  BY <1>1, <1>4, Zenon
<1>8. QED
  BY <1>3, <1>4, <1>5, <1>6, <1>7, Zenon DEF low, up, m, next, Advances

\* An iteration of the decoder's loop searches one pair more.
LEMMA SearchGoesOn ==
  ASSUME NEW N \in Nat, NEW soft \in Receivable(N), NEW t \in 0..N-1,
         NEW trellis, Searched(trellis, soft, N, t),
         NEW next, next = AddPair(trellis, <<soft[2*t+1], soft[2*t+2]>>)
  PROVE  Searched(next, soft, N, t + 1)
<1> DEFINE p == soft[2*t+1]
           q == soft[2*t+2]
           m == trellis.metrics
           h == trellis.history
           D(b) == DistanceTo(b, soft, N)
<1>1. p \in Soft /\ q \in Soft
  <2>1. 2*t+1 \in 1..2*N /\ 2*t+2 \in 1..2*N
    OBVIOUS
  <2>2. QED
    BY <2>1, Zenon DEF Receivable
<1>2. /\ t \in Nat /\ t \in 0..N /\ t + 1 \in 1..N /\ t + 1 \in 0..N /\ (t + 1) - 1 = t
      /\ 2*(t+1)-1 = 2*t+1 /\ 2*(t+1) = 2*t+2
      /\ (t + 1) - 4 = t - 3
  OBVIOUS
<1>3. TrellisType(trellis, t) /\ NoneNearer(m, soft, N, t) /\ Attained(m, h, soft, N, t)
  BY Zenon DEF Searched
<1> DEFINE low(i) == ViaLower(m, i, p, q)
           up(i) == ViaUpper(m, i, p, q)
<1>4. Advances(trellis, next, p, q)
  BY <1>1, <1>2, <1>3, AddPairIs, Zenon
<1>5. PICK upper \in [States -> BOOLEAN] :
        /\ next.history = Append(h, upper)
        /\ \A i \in States : /\ upper[i] <=> low(i) > up(i)
                             /\ next.metrics[i] = IF upper[i] THEN up(i) ELSE low(i)
  BY <1>4, Zenon DEF Advances
<1>5a. next = [metrics |-> next.metrics, history |-> next.history]
       /\ next.metrics \in [States -> Nat]
  BY <1>4, Zenon DEF Advances
<1>5b. /\ next.history \in Seq([States -> BOOLEAN]) /\ Len(next.history) = t + 1
       /\ next.history[t + 1] = upper
       /\ \A k \in 1..t : next.history[k] = h[k]
  <2>1. PICK hist \in Seq([States -> BOOLEAN]) : hist = h /\ Len(hist) = t
    BY <1>3, Zenon DEF TrellisType
  <2>2. /\ Append(hist, upper) \in Seq([States -> BOOLEAN]) /\ Len(Append(hist, upper)) = t + 1
        /\ Append(hist, upper)[t + 1] = upper
        /\ \A k \in 1..t : Append(hist, upper)[k] = hist[k]
    BY <2>1
  <2>3. QED
    BY <1>5, <2>1, <2>2, Zenon
<1>6. ASSUME NEW i \in States
      PROVE  /\ i \in 0..15 /\ i \div 2 \in States /\ i \div 2 + 8 \in States
             /\ m[i \div 2] \in Nat /\ m[i \div 2 + 8] \in Nat
             /\ Branch(i, p, q) \in 0..28 /\ Branch(i + 16, p, q) \in 0..28
             /\ low(i) \in Nat /\ up(i) \in Nat
             /\ next.metrics[i] \in Nat /\ next.metrics[i] <= low(i) /\ next.metrics[i] <= up(i)
  <2>1. i \in 0..15 /\ i \div 2 \in States /\ i \div 2 + 8 \in States
    BY Numbers
  <2>2. m[i \div 2] \in Nat /\ m[i \div 2 + 8] \in Nat
    BY <1>3, <2>1, Zenon DEF TrellisType
  <2>3. Branch(i, p, q) \in 0..28 /\ Branch(i + 16, p, q) \in 0..28
    BY <1>1, BranchBounds, Zenon
  <2>4. low(i) \in Nat /\ up(i) \in Nat
    <3>1. \A u \in Nat, v \in 0..28 : u + v \in Nat
      OBVIOUS
    <3>2. QED
      BY <2>2, <2>3, <3>1, Zenon DEF ViaLower, ViaUpper
  <2>5. PICK x \in Nat, y \in Nat : x = low(i) /\ y = up(i)
    BY <2>4, Zenon
  <2>6. (upper[i] <=> x > y) /\ next.metrics[i] = IF upper[i] THEN y ELSE x
    BY <1>5, <2>5, Zenon
  <2>7. next.metrics[i] \in Nat /\ next.metrics[i] <= x /\ next.metrics[i] <= y
    <3>1. CASE x > y
      <4>1. next.metrics[i] = y
        BY <2>6, <3>1, Zenon
      <4>2. QED
        BY <3>1, <4>1
    <3>2. CASE ~(x > y)
      <4>1. next.metrics[i] = x
        BY <2>6, <3>2, Zenon
      <4>2. QED
        BY <3>2, <4>1
    <3>3. QED
      BY <3>1, <3>2, Zenon
  <2> HIDE DEF low, up
  <2>8. QED
    BY <2>1, <2>2, <2>3, <2>4, <2>5, <2>7, Zenon
<1>7. TrellisType(next, t + 1)
  <2>1. next.history \in Seq([States -> BOOLEAN]) /\ Len(next.history) = t + 1
    BY <1>5b, Zenon
  <2>2. ASSUME NEW i \in States PROVE next.metrics[i] <= MaxMetric + 28 * (t + 1)
    <3>1. PICK M \in Nat : M = MaxMetric
      BY MaxMetricType, Zenon
    <3>2. m[i \div 2] <= M + 28 * t
      BY <1>3, <1>6, <3>1, Zenon DEF TrellisType
    <3>3. PICK x \in Nat, y \in 0..28 : x = m[i \div 2] /\ y = Branch(i, p, q)
      BY <1>6, Zenon
    <3>4. next.metrics[i] \in Nat /\ next.metrics[i] <= x + y
      BY <1>6, <3>3, Zenon DEF ViaLower
    <3>5. x <= M + 28 * t
      BY <3>2, <3>3, Zenon
    <3>6. next.metrics[i] <= M + 28 * (t + 1)
      BY <3>4, <3>5
    <3>7. QED
      BY <3>1, <3>6, Zenon
  <2>3. QED
    BY <1>5a, <2>1, <2>2, Zenon DEF TrellisType
<1>8. ASSUME NEW b \in Bits(N)
      PROVE  /\ State(b, t) \in States /\ State(b, t + 1) \in States
             /\ D(b)[t] \in Nat
             /\ D(b)[t + 1] = D(b)[t] + Branch(Memory(b, t + 1), p, q)
             /\ Bit(b, t-3) \in {0, 1}
             /\ Memory(b, t + 1) = 16 * Bit(b, t-3) + State(b, t + 1)
             /\ State(b, t) = State(b, t + 1) \div 2 + 8 * Bit(b, t-3)
  <2>1. State(b, t) \in States /\ State(b, t + 1) \in States
    BY <1>2, StateType, Numbers, Zenon
  <2>2. PICK E \in [0..N -> Nat] : E = D(b)
    BY DistanceToIs, Zenon
  <2>3. E[t] \in Nat
    BY <1>2, Zenon
  <2>4. E[t + 1] = E[t] + PairCost(b, soft, t + 1)
    <3>1. \A n \in 1..N : E[n] = E[n-1] + PairCost(b, soft, n)
      BY <2>2, DistanceToIs, Zenon
    <3>2. QED
      BY <1>2, <3>1, Zenon
  <2>5. PairCost(b, soft, t + 1) = Branch(Memory(b, t + 1), p, q)
    BY <1>2, Zenon DEF PairCost
  <2>6. Bit(b, t-3) \in {0, 1}
    <3>1. t - 3 \in Int /\ t - 3 <= N
      OBVIOUS
    <3>2. QED
      BY <3>1, BitType, Zenon
  <2>7. QED
    BY <2>1, <2>2, <2>3, <2>4, <2>5, <2>6, StateStep, Zenon
<1>9. NoneNearer(next.metrics, soft, N, t + 1)
  <2>1. SUFFICES ASSUME NEW b \in Bits(N) PROVE next.metrics[State(b, t + 1)] <= D(b)[t + 1]
    BY Zenon DEF NoneNearer
  <2>2. PICK i \in States : i = State(b, t + 1)
    BY <1>8, Zenon
  <2>3. PICK d \in Nat : d = D(b)[t]
    BY <1>8, Zenon
  <2>4. m[State(b, t)] <= d
    BY <1>3, <2>3, Zenon DEF NoneNearer
  <2>5. CASE Bit(b, t-3) = 0
    <3>1. State(b, t) = i \div 2 /\ Memory(b, t + 1) = i
      BY <1>8, <2>2, <2>5, <1>6
    <3>2. PICK x \in Nat, y \in 0..28 : x = m[i \div 2] /\ y = Branch(i, p, q)
      BY <1>6, Zenon
    <3>3. D(b)[t + 1] = d + y /\ x <= d
      BY <1>8, <2>3, <2>4, <3>1, <3>2, Zenon
    <3>4. next.metrics[i] \in Nat /\ next.metrics[i] <= x + y
      BY <1>6, <3>2, Zenon DEF ViaLower, ViaUpper
    <3>5. next.metrics[i] <= d + y
      BY <3>3, <3>4
    <3>6. QED
      BY <2>2, <3>3, <3>5, Zenon
  <2>6. CASE Bit(b, t-3) = 1
    <3>1. State(b, t) = i \div 2 + 8 /\ Memory(b, t + 1) = i + 16
      BY <1>8, <2>2, <2>6, <1>6
    <3>2. PICK x \in Nat, y \in 0..28 : x = m[i \div 2 + 8] /\ y = Branch(i + 16, p, q)
      BY <1>6, Zenon
    <3>3. D(b)[t + 1] = d + y /\ x <= d
      BY <1>8, <2>3, <2>4, <3>1, <3>2, Zenon
    <3>4. next.metrics[i] \in Nat /\ next.metrics[i] <= x + y
      BY <1>6, <3>2, Zenon DEF ViaLower, ViaUpper
    <3>5. next.metrics[i] <= d + y
      BY <3>3, <3>4
    <3>6. QED
      BY <2>2, <3>3, <3>5, Zenon
  <2>7. QED
    BY <1>8, <2>5, <2>6
\* The path to a state goes on from that to the state it was reached from.
<1>10. ASSUME NEW i \in States, next.metrics[i] < MaxMetric
       PROVE  \E c \in Bits(N) : /\ State(c, t + 1) = i
                                 /\ D(c)[t + 1] = next.metrics[i]
                                 /\ Follows(c, next.history, t + 1)
  <2> DEFINE u == IF upper[i] THEN 1 ELSE 0
             s == i \div 2 + 8 * u
  <2>1. /\ s \in States /\ u \in {0, 1} /\ (u = 1 <=> upper[i])
        /\ next.metrics[i] = m[s] + Branch(i + 16 * u, p, q)
        /\ m[s] \in Nat /\ Branch(i + 16 * u, p, q) \in 0..28
        /\ (2 * s + (i % 2)) % 16 = i /\ i % 2 \in {0, 1} /\ (u = 1 <=> s >= 8)
    <3>1. CASE upper[i]
      <4>1. u = 1 /\ 8 * u = 8 /\ 16 * u = 16
        BY <3>1
      <4>2. s = i \div 2 + 8 /\ i + 16 * u = i + 16
        BY <4>1, Zenon
      <4>3. next.metrics[i] = m[i \div 2 + 8] + Branch(i + 16, p, q)
        BY <1>5, <3>1, Zenon DEF ViaUpper
      <4>4. (2 * (i \div 2 + 8) + (i % 2)) % 16 = i /\ i % 2 \in {0, 1} /\ i \div 2 + 8 >= 8
        BY <1>6
      <4>5. QED
        BY <1>6, <3>1, <4>1, <4>2, <4>3, <4>4, Zenon
    <3>2. CASE ~upper[i]
      <4>1. u = 0 /\ 8 * u = 0 /\ 16 * u = 0 /\ 0 # 1
        BY <3>2
      <4>2. s = i \div 2 /\ i + 16 * u = i
        BY <1>6, <4>1
      <4>3. next.metrics[i] = m[i \div 2] + Branch(i, p, q)
        BY <1>5, <3>2, Zenon DEF ViaLower
      <4>4. (2 * (i \div 2) + (i % 2)) % 16 = i /\ i % 2 \in {0, 1} /\ ~(i \div 2 >= 8)
        BY <1>6
      <4>5. u \in {0, 1} /\ (u = 1 <=> upper[i])
        BY <3>2, <4>1, Zenon
      <4> HIDE DEF u
      <4>6. QED
        BY <1>6, <4>1, <4>2, <4>3, <4>4, <4>5, Zenon
    <3>3. QED
      BY <3>1, <3>2, Zenon
  <2> HIDE DEF u, s
  <2>2. m[s] < MaxMetric
    <3>1. PICK M \in Nat, x \in Nat, y \in 0..28 :
            M = MaxMetric /\ x = m[s] /\ y = Branch(i + 16 * u, p, q)
      BY <2>1, MaxMetricType, Zenon
    <3>2. x + y < M
      BY <1>10, <2>1, <3>1, Zenon
    <3>3. x < M
      BY <3>2
    <3>4. QED
      BY <3>1, <3>3, Zenon
  <2>3. PICK b \in Bits(N) : State(b, t) = s /\ D(b)[t] = m[s] /\ Follows(b, h, t)
    BY <1>3, <2>1, <2>2, Zenon DEF Attained
  <2>4. PICK c \in Bits(N) : c = [b EXCEPT ![t + 1] = i % 2]
    BY <1>2, <2>1 DEF Bits
  <2>5. c[t + 1] = i % 2 /\ \A n \in 1..t : b[n] = c[n]
    BY <1>2, <2>4 DEF Bits
  <2>6. \A n \in 0..t : State(b, n) = State(c, n) /\ Memory(b, n) = Memory(c, n)
    BY <1>2, <2>5, AlikeBits, Zenon
  <2>7. \A n \in Int : n <= t => Bit(b, n) = Bit(c, n)
    BY <1>2, <2>5, AlikeBits, Zenon
  <2>8. D(c)[t] = m[s]
    BY <1>2, <2>3, <2>5, AlikeDistances, Zenon
  <2>9. t \in 0..t /\ t - 3 \in Int /\ t - 3 <= t
    OBVIOUS
  <2>10. State(c, t) = s /\ (Bit(c, t-3) = 1 <=> s >= 8) /\ State(c, t + 1) = (2 * s + (i % 2)) % 16
    BY <2>3, <2>5, <2>6, <2>9, StateStep, Zenon
  <2>11. State(c, t + 1) = i /\ Bit(c, t-3) = u
    <3>1. Bit(c, t-3) \in {0, 1}
      BY <1>8, Zenon
    <3>2. \A x \in {0, 1}, y \in {0, 1} : (x = 1 <=> y = 1) => x = y
      OBVIOUS
    <3>3. QED
      BY <2>1, <2>10, <3>1, <3>2, Zenon
  <2>12. D(c)[t + 1] = next.metrics[i]
    <3>1. 16 * u + i = i + 16 * u
      BY <1>6, <2>1
    <3>2. Memory(c, t + 1) = i + 16 * u
      BY <1>8, <2>11, <3>1, Zenon
    <3>3. D(c)[t + 1] = D(c)[t] + Branch(Memory(c, t + 1), p, q)
      BY <1>8, Zenon
    <3> HIDE DEF D
    <3>4. QED
      BY <2>1, <2>8, <3>2, <3>3, Zenon
  <2>13. Follows(c, next.history, t + 1)
    <3>1. SUFFICES ASSUME NEW k \in 1..t+1
                   PROVE  next.history[k][State(c, k)] <=> Bit(c, k-4) = 1
      BY Zenon DEF Follows
    <3>3. CASE k = t + 1
      <4>1. next.history[k] = upper
        BY <1>5b, <3>3, Zenon
      <4>2. QED
        BY <1>2, <2>1, <2>11, <3>3, <4>1, Zenon
    <3>4. CASE k \in 1..t
      <4>1. next.history[k] = h[k]
        BY <1>5b, <3>4, Zenon
      <4>2. k \in 0..t /\ k - 4 \in Int /\ k - 4 <= t
        BY <3>4
      <4>3. h[k][State(b, k)] <=> Bit(b, k-4) = 1
        BY <2>3, <3>4, Zenon DEF Follows
      <4>4. QED
        BY <2>6, <2>7, <4>1, <4>2, <4>3, Zenon
    <3>5. QED
      BY <3>3, <3>4
  <2>14. QED
    BY <2>11, <2>12, <2>13, Zenon
<1>11. Attained(next.metrics, next.history, soft, N, t + 1)
  BY <1>10, Zenon DEF Attained
<1>12. QED
  BY <1>7, <1>9, <1>11, Zenon DEF Searched

\* A set of naturals that is not empty has a least element.
LEMMA LeastExists ==
  ASSUME NEW S, S \subseteq Nat, S # {}
  PROVE  \E x \in S : \A y \in S : x <= y
<1>1. SUFFICES ASSUME \A x \in S : \E y \in S : y < x PROVE FALSE
  OBVIOUS
<1> DEFINE T == {n \in Nat : \A y \in S : y >= n}
<1>2. 0 \in T
  OBVIOUS
<1>3. ASSUME NEW n \in Nat, n \in T PROVE n + 1 \in T
  <2>1. n \notin S
    BY <1>1, <1>3
  <2>2. ASSUME NEW y \in S PROVE y >= n + 1
    <3>1. y \in Nat /\ y >= n /\ y # n
      BY <1>3, <2>1
    <3>2. QED
      BY <3>1
  <2>3. QED
    BY <2>2
<1>4. Nat \subseteq T
  <2> HIDE DEF T
  <2>1. QED
    BY <1>2, <1>3, SetInduction
<1>5. PICK y \in S : TRUE
  OBVIOUS
<1>6. y \in Nat /\ y + 1 \in Nat
  OBVIOUS
<1>7. y >= y + 1
  BY <1>4, <1>6
<1>8. QED
  BY <1>6, <1>7

\* The chainback begins in a state of the least metric, in state 0 if it is one of them.
LEMMA EndStateIs ==
  ASSUME NEW metrics \in [States -> Nat]
  PROVE  /\ EndState(metrics) \in States
         /\ \A k \in States : metrics[EndState(metrics)] <= metrics[k]
         /\ EndState(metrics) # 0 => metrics[EndState(metrics)] # metrics[0]
<1> DEFINE V == {16 * metrics[i] + i : i \in States}
           First(i) == \A k \in States : metrics[i] <= metrics[k] /\ (metrics[i] = metrics[k] => i <= k)
<1>1. \A i \in States : i \in 0..15 /\ metrics[i] \in Nat
  BY Numbers
<1>2. V \subseteq Nat /\ V # {}
  <2>1. 0 \in States
    BY Numbers
  <2>2. QED
    BY <1>1, <2>1
<1>3. PICK x \in V : \A y \in V : x <= y
  <2> HIDE DEF V
  <2>1. QED
    BY <1>2, LeastExists
<1>4. PICK i \in States : x = 16 * metrics[i] + i
  BY Zenon
<1>5. First(i)
  <2>1. SUFFICES ASSUME NEW k \in States
                 PROVE  metrics[i] <= metrics[k] /\ (metrics[i] = metrics[k] => i <= k)
    BY Zenon
  <2>2. 16 * metrics[i] + i <= 16 * metrics[k] + k
    BY <1>3, <1>4, Zenon
  <2>3. i \in 0..15 /\ k \in 0..15 /\ metrics[i] \in Nat /\ metrics[k] \in Nat
    BY <1>1, Zenon
  <2>4. PICK a \in Nat, b \in Nat : a = metrics[i] /\ b = metrics[k]
    BY <2>3, Zenon
  <2>5. 16 * a + i <= 16 * b + k
    BY <2>2, <2>4, Zenon
  <2>6. a <= b /\ (a = b => i <= k)
    BY <2>3, <2>5
  <2>7. QED
    BY <2>4, <2>6, Zenon
<1>6. EndState(metrics) \in States /\ First(EndState(metrics))
  <2>1. EndState(metrics) = CHOOSE j \in States : First(j)
    BY Zenon DEF EndState
  <2> HIDE DEF First
  <2>2. QED
    BY <1>5, <2>1, Zenon
<1>7. \A j \in States : First(j) /\ j # 0 => metrics[j] # metrics[0]
  <2>1. 0 \in States /\ \A j \in States : j <= 0 => j = 0
    BY Numbers
  <2>2. QED
    BY <2>1, Zenon
<1>8. QED
  BY <1>6, <1>7, Zenon

\* The chainback leads back along a path that is as near as any.
THEOREM ChainbackIs ==
  ASSUME NEW N \in Nat, 28 * N < MaxMetric, NEW soft \in Receivable(N),
         NEW trellis, Searched(trellis, soft, N, N), NEW outLen \in 0..N
  PROVE  LET answer == Chainback(trellis, outLen)
         IN  /\ \A c \in Bits(N) : answer.metric <= DistanceTo(c, soft, N)[N]
             /\ \E b \in Bits(N) :
                  /\ answer.bits = [t \in 1..outLen |-> b[t]]
                  /\ answer.metric = DistanceTo(b, soft, N)[N]
                  /\ State(b, N) = 0 \/
                       \A c \in Bits(N) : State(c, N) = 0 => answer.metric < DistanceTo(c, soft, N)[N]
<1> DEFINE m == trellis.metrics
           h == trellis.history
           end == EndState(m)
           D(b) == DistanceTo(b, soft, N)
<1>1. /\ m \in [States -> Nat] /\ Len(h) = N
      /\ NoneNearer(m, soft, N, N) /\ Attained(m, h, soft, N, N)
  BY Zenon DEF Searched, TrellisType
<1>2. end \in States /\ m[end] \in Nat /\ \A k \in States : m[end] <= m[k]
  BY <1>1, EndStateIs, Zenon
<1>2a. end # 0 => m[end] # m[0]
  BY <1>1, EndStateIs, Zenon
<1> HIDE DEF end
<1>3. N \in 0..N
  OBVIOUS
<1>4. \A c \in Bits(N) : m[end] <= D(c)[N]
  <2>1. SUFFICES ASSUME NEW c \in Bits(N) PROVE m[end] <= D(c)[N]
    BY Zenon
  <2>2. State(c, N) \in States
    BY <1>3, StateType, Numbers, Zenon
  <2>3. PICK E \in [0..N -> Nat] : E = D(c)
    BY DistanceToIs, Zenon
  <2>4. PICK x \in Nat, y \in Nat, z \in Nat : x = m[end] /\ y = m[State(c, N)] /\ z = E[N]
    BY <1>1, <1>2, <1>3, <2>2, Zenon
  <2>5. x <= y
    BY <1>2, <2>2, <2>4, Zenon
  <2>6. y <= z
    BY <1>1, <2>3, <2>4, Zenon DEF NoneNearer
  <2>7. x <= z
    BY <2>5, <2>6
  <2>8. QED
    BY <2>3, <2>4, <2>7, Zenon
\* The path of zeros is nearer than any unreachable state would be.
<1>5. m[end] < MaxMetric
  <2>1. PICK z \in Bits(N) : z = [n \in 1..N |-> 0]
    BY DEF Bits
  <2>2. PICK E \in [0..N -> Nat] : E = D(z)
    BY DistanceToIs, Zenon
  <2>3. E[N] <= 28 * N
    BY <1>3, <2>2, DistanceToIs, Zenon
  <2>4. PICK x \in Nat, y \in Nat, M \in Nat : x = m[end] /\ y = E[N] /\ M = MaxMetric
    BY <1>2, <1>3, MaxMetricType, Zenon
  <2>5. x <= y /\ y <= 28 * N /\ 28 * N < M
    BY <1>4, <2>2, <2>3, <2>4, Zenon
  <2>6. x < M
    BY <2>5
  <2>7. QED
    BY <2>4, <2>6, Zenon
<1>6. PICK b \in Bits(N) : State(b, N) = end /\ D(b)[N] = m[end] /\ Follows(b, h, N)
  BY <1>1, <1>2, <1>5, Zenon DEF Attained
<1> DEFINE before(state, t) == state \div 2 + (IF h[t][state] THEN NumStates \div 2 ELSE 0)
           Body(f) == [t \in 1..N |-> IF t = N THEN end ELSE before(f[t+1], t + 1)]
           G == [t \in 1..N |-> State(b, t)]
           g == CHOOSE f : f = Body(f)
<1>7. ASSUME NEW t \in 1..N-1 PROVE State(b, t) = before(State(b, t + 1), t + 1)
  <2>1. t \in 0..N-1 /\ t + 1 \in 1..N /\ (t + 1) - 4 = t - 3 /\ t - 3 \in Int /\ t - 3 <= N
    OBVIOUS
  <2>2. State(b, t) = State(b, t + 1) \div 2 + 8 * Bit(b, t-3)
    BY <2>1, StateStep, Zenon
  <2>3. h[t + 1][State(b, t + 1)] <=> Bit(b, t-3) = 1
    BY <1>6, <2>1, Zenon DEF Follows
  <2>4. Bit(b, t-3) \in {0, 1}
    BY <2>1, BitType, Zenon
  <2>5. 8 * 0 = 0 /\ 8 * 1 = 8 /\ 0 # 1
    OBVIOUS
  <2>6. 8 * Bit(b, t-3) = IF h[t + 1][State(b, t + 1)] THEN NumStates \div 2 ELSE 0
    <3>1. CASE Bit(b, t-3) = 0
      BY <2>3, <2>5, <3>1, Zenon
    <3>2. CASE Bit(b, t-3) = 1
      BY <2>3, <2>5, <3>2, Numbers, Zenon
    <3>3. QED
      BY <2>4, <3>1, <3>2
  <2>7. QED
    BY <2>2, <2>6, Zenon
<1> HIDE DEF before
<1>8. G = Body(G)
  <2>1. ASSUME NEW t \in 1..N PROVE G[t] = IF t = N THEN end ELSE before(G[t+1], t + 1)
    <3>1. CASE t = N
      BY <1>6, <3>1, Zenon
    <3>2. CASE t # N
      <4>1. t \in 1..N-1 /\ t + 1 \in 1..N
        BY <3>2
      <4>2. QED
        BY <1>7, <3>2, <4>1, Zenon
    <3>3. QED
      BY <3>1, <3>2, Zenon
  <2>2. G = [t \in 1..N |-> G[t]]
    BY Zenon
  <2> HIDE DEF G
  <2>3. QED
    BY <2>1, <2>2, Zenon
<1>9. g = Body(g)
  <2> HIDE DEF Body, G
  <2>1. QED
    BY <1>8, Zenon
<1> HIDE DEF g
<1>10. ASSUME N # 0 PROVE \A t \in 1..N : g[t] = State(b, t)
  <2> DEFINE T == {k \in 0..N-1 : g[N-k] = State(b, N-k)}
  <2>1. 0 \in T
    <3>1. 0 \in 0..N-1 /\ N - 0 = N /\ N \in 1..N
      BY <1>10
    <3>2. QED
      BY <1>6, <1>9, <3>1, Zenon
  <2>2. ASSUME NEW k \in 0..(N-1)-1, k \in T PROVE k + 1 \in T
    <3>1. /\ k + 1 \in 0..N-1 /\ N - (k+1) \in 1..N-1 /\ N - (k+1) \in 1..N /\ N - (k+1) # N
          /\ (N - (k+1)) + 1 = N - k
      OBVIOUS
    <3>2. g[N-(k+1)] = before(g[N-k], N-k)
      BY <1>9, <3>1, Zenon
    <3>3. g[N-k] = State(b, N-k)
      BY <2>2, Zenon
    <3>4. State(b, N-(k+1)) = before(State(b, N-k), N-k)
      BY <1>7, <3>1, Zenon
    <3>5. QED
      BY <3>1, <3>2, <3>3, <3>4, Zenon
  <2>3. 0..N-1 \subseteq T
    <3>1. N - 1 \in Nat
      BY <1>10
    <3> HIDE DEF T
    <3>2. QED
      BY <2>1, <2>2, <3>1, BoundedInduction
  <2>4. ASSUME NEW t \in 1..N PROVE g[t] = State(b, t)
    <3>1. N - t \in 0..N-1 /\ N - (N - t) = t
      OBVIOUS
    <3>2. QED
      BY <2>3, <3>1, Zenon
  <2>5. QED
    BY <2>4, Zenon
<1>11. \A t \in 1..outLen : g[t] % 2 = b[t]
  <2>1. SUFFICES ASSUME NEW t \in 1..outLen PROVE g[t] % 2 = b[t]
    BY Zenon
  <2>2. N # 0 /\ t \in 1..N /\ t \in 0..N /\ t >= 1
    OBVIOUS
  <2>3. State(b, t) % 2 = Bit(b, t)
    BY <2>2, StateType, Zenon
  <2>4. Bit(b, t) = b[t]
    BY <2>2, Zenon DEF Bit
  <2>5. QED
    BY <1>10, <2>2, <2>3, <2>4, Zenon
<1> DEFINE answer == Chainback(trellis, outLen)
<1>12. answer = [bits |-> [t \in 1..outLen |-> g[t] % 2], metric |-> m[end],
                 cost |-> (2 * m[end] + LlrLimit) \div (2 * LlrLimit)]
  <2> DEFINE at(n) == CHOOSE f :
                        f = [t \in 1..n |-> IF t = n THEN end ELSE before(f[t+1], t + 1)]
             of(n) == [bits |-> [t \in 1..outLen |-> at(n)[t] % 2], metric |-> m[end],
                       cost |-> (2 * m[end] + LlrLimit) \div (2 * LlrLimit)]
  <2>1. answer = of(Len(h))
    BY Zenon DEF answer, Chainback, before, end
  <2>2. at(N) = g
    BY Zenon DEF g
  <2>3. of(N) = [bits |-> [t \in 1..outLen |-> g[t] % 2], metric |-> m[end],
                 cost |-> (2 * m[end] + LlrLimit) \div (2 * LlrLimit)]
    <3> HIDE DEF at
    <3>1. QED
      BY <2>2, Zenon
  <2> HIDE DEF of
  <2>4. QED
    BY <1>1, <2>1, <2>3, Zenon
<1> HIDE DEF answer
<1>13. answer.bits = [t \in 1..outLen |-> g[t] % 2] /\ answer.metric = m[end]
  BY <1>12
<1>14. answer.bits = [t \in 1..outLen |-> b[t]]
  BY <1>11, <1>13, Zenon
\* A path that ends elsewhere is chosen only if none that ends in state 0 is as near.
<1>15. ASSUME end # 0, NEW c \in Bits(N), State(c, N) = 0
       PROVE  m[end] < D(c)[N]
  <2>1. m[0] <= D(c)[N]
    BY <1>1, <1>15, Zenon DEF NoneNearer
  <2>2. PICK E \in [0..N -> Nat] : E = D(c)
    BY DistanceToIs, Zenon
  <2>3. 0 \in States
    BY Numbers
  <2>4. PICK x \in Nat, y \in Nat, z \in Nat : x = m[end] /\ y = m[0] /\ z = E[N]
    BY <1>1, <1>2, <1>3, <2>3, Zenon
  <2>5. x <= y /\ x # y /\ y <= z
    BY <1>2, <1>2a, <1>15, <2>1, <2>2, <2>3, <2>4, Zenon
  <2>6. x < z
    BY <2>5
  <2>7. QED
    BY <2>2, <2>4, <2>6, Zenon
<1>16. QED
  BY <1>4, <1>6, <1>13, <1>14, <1>15, Zenon DEF answer

-----------------------------------------------------------------------------
(***************************************************************************)
(* The code is linear: a coded bit is the sum of the bits that the          *)
(* polynomial taps, and two paths differ where their difference has ones.   *)
(***************************************************************************)
CodeA(b, n) == (Bit(b, n) + Bit(b, n-3) + Bit(b, n-4)) % 2
CodeB(b, n) == (Bit(b, n) + Bit(b, n-1) + Bit(b, n-2) + Bit(b, n-4)) % 2

Ones(x, S) == Cardinality({b \in S : x[b] = 1})

\* One bit more, one more to count.
LEMMA OneMore ==
  ASSUME NEW x, NEW S, IsFiniteSet(S), NEW a, a \notin S, x[a] \in {0, 1}
  PROVE  IsFiniteSet(S \cup {a}) /\ Ones(x, S \cup {a}) = Ones(x, S) + x[a]
<1> DEFINE T == S \cup {a}
           U == {b \in S : x[b] = 1}
<1>1. IsFiniteSet(T)
  BY FS_AddElement
<1>2. IsFiniteSet(U) /\ Cardinality(U) \in Nat
  BY FS_Subset, FS_CardinalityType
<1>3. CASE x[a] = 1
  <2>1. {b \in T : x[b] = 1} = U \cup {a} /\ a \notin U
    BY <1>3
  <2> HIDE DEF U
  <2>2. Cardinality(U \cup {a}) = Cardinality(U) + 1
    BY <1>2, <2>1, FS_AddElement
  <2>3. QED
    BY <1>1, <1>3, <2>1, <2>2, Zenon DEF U, T, Ones
<1>4. CASE x[a] = 0
  <2>1. {b \in T : x[b] = 1} = U
    BY <1>4
  <2> HIDE DEF U
  <2>2. Cardinality(U) + 0 = Cardinality(U)
    BY <1>2
  <2>3. QED
    BY <1>1, <1>4, <2>1, <2>2, Zenon DEF U, T, Ones
<1>5. QED
  BY <1>3, <1>4

\* A coded bit is the parity of the memory's bits that its polynomial taps.
LEMMA ParityOfTaps ==
  ASSUME NEW m, NEW x, \A b \in 0..4 : x[b] = (m \div 2^b) % 2 /\ x[b] \in {0, 1}
  PROVE  /\ ConvolveBit(PolyA, m) = (x[0] + x[3] + x[4]) % 2
         /\ ConvolveBit(PolyB, m) = (x[0] + x[1] + x[2] + x[4]) % 2
<1>1. IsFiniteSet({}) /\ Ones(x, {}) = 0
  <2>1. {b \in {} : x[b] = 1} = {}
    OBVIOUS
  <2>2. QED
    BY <2>1, FS_EmptySet DEF Ones
<1>2. \A b \in {0, 1, 2, 3, 4} : x[b] \in {0, 1}
  OBVIOUS
<1>3. IsFiniteSet({0}) /\ Ones(x, {0}) = Ones(x, {}) + x[0]
  <2>1. PICK S, a : S = {} /\ a = 0
    OBVIOUS
  <2>2. {0} = S \cup {a} /\ a \notin S /\ x[a] \in {0, 1}
    BY <1>2, <2>1
  <2>3. IsFiniteSet(S)
    BY <1>1, <2>1, Zenon
  <2>4. IsFiniteSet(S \cup {a}) /\ Ones(x, S \cup {a}) = Ones(x, S) + x[a]
    BY <2>2, <2>3, OneMore
  <2>5. QED
    BY <2>1, <2>2, <2>4, Zenon
<1>4. IsFiniteSet({0, 3}) /\ Ones(x, {0, 3}) = Ones(x, {0}) + x[3]
  <2>1. PICK S, a : S = {0} /\ a = 3
    OBVIOUS
  <2>2. {0, 3} = S \cup {a} /\ a \notin S /\ x[a] \in {0, 1}
    BY <1>2, <2>1
  <2>3. IsFiniteSet(S)
    BY <1>3, <2>1, Zenon
  <2>4. IsFiniteSet(S \cup {a}) /\ Ones(x, S \cup {a}) = Ones(x, S) + x[a]
    BY <2>2, <2>3, OneMore
  <2>5. QED
    BY <2>1, <2>2, <2>4, Zenon
<1>5. IsFiniteSet({0, 3, 4}) /\ Ones(x, {0, 3, 4}) = Ones(x, {0, 3}) + x[4]
  <2>1. PICK S, a : S = {0, 3} /\ a = 4
    OBVIOUS
  <2>2. {0, 3, 4} = S \cup {a} /\ a \notin S /\ x[a] \in {0, 1}
    BY <1>2, <2>1
  <2>3. IsFiniteSet(S)
    BY <1>4, <2>1, Zenon
  <2>4. IsFiniteSet(S \cup {a}) /\ Ones(x, S \cup {a}) = Ones(x, S) + x[a]
    BY <2>2, <2>3, OneMore
  <2>5. QED
    BY <2>1, <2>2, <2>4, Zenon
<1>6. IsFiniteSet({0, 1}) /\ Ones(x, {0, 1}) = Ones(x, {0}) + x[1]
  <2>1. PICK S, a : S = {0} /\ a = 1
    OBVIOUS
  <2>2. {0, 1} = S \cup {a} /\ a \notin S /\ x[a] \in {0, 1}
    BY <1>2, <2>1
  <2>3. IsFiniteSet(S)
    BY <1>3, <2>1, Zenon
  <2>4. IsFiniteSet(S \cup {a}) /\ Ones(x, S \cup {a}) = Ones(x, S) + x[a]
    BY <2>2, <2>3, OneMore
  <2>5. QED
    BY <2>1, <2>2, <2>4, Zenon
<1>7. IsFiniteSet({0, 1, 2}) /\ Ones(x, {0, 1, 2}) = Ones(x, {0, 1}) + x[2]
  <2>1. PICK S, a : S = {0, 1} /\ a = 2
    OBVIOUS
  <2>2. {0, 1, 2} = S \cup {a} /\ a \notin S /\ x[a] \in {0, 1}
    BY <1>2, <2>1
  <2>3. IsFiniteSet(S)
    BY <1>6, <2>1, Zenon
  <2>4. IsFiniteSet(S \cup {a}) /\ Ones(x, S \cup {a}) = Ones(x, S) + x[a]
    BY <2>2, <2>3, OneMore
  <2>5. QED
    BY <2>1, <2>2, <2>4, Zenon
<1>8. IsFiniteSet({0, 1, 2, 4}) /\ Ones(x, {0, 1, 2, 4}) = Ones(x, {0, 1, 2}) + x[4]
  <2>1. PICK S, a : S = {0, 1, 2} /\ a = 4
    OBVIOUS
  <2>2. {0, 1, 2, 4} = S \cup {a} /\ a \notin S /\ x[a] \in {0, 1}
    BY <1>2, <2>1
  <2>3. IsFiniteSet(S)
    BY <1>7, <2>1, Zenon
  <2>4. IsFiniteSet(S \cup {a}) /\ Ones(x, S \cup {a}) = Ones(x, S) + x[a]
    BY <2>2, <2>3, OneMore
  <2>5. QED
    BY <2>1, <2>2, <2>4, Zenon
<1>11. /\ Ones(x, PolyA) = x[0] + x[3] + x[4]
       /\ Ones(x, PolyB) = x[0] + x[1] + x[2] + x[4]
  <2>1. Ones(x, {0}) = x[0]
    <3>1. 0 + x[0] = x[0]
      BY <1>2
    <3>2. QED
      BY <1>1, <1>3, <3>1, Zenon
  <2>2. Ones(x, {0, 3, 4}) = x[0] + x[3] + x[4]
    BY <1>4, <1>5, <2>1, Zenon
  <2>3. Ones(x, {0, 1, 2, 4}) = x[0] + x[1] + x[2] + x[4]
    BY <1>6, <1>7, <1>8, <2>1, Zenon
  <2>4. QED
    BY <2>2, <2>3, Zenon DEF PolyA, PolyB
<1>12. \A P \in {PolyA, PolyB} : ConvolveBit(P, m) = Ones(x, P) % 2
  <2>1. ASSUME NEW P \in {PolyA, PolyB}
        PROVE  {b \in P : (m \div 2^b) % 2 = 1} = {b \in P : x[b] = 1}
    <3>1. P \subseteq 0..4
      BY DEF PolyA, PolyB
    <3>2. \A b \in P : x[b] = (m \div 2^b) % 2
      BY <3>1, Zenon
    <3>3. QED
      BY <3>2, Zenon
  <2>2. QED
    BY <2>1, Zenon DEF ConvolveBit, Ones
<1>13. QED
  BY <1>11, <1>12, Zenon

\* The coded bits of a path are those of its last five bits.
LEMMA CodedBits ==
  ASSUME NEW N \in Nat, NEW b \in Bits(N), NEW n \in 0..N
  PROVE  /\ ConvolveBit(PolyA, Memory(b, n)) = CodeA(b, n)
         /\ ConvolveBit(PolyB, Memory(b, n)) = CodeB(b, n)
<1>1. PICK x4 \in {0, 1} : x4 = Bit(b, n-4)
  BY BitType
<1>2. PICK x3 \in {0, 1} : x3 = Bit(b, n-3)
  BY BitType
<1>3. PICK x2 \in {0, 1} : x2 = Bit(b, n-2)
  BY BitType
<1>4. PICK x1 \in {0, 1} : x1 = Bit(b, n-1)
  BY BitType
<1>5. PICK x0 \in {0, 1} : x0 = Bit(b, n)
  BY BitType
<1> DEFINE m == 16*x4 + (8*x3 + 4*x2 + 2*x1 + x0)
           x == [k \in 0..4 |-> IF k = 0 THEN x0 ELSE IF k = 1 THEN x1 ELSE
                                IF k = 2 THEN x2 ELSE IF k = 3 THEN x3 ELSE x4]
<1>6. Memory(b, n) = m
  BY <1>1, <1>2, <1>3, <1>4, <1>5, Zenon DEF State, Memory
<1>7. /\ (m \div 1) % 2 = x0 /\ (m \div 2) % 2 = x1 /\ (m \div 4) % 2 = x2
      /\ (m \div 8) % 2 = x3 /\ (m \div 16) % 2 = x4
  OBVIOUS
<1>8. x[0] = x0 /\ x[1] = x1 /\ x[2] = x2 /\ x[3] = x3 /\ x[4] = x4
  OBVIOUS
<1> HIDE DEF m, x
<1>9. \A k \in 0..4 : x[k] = (m \div 2^k) % 2 /\ x[k] \in {0, 1}
  <2>1. \A k \in 0..4 : k = 0 \/ k = 1 \/ k = 2 \/ k = 3 \/ k = 4
    OBVIOUS
  <2>2. QED
    BY <1>7, <1>8, <2>1, Numbers, Zenon
<1>10. /\ ConvolveBit(PolyA, m) = (x[0] + x[3] + x[4]) % 2
       /\ ConvolveBit(PolyB, m) = (x[0] + x[1] + x[2] + x[4]) % 2
  BY <1>9, ParityOfTaps, Zenon
<1>11. QED
  BY <1>1, <1>2, <1>3, <1>4, <1>5, <1>6, <1>8, <1>10, Zenon DEF CodeA, CodeB

\* The difference of two paths.
Difference(b, c, N) == [n \in 1..N |-> (b[n] + c[n]) % 2]

\* The difference of two paths is a path.
LEMMA DifferenceIs ==
  ASSUME NEW N \in Nat, NEW b \in Bits(N), NEW c \in Bits(N), NEW e, e = Difference(b, c, N)
  PROVE  /\ e \in Bits(N)
         /\ \A n \in Int : n <= N => Bit(e, n) = (Bit(b, n) + Bit(c, n)) % 2
<1>1. \A n \in 1..N : b[n] \in {0, 1} /\ c[n] \in {0, 1}
  BY DEF Bits
<1>2. \A n \in 1..N : e[n] = (b[n] + c[n]) % 2 /\ e[n] \in {0, 1}
  BY <1>1 DEF Difference
<1>3. e \in Bits(N)
  BY <1>2, Zenon DEF Bits, Difference
<1>4. ASSUME NEW n \in Int, n <= N PROVE Bit(e, n) = (Bit(b, n) + Bit(c, n)) % 2
  <2>1. CASE n >= 1
    <3>1. n \in 1..N
      BY <1>4, <2>1
    <3>2. QED
      BY <1>2, <2>1, <3>1, Zenon DEF Bit
  <2>2. CASE ~(n >= 1)
    <3>1. (0 + 0) % 2 = 0
      OBVIOUS
    <3>2. QED
      BY <2>2, <3>1, Zenon DEF Bit
  <2>3. QED
    BY <2>1, <2>2, Zenon
<1>5. QED
  BY <1>3, <1>4, Zenon

\* The coded bits of a difference are the differences of the coded bits.
LEMMA LinearCode ==
  ASSUME NEW N \in Nat, NEW b \in Bits(N), NEW c \in Bits(N), NEW n \in 0..N,
         NEW e \in Bits(N), \A k \in Int : k <= N => Bit(e, k) = (Bit(b, k) + Bit(c, k)) % 2
  PROVE  /\ CodeA(e, n) = (CodeA(b, n) + CodeA(c, n)) % 2
         /\ CodeB(e, n) = (CodeB(b, n) + CodeB(c, n)) % 2
<1>1. /\ n \in Int /\ n <= N /\ n-1 \in Int /\ n-1 <= N /\ n-2 \in Int /\ n-2 <= N
      /\ n-3 \in Int /\ n-3 <= N /\ n-4 \in Int /\ n-4 <= N
  OBVIOUS
<1>2. PICK x0 \in {0, 1}, y0 \in {0, 1} : x0 = Bit(b, n) /\ y0 = Bit(c, n)
  BY <1>1, BitType, Zenon
<1>3. PICK x1 \in {0, 1}, y1 \in {0, 1} : x1 = Bit(b, n-1) /\ y1 = Bit(c, n-1)
  BY <1>1, BitType, Zenon
<1>4. PICK x2 \in {0, 1}, y2 \in {0, 1} : x2 = Bit(b, n-2) /\ y2 = Bit(c, n-2)
  BY <1>1, BitType, Zenon
<1>5. PICK x3 \in {0, 1}, y3 \in {0, 1} : x3 = Bit(b, n-3) /\ y3 = Bit(c, n-3)
  BY <1>1, BitType, Zenon
<1>6. PICK x4 \in {0, 1}, y4 \in {0, 1} : x4 = Bit(b, n-4) /\ y4 = Bit(c, n-4)
  BY <1>1, BitType, Zenon
<1>7. /\ Bit(e, n) = (x0 + y0) % 2 /\ Bit(e, n-1) = (x1 + y1) % 2 /\ Bit(e, n-2) = (x2 + y2) % 2
      /\ Bit(e, n-3) = (x3 + y3) % 2 /\ Bit(e, n-4) = (x4 + y4) % 2
  BY <1>1, <1>2, <1>3, <1>4, <1>5, <1>6, Zenon
<1>8. /\ CodeA(e, n) = (((x0 + y0) % 2) + ((x3 + y3) % 2) + ((x4 + y4) % 2)) % 2
      /\ CodeB(e, n) = (((x0 + y0) % 2) + ((x1 + y1) % 2) + ((x2 + y2) % 2) + ((x4 + y4) % 2)) % 2
  BY <1>7, Zenon DEF CodeA, CodeB
<1>9. /\ CodeA(b, n) = (x0 + x3 + x4) % 2 /\ CodeB(b, n) = (x0 + x1 + x2 + x4) % 2
      /\ CodeA(c, n) = (y0 + y3 + y4) % 2 /\ CodeB(c, n) = (y0 + y1 + y2 + y4) % 2
  BY <1>2, <1>3, <1>4, <1>5, <1>6, Zenon DEF CodeA, CodeB
<1>10. (((x0 + y0) % 2) + ((x3 + y3) % 2) + ((x4 + y4) % 2)) % 2
         = (((x0 + x3 + x4) % 2) + ((y0 + y3 + y4) % 2)) % 2
  OBVIOUS
<1>11. (((x0 + y0) % 2) + ((x1 + y1) % 2) + ((x2 + y2) % 2) + ((x4 + y4) % 2)) % 2
         = (((x0 + x1 + x2 + x4) % 2) + ((y0 + y1 + y2 + y4) % 2)) % 2
  OBVIOUS
<1>12. QED
  BY <1>8, <1>9, <1>10, <1>11, Zenon

-----------------------------------------------------------------------------
(***************************************************************************)
(* Why one wrong soft bit is corrected, and two are nearly always.  A path  *)
(* is farther from what was received than the one that was sent, by 14 for  *)
(* each coded bit where they differ; a wrong soft bit takes at most 28 off. *)
(***************************************************************************)
Hit(E, m) == IF m \in E THEN 1 ELSE 0
Count(i, j, n) == (IF i <= 2*n THEN 1 ELSE 0) + (IF j # i /\ j <= 2*n THEN 1 ELSE 0)
Weight(e, n) == CodeA(e, n) + CodeB(e, n)
Disturbed(soft, s, E, N) ==
  \A m \in 1..2*N :
    /\ m \notin E => soft[m] = Ideal(CodedBit(s, m))
    /\ m \in E => soft[m] \in {Ideal(1 - CodedBit(s, m)), Ideal(1 - CodedBit(s, m)) \div 7}

\* A coded bit in which two paths differ makes one farther by 14 than the other, and a wrong
\* soft bit makes it at most 14 nearer.
LEMMA BitExcess ==
  ASSUME NEW x \in {0, 1}, NEW y \in {0, 1}, NEW v, NEW hit \in {0, 1},
         hit = 0 => v = Ideal(y),
         hit = 1 => v \in {Ideal(1 - y), Ideal(1 - y) \div 7}
  PROVE  SoftCost(Ideal(x), v) - SoftCost(Ideal(y), v) + 28 * hit >= 14 * ((x + y) % 2)
<1>1. /\ Ideal(0) = -7 /\ Ideal(1) = 7 /\ 1 - 0 = 1 /\ 1 - 1 = 0
      /\ (-7) \div 7 = -1 /\ 7 \div 7 = 1
      /\ (0 + 0) % 2 = 0 /\ (0 + 1) % 2 = 1 /\ (1 + 0) % 2 = 1 /\ (1 + 1) % 2 = 0
  BY DEF Ideal, LlrLimit
<1>2. CASE y = 0
  <2>1. v \in {-7, 7, 1} /\ (hit = 0 => v = -7)
    BY <1>1, <1>2
  <2>2. QED
    BY <1>1, <1>2, <2>1 DEF SoftCost, Abs
<1>3. CASE y = 1
  <2>1. v \in {-7, 7, -1} /\ (hit = 0 => v = 7)
    BY <1>1, <1>3
  <2>2. QED
    BY <1>1, <1>3, <2>1 DEF SoftCost, Abs
<1>4. QED
  BY <1>2, <1>3

\* The same for the two coded bits of a pair.
LEMMA PairExcess ==
  ASSUME NEW N \in Nat, NEW b \in Bits(N), NEW s \in Bits(N), NEW soft \in Receivable(N),
         NEW E, Disturbed(soft, s, E, N),
         NEW i \in Nat, NEW j \in Nat, E \subseteq {i, j}, NEW n \in 1..N
  PROVE  PairCost(b, soft, n) - PairCost(s, soft, n) + 28 * (Count(i, j, n) - Count(i, j, n-1))
           >= 14 * Weight(Difference(b, s, N), n)
<1> DEFINE e == Difference(b, s, N)
<1>1. /\ 2*n-1 \in 1..2*N /\ 2*n \in 1..2*N /\ n \in 0..N
      /\ (2*n-1) % 2 = 1 /\ (2*n) % 2 # 1
      /\ ((2*n-1) + 1) \div 2 = n /\ (2*n + 1) \div 2 = n
  OBVIOUS
<1>2. \A c : /\ CodedBit(c, 2*n-1) = ConvolveBit(PolyA, Memory(c, n))
             /\ CodedBit(c, 2*n) = ConvolveBit(PolyB, Memory(c, n))
  BY <1>1, Zenon DEF CodedBit
<1>3. PICK x1 \in {0, 1}, x2 \in {0, 1} : x1 = CodedBit(b, 2*n-1) /\ x2 = CodedBit(b, 2*n)
  BY <1>2, ConvolveBitType, Zenon
<1>4. PICK y1 \in {0, 1}, y2 \in {0, 1} : y1 = CodedBit(s, 2*n-1) /\ y2 = CodedBit(s, 2*n)
  BY <1>2, ConvolveBitType, Zenon
<1>5. CodeA(e, n) = (x1 + y1) % 2 /\ CodeB(e, n) = (x2 + y2) % 2
  <2> HIDE DEF e
  <2>1. e = Difference(b, s, N)
    BY DEF e
  <2>2. /\ e \in Bits(N)
        /\ \A k \in Int : k <= N => Bit(e, k) = (Bit(b, k) + Bit(s, k)) % 2
    BY <2>1, DifferenceIs
  <2>3. /\ CodeA(e, n) = (CodeA(b, n) + CodeA(s, n)) % 2
        /\ CodeB(e, n) = (CodeB(b, n) + CodeB(s, n)) % 2
    BY <1>1, <2>2, LinearCode
  <2>4. CodeA(b, n) = x1 /\ CodeB(b, n) = x2
    BY <1>1, <1>2, <1>3, CodedBits, Zenon
  <2>5. CodeA(s, n) = y1 /\ CodeB(s, n) = y2
    BY <1>1, <1>2, <1>4, CodedBits, Zenon
  <2>6. QED
    BY <2>3, <2>4, <2>5, Zenon
<1>6. PICK v1 \in Soft, v2 \in Soft : v1 = soft[2*n-1] /\ v2 = soft[2*n]
  BY <1>1, Zenon DEF Receivable
<1>7. PICK h1 \in {0, 1}, h2 \in {0, 1} : h1 = Hit(E, 2*n-1) /\ h2 = Hit(E, 2*n)
  BY DEF Hit
<1>8. SoftCost(Ideal(x1), v1) - SoftCost(Ideal(y1), v1) + 28 * h1 >= 14 * ((x1 + y1) % 2)
  <2>1. (h1 = 0 => v1 = Ideal(y1)) /\ (h1 = 1 => v1 \in {Ideal(1 - y1), Ideal(1 - y1) \div 7})
    <3>1. 0 # 1
      OBVIOUS
    <3>2. QED
      BY <1>1, <1>4, <1>6, <1>7, <3>1, Zenon DEF Disturbed, Hit
  <2>2. QED
    BY <2>1, BitExcess
<1>9. SoftCost(Ideal(x2), v2) - SoftCost(Ideal(y2), v2) + 28 * h2 >= 14 * ((x2 + y2) % 2)
  <2>1. (h2 = 0 => v2 = Ideal(y2)) /\ (h2 = 1 => v2 \in {Ideal(1 - y2), Ideal(1 - y2) \div 7})
    <3>1. 0 # 1
      OBVIOUS
    <3>2. QED
      BY <1>1, <1>4, <1>6, <1>7, <3>1, Zenon DEF Disturbed, Hit
  <2>2. QED
    BY <2>1, BitExcess
<1>10. PairCost(b, soft, n) = SoftCost(Ideal(x1), v1) + SoftCost(Ideal(x2), v2)
  BY <1>2, <1>3, <1>6, Zenon DEF PairCost, Branch
<1>11. PairCost(s, soft, n) = SoftCost(Ideal(y1), v1) + SoftCost(Ideal(y2), v2)
  BY <1>2, <1>4, <1>6, Zenon DEF PairCost, Branch
<1>12. h1 + h2 <= Count(i, j, n) - Count(i, j, n-1) /\ Count(i, j, n) \in 0..2 /\ Count(i, j, n-1) \in 0..2
  <2>1. (h1 = 1 => i = 2*n-1 \/ j = 2*n-1) /\ (h2 = 1 => i = 2*n \/ j = 2*n)
    BY <1>7 DEF Hit
  <2>2. QED
    BY <2>1 DEF Count
<1>13. PICK a1 \in 0..14, a2 \in 0..14, c1 \in 0..14, c2 \in 0..14 :
         /\ a1 = SoftCost(Ideal(x1), v1) /\ a2 = SoftCost(Ideal(x2), v2)
         /\ c1 = SoftCost(Ideal(y1), v1) /\ c2 = SoftCost(Ideal(y2), v2)
  BY SoftCostBounds, Zenon
<1>14. PICK d1 \in {0, 1}, d2 \in {0, 1} : d1 = (x1 + y1) % 2 /\ d2 = (x2 + y2) % 2
  OBVIOUS
<1>15. PICK k1 \in 0..2, k2 \in 0..2 : k1 = Count(i, j, n) /\ k2 = Count(i, j, n-1)
  BY <1>12, Zenon
<1>16. a1 - c1 + 28 * h1 >= 14 * d1 /\ a2 - c2 + 28 * h2 >= 14 * d2 /\ h1 + h2 <= k1 - k2
  BY <1>8, <1>9, <1>12, <1>13, <1>14, <1>15, Zenon
<1>17. (a1 + a2) - (c1 + c2) + 28 * (k1 - k2) >= 14 * (d1 + d2)
  BY <1>16
<1>18. QED
  BY <1>5, <1>10, <1>11, <1>13, <1>14, <1>15, <1>17, Zenon DEF Weight

\* How much farther one path is than another, counting 28 for each wrong soft bit so far:
\* it rises by 14 for each coded bit where the paths differ.
Rises(f, b, s, soft, i, j, N) ==
  /\ \A n \in 0..N : f[n] = DistanceTo(b, soft, N)[n] - DistanceTo(s, soft, N)[n]
                              + 28 * Count(i, j, n)
  /\ \A n \in 1..N : f[n] >= f[n-1] + 14 * Weight(Difference(b, s, N), n)

\* The same for the paths' distances, pair after pair.
LEMMA Potential ==
  ASSUME NEW N \in Nat, NEW b \in Bits(N), NEW s \in Bits(N), NEW soft \in Receivable(N),
         NEW E, Disturbed(soft, s, E, N),
         NEW i \in Nat, NEW j \in Nat, E \subseteq {i, j}
  PROVE  \E f \in [0..N -> Int] : Rises(f, b, s, soft, i, j, N)
<1>1. PICK D \in [0..N -> Nat] : D = DistanceTo(b, soft, N)
  BY DistanceToIs
<1>2. PICK F \in [0..N -> Nat] : F = DistanceTo(s, soft, N)
  BY DistanceToIs
<1>3. \A n \in 1..N : D[n] = D[n-1] + PairCost(b, soft, n)
  BY <1>1, DistanceToIs, Zenon
<1>4. \A n \in 1..N : F[n] = F[n-1] + PairCost(s, soft, n)
  BY <1>2, DistanceToIs, Zenon
<1>5. \A n \in 0..N : Count(i, j, n) \in 0..2
  BY DEF Count
<1> DEFINE f == [n \in 0..N |-> D[n] - F[n] + 28 * Count(i, j, n)]
<1>6. f \in [0..N -> Int]
  <2>1. ASSUME NEW n \in 0..N PROVE D[n] - F[n] + 28 * Count(i, j, n) \in Int
    <3>1. PICK x \in Nat, y \in Nat, z \in Nat : x = D[n] /\ y = F[n] /\ z = Count(i, j, n)
      BY <1>5
    <3>2. QED
      BY <3>1
  <2>2. QED
    BY <2>1, Zenon
<1>7. ASSUME NEW n \in 1..N PROVE f[n] >= f[n-1] + 14 * Weight(Difference(b, s, N), n)
  <2>1. n \in 0..N /\ n-1 \in 0..N
    OBVIOUS
  <2>2. PICK x \in Nat, y \in Nat : x = D[n-1] /\ y = F[n-1]
    BY <2>1, Zenon
  <2>3. PICK p \in 0..28, q \in 0..28 : p = PairCost(b, soft, n) /\ q = PairCost(s, soft, n)
    BY PairCostBounds, Zenon
  <2>4. PICK k \in 0..2, l \in 0..2 : k = Count(i, j, n) /\ l = Count(i, j, n-1)
    BY <1>5, <2>1, Zenon
  <2>5. PICK w : w = Weight(Difference(b, s, N), n)
    OBVIOUS
  <2>6. w \in Int
    <3>1. \A u, v : (u % 2) \in Int => (u % 2) \in Int
      OBVIOUS
    <3>2. PICK e \in Bits(N) : e = Difference(b, s, N)
      BY DifferenceIs
    <3>3. n \in 0..N
      OBVIOUS
    <3>4. CodeA(e, n) \in {0, 1} /\ CodeB(e, n) \in {0, 1}
      BY <3>3, CodedBits, ConvolveBitType
    <3>5. CodeA(e, n) + CodeB(e, n) \in Int
      BY <3>4
    <3>6. QED
      BY <2>5, <3>2, <3>5, Zenon DEF Weight
  <2>7. p - q + 28 * (k - l) >= 14 * w
    BY <2>3, <2>4, <2>5, PairExcess
  <2>8. f[n] = (x + p) - (y + q) + 28 * k /\ f[n-1] = x - y + 28 * l
    BY <1>3, <1>4, <2>1, <2>2, <2>3, <2>4, Zenon
  <2>9. (x + p) - (y + q) + 28 * k >= (x - y + 28 * l) + 14 * w
    BY <2>6, <2>7
  <2> HIDE DEF f
  <2>10. QED
    BY <2>5, <2>8, <2>9, Zenon
<1>8. \A n \in 0..N : f[n] = DistanceTo(b, soft, N)[n] - DistanceTo(s, soft, N)[n]
                               + 28 * Count(i, j, n)
  BY <1>1, <1>2, Zenon
<1> HIDE DEF f
<1>9. QED
  BY <1>6, <1>7, <1>8, Zenon DEF Rises

\* What never falls from one pair to the next does not fall over several.
LEMMA Climbs ==
  ASSUME NEW N \in Nat, NEW f \in [0..N -> Int], \A n \in 1..N : f[n] >= f[n-1],
         NEW m \in 0..N, NEW n \in m..N
  PROVE  f[m] <= f[n]
<1> DEFINE T == {k \in 0..N-m : f[m] <= f[m+k]}
<1>1. 0 \in T
  BY DEF T
<1>2. ASSUME NEW k \in 0..(N-m)-1, k \in T PROVE k + 1 \in T
  <2>1. /\ k + 1 \in 0..N-m /\ m + (k + 1) \in 1..N /\ (m + (k + 1)) - 1 = m + k
        /\ m + k \in 0..N /\ m + (k + 1) \in 0..N
    OBVIOUS
  <2>2. PICK x \in Int, y \in Int, z \in Int : x = f[m] /\ y = f[m+k] /\ z = f[m+(k+1)]
    BY <2>1, Zenon
  <2>3. x <= y /\ z >= y
    BY <1>2, <2>1, <2>2, Zenon
  <2>4. x <= z
    BY <2>3
  <2>5. QED
    BY <2>1, <2>2, <2>4, Zenon
<1>3. N - m \in Nat
  OBVIOUS
<1>4. 0..N-m \subseteq T
  <2> HIDE DEF T
  <2>1. QED
    BY <1>1, <1>2, <1>3, BoundedInduction
<1>5. n - m \in 0..N-m /\ m + (n - m) = n
  OBVIOUS
<1>6. QED
  BY <1>4, <1>5, Zenon

\* How many coded bits differ in the five pairs after that of a first difference, where
\* x, y, z, u and v are the next bits of the difference.
W1(x) == x + ((x + 1) % 2)
W2(x, y) == y + ((y + x + 1) % 2)
W3(x, y, z) == ((z + 1) % 2) + ((z + y + x) % 2)
W4(x, y, z, u) == ((u + x + 1) % 2) + ((u + z + y + 1) % 2)
W5(x, y, z, u, v) == ((v + y + x) % 2) + ((v + u + z + x) % 2)

\* Whatever the bits after the first in which two paths differ, in five branches at least 3
\* coded bits differ and in six at least 4, and 5 where they differ in no other bit.
LEMMA WeightSums ==
  ASSUME NEW x \in {0, 1}, NEW y \in {0, 1}, NEW z \in {0, 1}, NEW u \in {0, 1}, NEW v \in {0, 1}
  PROVE  LET four == 2 + W1(x) + W2(x, y) + W3(x, y, z) + W4(x, y, z, u)
             five == four + W5(x, y, z, u, v)
         IN  /\ four >= 3 /\ five >= 4
             /\ y = 0 /\ z = 0 /\ u = 0 /\ v = 0 => five >= 5
             /\ x = 0 /\ y = 0 /\ z = 0 /\ u = 0 => four >= 5
  BY SMTT(60) DEF W1, W2, W3, W4, W5

BeginsAt(e, p) == e[p] = 1 /\ \A n \in 1..p-1 : e[n] = 0

\* The coded bits that differ from the first bit in which two paths differ on.
LEMMA FirstWeights ==
  ASSUME NEW N \in Nat, NEW e \in Bits(N), NEW p \in 1..N, p + 4 <= N, BeginsAt(e, p)
  PROVE  LET x == Bit(e, p+1)
             y == Bit(e, p+2)
             z == Bit(e, p+3)
             u == Bit(e, p+4)
             v == IF p + 5 <= N THEN Bit(e, p+5) ELSE 0
         IN  /\ x \in {0, 1} /\ y \in {0, 1} /\ z \in {0, 1} /\ u \in {0, 1} /\ v \in {0, 1}
             /\ Weight(e, p) = 2 /\ Weight(e, p+1) = W1(x) /\ Weight(e, p+2) = W2(x, y)
             /\ Weight(e, p+3) = W3(x, y, z) /\ Weight(e, p+4) = W4(x, y, z, u)
             /\ p + 5 <= N => Weight(e, p+5) = W5(x, y, z, u, v)
<1>1. \A n \in Int : n < p => Bit(e, n) = 0
  BY DEF Bit, BeginsAt
<1>2. Bit(e, p) = 1
  BY DEF Bit, BeginsAt
<1>3. Bit(e, p-1) = 0 /\ Bit(e, p-2) = 0 /\ Bit(e, p-3) = 0 /\ Bit(e, p-4) = 0
  <2>1. /\ p-1 \in Int /\ p-1 < p /\ p-2 \in Int /\ p-2 < p
        /\ p-3 \in Int /\ p-3 < p /\ p-4 \in Int /\ p-4 < p
    OBVIOUS
  <2>2. QED
    BY <1>1, <2>1, Zenon
<1>4. PICK x \in {0, 1} : x = Bit(e, p+1)
  BY BitType
<1>5. PICK y \in {0, 1} : y = Bit(e, p+2)
  BY BitType
<1>6. PICK z \in {0, 1} : z = Bit(e, p+3)
  BY BitType
<1>7. PICK u \in {0, 1} : u = Bit(e, p+4)
  BY BitType
<1>8. PICK v \in {0, 1} : v = IF p + 5 <= N THEN Bit(e, p+5) ELSE 0
  <2>1. p + 5 <= N => Bit(e, p+5) \in {0, 1}
    BY BitType
  <2>2. QED
    BY <2>1, Zenon
<1>9. /\ (1 + 0 + 0) % 2 = 1 /\ (1 + 0 + 0 + 0) % 2 = 1 /\ 1 + 1 = 2
      /\ (x + 0 + 0) % 2 = x /\ (x + 1 + 0 + 0) % 2 = (x + 1) % 2
      /\ (y + 0 + 0) % 2 = y /\ (y + x + 1 + 0) % 2 = (y + x + 1) % 2
      /\ (z + 1 + 0) % 2 = (z + 1) % 2 /\ (z + y + x + 0) % 2 = (z + y + x) % 2
  OBVIOUS
<1>10. Weight(e, p) = 2
  BY <1>2, <1>3, <1>9, Zenon DEF Weight, CodeA, CodeB
<1>11. Weight(e, p+1) = W1(x)
  <2>1. (p+1)-1 = p /\ (p+1)-2 = p-1 /\ (p+1)-3 = p-2 /\ (p+1)-4 = p-3
    OBVIOUS
  <2>2. CodeA(e, p+1) = x
    BY <1>3, <1>4, <1>9, <2>1, Zenon DEF CodeA
  <2>3. CodeB(e, p+1) = (x + 1) % 2
    BY <1>2, <1>3, <1>4, <1>9, <2>1, Zenon DEF CodeB
  <2>4. QED
    BY <2>2, <2>3, Zenon DEF Weight, W1
<1>12. Weight(e, p+2) = W2(x, y)
  <2>1. (p+2)-1 = p+1 /\ (p+2)-2 = p /\ (p+2)-3 = p-1 /\ (p+2)-4 = p-2
    OBVIOUS
  <2>2. CodeA(e, p+2) = y
    BY <1>3, <1>5, <1>9, <2>1, Zenon DEF CodeA
  <2>3. CodeB(e, p+2) = (y + x + 1) % 2
    BY <1>2, <1>3, <1>4, <1>5, <1>9, <2>1, Zenon DEF CodeB
  <2>4. QED
    BY <2>2, <2>3, Zenon DEF Weight, W2
<1>13. Weight(e, p+3) = W3(x, y, z)
  <2>1. (p+3)-1 = p+2 /\ (p+3)-2 = p+1 /\ (p+3)-3 = p /\ (p+3)-4 = p-1
    OBVIOUS
  <2>2. CodeA(e, p+3) = (z + 1) % 2
    BY <1>2, <1>3, <1>6, <1>9, <2>1, Zenon DEF CodeA
  <2>3. CodeB(e, p+3) = (z + y + x) % 2
    BY <1>3, <1>4, <1>5, <1>6, <1>9, <2>1, Zenon DEF CodeB
  <2>4. QED
    BY <2>2, <2>3, Zenon DEF Weight, W3
<1>14. Weight(e, p+4) = W4(x, y, z, u)
  <2>1. (p+4)-1 = p+3 /\ (p+4)-2 = p+2 /\ (p+4)-3 = p+1 /\ (p+4)-4 = p
    OBVIOUS
  <2>2. QED
    BY <1>2, <1>4, <1>5, <1>6, <1>7, <2>1, Zenon DEF Weight, CodeA, CodeB, W4
<1>15. p + 5 <= N => Weight(e, p+5) = W5(x, y, z, u, v)
  <2>1. (p+5)-1 = p+4 /\ (p+5)-2 = p+3 /\ (p+5)-3 = p+2 /\ (p+5)-4 = p+1
    OBVIOUS
  <2>2. QED
    BY <1>4, <1>5, <1>6, <1>7, <1>8, <2>1, Zenon DEF Weight, CodeA, CodeB, W5
<1>16. QED
  BY <1>4, <1>5, <1>6, <1>7, <1>8, <1>10, <1>11, <1>12, <1>13, <1>14, <1>15, Zenon

\* A branch has two coded bits, of which none, one or both differ.
LEMMA WeightType ==
  ASSUME NEW N \in Nat, NEW e \in Bits(N), NEW n \in 0..N
  PROVE  Weight(e, n) \in 0..2
<1>1. CodeA(e, n) \in {0, 1} /\ CodeB(e, n) \in {0, 1}
  BY CodedBits, ConvolveBitType
<1>2. QED
  BY <1>1 DEF Weight

\* How far a potential climbs in five or six branches when it climbs by 14 for each coded
\* bit where the paths differ, and when they differ in the first one or two only.
ClimbsFrom(f, e, p, N) ==
  /\ f[p+4] >= f[p-1] + 42
  /\ (\A n \in p+1..p+4 : Bit(e, n) = 0) => f[p+4] >= f[p-1] + 70
  /\ p + 5 <= N => f[p+5] >= f[p-1] + 56
  /\ p + 5 <= N /\ (\A n \in p+2..p+5 : Bit(e, n) = 0) => f[p+5] >= f[p-1] + 70

\* How much farther a path is for it, after the first bit in which it differs.
LEMMA ClimbFromFirst ==
  ASSUME NEW N \in Nat, NEW e \in Bits(N), NEW f \in [0..N -> Int],
         \A n \in 1..N : f[n] >= f[n-1] + 14 * Weight(e, n),
         NEW p \in 1..N, p + 4 <= N, BeginsAt(e, p)
  PROVE  ClimbsFrom(f, e, p, N)
<1>0. /\ Bit(e, p+1) \in {0, 1} /\ Bit(e, p+2) \in {0, 1} /\ Bit(e, p+3) \in {0, 1}
      /\ Bit(e, p+4) \in {0, 1} /\ (IF p + 5 <= N THEN Bit(e, p+5) ELSE 0) \in {0, 1}
  BY FirstWeights
<1>1. PICK x \in {0, 1}, y \in {0, 1}, z \in {0, 1}, u \in {0, 1}, v \in {0, 1} :
        /\ x = Bit(e, p+1) /\ y = Bit(e, p+2) /\ z = Bit(e, p+3) /\ u = Bit(e, p+4)
        /\ v = IF p + 5 <= N THEN Bit(e, p+5) ELSE 0
  BY <1>0, Zenon
<1>2. PICK w1 \in Int, w2 \in Int, w3 \in Int, w4 \in Int, w5 \in Int :
        /\ w1 = W1(x) /\ w2 = W2(x, y) /\ w3 = W3(x, y, z)
        /\ w4 = W4(x, y, z, u) /\ w5 = W5(x, y, z, u, v)
  <2>1. /\ W1(x) \in Int /\ W2(x, y) \in Int /\ W3(x, y, z) \in Int
        /\ W4(x, y, z, u) \in Int /\ W5(x, y, z, u, v) \in Int
    BY DEF W1, W2, W3, W4, W5
  <2>2. QED
    BY <2>1, Zenon
<1>3. /\ 2 + w1 + w2 + w3 + w4 >= 3
      /\ 2 + w1 + w2 + w3 + w4 + w5 >= 4
      /\ y = 0 /\ z = 0 /\ u = 0 /\ v = 0 => 2 + w1 + w2 + w3 + w4 + w5 >= 5
      /\ x = 0 /\ y = 0 /\ z = 0 /\ u = 0 => 2 + w1 + w2 + w3 + w4 >= 5
  <2>1. /\ 2 + W1(x) + W2(x, y) + W3(x, y, z) + W4(x, y, z, u) >= 3
        /\ 2 + W1(x) + W2(x, y) + W3(x, y, z) + W4(x, y, z, u) + W5(x, y, z, u, v) >= 4
        /\ y = 0 /\ z = 0 /\ u = 0 /\ v = 0 =>
             2 + W1(x) + W2(x, y) + W3(x, y, z) + W4(x, y, z, u) + W5(x, y, z, u, v) >= 5
        /\ x = 0 /\ y = 0 /\ z = 0 /\ u = 0 =>
             2 + W1(x) + W2(x, y) + W3(x, y, z) + W4(x, y, z, u) >= 5
    BY WeightSums
  <2>2. QED
    BY <1>2, <2>1, Zenon
<1>3a. /\ Weight(e, p) = 2 /\ Weight(e, p+1) = w1 /\ Weight(e, p+2) = w2
       /\ Weight(e, p+3) = w3 /\ Weight(e, p+4) = w4
       /\ p + 5 <= N => Weight(e, p+5) = w5
  <2>1. /\ Weight(e, p) = 2 /\ Weight(e, p+1) = W1(Bit(e, p+1))
        /\ Weight(e, p+2) = W2(Bit(e, p+1), Bit(e, p+2))
        /\ Weight(e, p+3) = W3(Bit(e, p+1), Bit(e, p+2), Bit(e, p+3))
        /\ Weight(e, p+4) = W4(Bit(e, p+1), Bit(e, p+2), Bit(e, p+3), Bit(e, p+4))
        /\ p + 5 <= N => Weight(e, p+5) =
             W5(Bit(e, p+1), Bit(e, p+2), Bit(e, p+3), Bit(e, p+4),
                IF p + 5 <= N THEN Bit(e, p+5) ELSE 0)
    BY FirstWeights
  <2>2. QED
    BY <1>1, <1>2, <2>1, Zenon
<1>4. /\ p \in 1..N /\ p+1 \in 1..N /\ p+2 \in 1..N /\ p+3 \in 1..N /\ p+4 \in 1..N
      /\ (p+1)-1 = p /\ (p+2)-1 = p+1 /\ (p+3)-1 = p+2 /\ (p+4)-1 = p+3 /\ (p+5)-1 = p+4
      /\ p-1 \in 0..N /\ p \in 0..N /\ p+1 \in 0..N /\ p+2 \in 0..N /\ p+3 \in 0..N /\ p+4 \in 0..N
      /\ (p + 5 <= N => p+5 \in 1..N /\ p+5 \in 0..N)
  OBVIOUS
<1>5. PICK f0 \in Int, f1 \in Int, f2 \in Int, f3 \in Int, f4 \in Int, f5 \in Int :
        /\ f0 = f[p-1] /\ f1 = f[p] /\ f2 = f[p+1] /\ f3 = f[p+2] /\ f4 = f[p+3] /\ f5 = f[p+4]
  BY <1>4, Zenon
<1>6. /\ f1 >= f0 + 14 * 2 /\ f2 >= f1 + 14 * w1 /\ f3 >= f2 + 14 * w2
      /\ f4 >= f3 + 14 * w3 /\ f5 >= f4 + 14 * w4
  BY <1>3a, <1>4, <1>5, Zenon
<1>7. f5 >= f0 + 14 * (2 + w1 + w2 + w3 + w4)
  BY <1>6
<1>8. f[p+4] >= f[p-1] + 42
  <2>1. f5 >= f0 + 42
    BY <1>3, <1>7
  <2>2. QED
    BY <1>5, <2>1, Zenon
<1>9. (\A n \in p+1..p+4 : Bit(e, n) = 0) => f[p+4] >= f[p-1] + 70
  <2>1. SUFFICES ASSUME \A n \in p+1..p+4 : Bit(e, n) = 0 PROVE f[p+4] >= f[p-1] + 70
    BY Zenon
  <2>2. p+1 \in p+1..p+4 /\ p+2 \in p+1..p+4 /\ p+3 \in p+1..p+4 /\ p+4 \in p+1..p+4
    OBVIOUS
  <2>3. 2 + w1 + w2 + w3 + w4 >= 5
    BY <1>1, <1>3, <2>1, <2>2, Zenon
  <2>4. f5 >= f0 + 70
    BY <1>7, <2>3
  <2>5. QED
    BY <1>5, <2>4, Zenon
<1>10. ASSUME p + 5 <= N PROVE f[p+5] >= f[p-1] + 56
  <2>1. PICK f6 \in Int : f6 = f[p+5]
    BY <1>4, <1>10, Zenon
  <2>2. f6 >= f5 + 14 * w5
    BY <1>3a, <1>4, <1>5, <1>10, <2>1, Zenon
  <2>3. f6 >= f0 + 56
    BY <1>3, <1>7, <2>2
  <2>4. QED
    BY <1>5, <2>1, <2>3, Zenon
<1>11. ASSUME p + 5 <= N, \A n \in p+2..p+5 : Bit(e, n) = 0 PROVE f[p+5] >= f[p-1] + 70
  <2>1. PICK f6 \in Int : f6 = f[p+5]
    BY <1>4, <1>11, Zenon
  <2>2. f6 >= f5 + 14 * w5
    BY <1>3a, <1>4, <1>5, <1>11, <2>1, Zenon
  <2>3. p+2 \in p+2..p+5 /\ p+3 \in p+2..p+5 /\ p+4 \in p+2..p+5 /\ p+5 \in p+2..p+5
    OBVIOUS
  <2>4. 2 + w1 + w2 + w3 + w4 + w5 >= 5
    BY <1>1, <1>3, <1>11, <2>3, Zenon
  <2>5. f6 >= f0 + 70
    BY <1>7, <2>2, <2>4
  <2>6. QED
    BY <1>5, <2>1, <2>5, Zenon
<1>12. QED
  BY <1>8, <1>9, <1>10, <1>11, Zenon DEF ClimbsFrom

\* Where a difference ends: its last one, four branches before it is forgotten.
LEMMA LastWeight ==
  ASSUME NEW N \in Nat, NEW e \in Bits(N), NEW q \in 1..N, q + 4 <= N, Bit(e, q) = 1,
         \A n \in q+1..N : Bit(e, n) = 0
  PROVE  Weight(e, q+4) = 2
<1>1. q+1 \in q+1..N /\ q+2 \in q+1..N /\ q+3 \in q+1..N /\ q+4 \in q+1..N
  OBVIOUS
<1>2. Bit(e, q+1) = 0 /\ Bit(e, q+2) = 0 /\ Bit(e, q+3) = 0 /\ Bit(e, q+4) = 0
  BY <1>1, Zenon
<1>3. (q+4)-1 = q+3 /\ (q+4)-2 = q+2 /\ (q+4)-3 = q+1 /\ (q+4)-4 = q
  OBVIOUS
<1>4. (0 + 0 + 1) % 2 = 1 /\ (0 + 0 + 0 + 1) % 2 = 1 /\ 1 + 1 = 2
  OBVIOUS
<1>5. QED
  BY <1>2, <1>3, <1>4, Zenon DEF Weight, CodeA, CodeB

\* A difference has a last one.
LEMMA LastOne ==
  ASSUME NEW N \in Nat, NEW e \in Bits(N), NEW p \in 1..N, Bit(e, p) = 1
  PROVE  \E q \in p..N : Bit(e, q) = 1 /\ \A n \in q+1..N : Bit(e, n) = 0
<1> DEFINE S == {k \in 0..N-p : Bit(e, N-k) = 1}
<1>1. S \subseteq Nat /\ S # {}
  <2>1. N - p \in 0..N-p /\ N - (N - p) = p
    OBVIOUS
  <2>2. N - p \in S
    BY <2>1, Zenon
  <2>3. 0..N-p \subseteq Nat
    OBVIOUS
  <2>4. QED
    BY <2>2, <2>3, Zenon
<1>2. PICK k \in S : \A y \in S : k <= y
  <2> HIDE DEF S
  <2>1. QED
    BY <1>1, LeastExists
<1>3. k \in 0..N-p /\ Bit(e, N-k) = 1
  BY Zenon
<1>4. N-k \in p..N
  BY <1>3
<1>5. ASSUME NEW n \in (N-k)+1..N PROVE Bit(e, n) = 0
  <2>1. N - n \in 0..N-p /\ ~(k <= N - n) /\ N - (N - n) = n /\ n \in Int /\ n <= N
    BY <1>3
  <2>2. Bit(e, n) # 1
    BY <1>2, <2>1, Zenon
  <2>3. Bit(e, n) \in {0, 1}
    BY <2>1, BitType, Zenon
  <2>4. QED
    BY <2>2, <2>3
<1>6. QED
  BY <1>3, <1>4, <1>5, Zenon

\* A path that ends in state 0 ends in four zeros.
LEMMA FlushedState ==
  ASSUME NEW N \in Nat, N >= 4, NEW b \in Bits(N), State(b, N) = 0
  PROVE  \A n \in N-3..N : Bit(b, n) = 0
<1>1. PICK x \in {0, 1}, y \in {0, 1} : x = Bit(b, N-3) /\ y = Bit(b, N-2)
  <2>1. N-3 \in Int /\ N-3 <= N /\ N-2 \in Int /\ N-2 <= N
    OBVIOUS
  <2>2. QED
    BY <2>1, BitType, Zenon
<1>2. PICK z \in {0, 1}, u \in {0, 1} : z = Bit(b, N-1) /\ u = Bit(b, N)
  <2>1. N-1 \in Int /\ N-1 <= N /\ N \in Int /\ N <= N
    OBVIOUS
  <2>2. QED
    BY <2>1, BitType, Zenon
<1>3. 8*x + 4*y + 2*z + u = 0
  BY <1>1, <1>2, Zenon DEF State
<1>4. x = 0 /\ y = 0 /\ z = 0 /\ u = 0
  BY <1>3
<1>5. \A n \in N-3..N : n = N-3 \/ n = N-2 \/ n = N-1 \/ n = N
  OBVIOUS
<1>6. QED
  BY <1>1, <1>2, <1>4, <1>5, Zenon

\* A decoder that prefers another payload's path to the one that was sent, which ends in
\* state 0, when no soft bits are wrong but those in E.
Misled(b, s, soft, E, i, j, N) ==
  /\ N >= 4 /\ b \in Bits(N) /\ s \in Bits(N) /\ soft \in Receivable(N)
  /\ Disturbed(soft, s, E, N) /\ E \subseteq {i, j}
  /\ State(s, N) = 0 /\ \E n \in 1..N-4 : b[n] # s[n]
  /\ DistanceTo(b, soft, N)[N] <= DistanceTo(s, soft, N)[N]
  /\ State(b, N) = 0 \/ DistanceTo(b, soft, N)[N] < DistanceTo(s, soft, N)[N]

\* A nearest path begins with the payload that was sent, except after two wrong soft bits
\* near the end of the frame.
LEMMA NearestIsSent ==
  ASSUME NEW N \in Nat, NEW i \in Nat, NEW j \in Nat, NEW b, NEW s, NEW soft, NEW E,
         Misled(b, s, soft, E, i, j, N)
  PROVE  i # j /\ i > 2 * (N - 5) /\ j > 2 * (N - 5)
<1>0. /\ N >= 4 /\ b \in Bits(N) /\ s \in Bits(N) /\ soft \in Receivable(N)
      /\ Disturbed(soft, s, E, N) /\ E \subseteq {i, j}
      /\ State(s, N) = 0 /\ \E n \in 1..N-4 : b[n] # s[n]
  BY Zenon DEF Misled
<1> USE <1>0
<1> DEFINE S == {n \in 1..N-4 : b[n] # s[n]}
<1>1. PICK p \in S : \A n \in S : p <= n
  <2>1. S \subseteq Nat /\ S # {}
    OBVIOUS
  <2> HIDE DEF S
  <2>2. QED
    BY <2>1, LeastExists
<1>2. p \in 1..N-4 /\ b[p] # s[p]
  BY Zenon
<1>3. \A n \in 1..p-1 : b[n] = s[n]
  <2>1. \A n \in 1..p-1 : n \in 1..N-4 /\ ~(p <= n)
    BY <1>2
  <2>2. QED
    BY <1>1, <2>1, Zenon
<1> HIDE DEF S
<1>4. PICK e \in Bits(N) :
        /\ e = Difference(b, s, N)
        /\ \A n \in Int : n <= N => Bit(e, n) = (Bit(b, n) + Bit(s, n)) % 2
  <2>1. PICK d : d = Difference(b, s, N)
    OBVIOUS
  <2>2. d \in Bits(N) /\ \A n \in Int : n <= N => Bit(d, n) = (Bit(b, n) + Bit(s, n)) % 2
    BY <2>1, DifferenceIs
  <2>3. QED
    BY <2>1, <2>2, Zenon
<1>5. BeginsAt(e, p)
  <2>1. \A x \in {0, 1}, y \in {0, 1} : (x + y) % 2 = (IF x = y THEN 0 ELSE 1)
    OBVIOUS
  <2>2. \A n \in 1..N : e[n] = (b[n] + s[n]) % 2 /\ b[n] \in {0, 1} /\ s[n] \in {0, 1}
    BY <1>4, Zenon DEF Difference, Bits
  <2>3. \A n \in 1..N : e[n] = IF b[n] = s[n] THEN 0 ELSE 1
    BY <2>1, <2>2, Zenon
  <2>4. p \in 1..N /\ \A n \in 1..p-1 : n \in 1..N
    BY <1>2
  <2>5. QED
    BY <1>2, <1>3, <2>3, <2>4, Zenon DEF BeginsAt
<1>6. PICK f \in [0..N -> Int] :
        /\ \A n \in 0..N : f[n] = DistanceTo(b, soft, N)[n] - DistanceTo(s, soft, N)[n]
                                    + 28 * Count(i, j, n)
        /\ \A n \in 1..N : f[n] >= f[n-1] + 14 * Weight(e, n)
  <2>1. \E f \in [0..N -> Int] : Rises(f, b, s, soft, i, j, N)
    BY Potential
  <2>2. QED
    BY <1>4, <2>1, Zenon DEF Rises
<1>7. \A n \in 1..N : f[n] >= f[n-1]
  <2>1. SUFFICES ASSUME NEW n \in 1..N PROVE f[n] >= f[n-1]
    BY Zenon
  <2>2. n \in 0..N /\ n-1 \in 0..N
    OBVIOUS
  <2>3. PICK w \in 0..2 : w = Weight(e, n)
    BY <2>2, WeightType, Zenon
  <2>4. PICK x \in Int, y \in Int : x = f[n-1] /\ y = f[n]
    BY <2>2, Zenon
  <2>5. y >= x + 14 * w
    BY <1>6, <2>3, <2>4, Zenon
  <2>6. y >= x
    BY <2>5
  <2>7. QED
    BY <2>4, <2>6, Zenon
<1>8. /\ N \in 0..N /\ p-1 \in 0..N /\ p \in 1..N /\ p + 4 <= N /\ p + 4 \in 0..N
      /\ p - 1 <= N /\ p \in Nat
  BY <1>2
<1>9. PICK c0 \in 0..2, c \in 0..2 : c0 = Count(i, j, p-1) /\ c = Count(i, j, N)
  <2>1. \A n \in Int : Count(i, j, n) \in 0..2
    BY DEF Count
  <2>2. p-1 \in Int /\ N \in Int
    BY <1>8
  <2>3. QED
    BY <2>1, <2>2, Zenon
<1>10. f[p-1] = 28 * c0
  <2>1. DistanceTo(b, soft, N)[p-1] = DistanceTo(s, soft, N)[p-1]
    BY <1>3, <1>8, AlikeDistances
  <2>2. PICK G \in [0..N -> Nat] : G = DistanceTo(s, soft, N)
    BY DistanceToIs, Zenon
  <2>3. PICK x \in Nat : x = G[p-1]
    BY <1>8, Zenon
  <2>4. f[p-1] = x - x + 28 * c0
    BY <1>6, <1>8, <1>9, <2>1, <2>2, <2>3, Zenon
  <2>5. x - x + 28 * c0 = 28 * c0
    OBVIOUS
  <2>6. QED
    BY <2>4, <2>5, Zenon
<1>11. f[N] <= 28 * c /\ (State(b, N) # 0 => f[N] < 28 * c)
  <2>1. PICK F \in [0..N -> Nat] : F = DistanceTo(b, soft, N)
    BY DistanceToIs, Zenon
  <2>2. PICK G \in [0..N -> Nat] : G = DistanceTo(s, soft, N)
    BY DistanceToIs, Zenon
  <2>3. PICK x \in Nat, y \in Nat : x = F[N] /\ y = G[N]
    BY <1>8, Zenon
  <2>4. f[N] = x - y + 28 * c
    BY <1>6, <1>8, <1>9, <2>1, <2>2, <2>3, Zenon
  <2>5. x <= y /\ (State(b, N) # 0 => x < y)
    BY <2>1, <2>2, <2>3, Zenon DEF Misled
  <2>6. x - y + 28 * c <= 28 * c /\ (x < y => x - y + 28 * c < 28 * c)
    BY <2>5
  <2>7. QED
    BY <2>4, <2>5, <2>6, Zenon
<1>12. PICK last \in Int, first \in Int : last = f[N] /\ first = f[p-1]
  BY <1>8, Zenon
<1>12a. ClimbsFrom(f, e, p, N)
  <2>1. \A n \in 1..N : f[n] >= f[n-1] + 14 * Weight(e, n)
    BY <1>6, Zenon
  <2>2. QED
    BY <1>5, <1>8, <2>1, ClimbFromFirst
<1>13. CASE p = N - 4
  <2>1. f[p+4] >= f[p-1] + 42
    BY <1>12a, Zenon DEF ClimbsFrom
  <2>2. p + 4 = N /\ p - 1 = N - 5
    BY <1>13
  <2>3. last >= first + 42 /\ first = 28 * c0 /\ last <= 28 * c
    BY <1>10, <1>11, <1>12, <2>1, <2>2, Zenon
  <2>4. c = 2 /\ c0 = 0
    BY <2>3
  <2>5. Count(i, j, N) = 2 /\ Count(i, j, N - 5) = 0
    BY <1>9, <2>2, <2>4, Zenon
  <2>6. QED
    BY <2>5 DEF Count
<1>14. CASE p # N - 4
  <2>1. p + 5 <= N /\ p + 5 \in 0..N /\ p + 5 \in Int
    BY <1>2, <1>14
  <2>2. f[p+5] >= f[p-1] + 56 /\ ((\A n \in p+2..p+5 : Bit(e, n) = 0) => f[p+5] >= f[p-1] + 70)
    BY <1>12a, <2>1, Zenon DEF ClimbsFrom
  <2>3. f[p+5] <= f[N]
    <3>1. N \in p+5..N
      BY <2>1
    <3>2. QED
      BY <1>7, <2>1, <3>1, Climbs
  <2>4. PICK mid \in Int : mid = f[p+5]
    BY <2>1, Zenon
  <2>5. mid >= first + 56 /\ mid <= last /\ first = 28 * c0 /\ last <= 28 * c
    BY <1>10, <1>11, <1>12, <2>2, <2>3, <2>4, Zenon
  <2>6. mid >= 56 /\ last <= 56 /\ ~(last < 28 * c)
    BY <2>5
  <2>7. State(b, N) = 0
    BY <1>11, <1>12, <2>6, Zenon
  <2>8. \A n \in N-3..N : Bit(e, n) = 0
    <3>1. \A n \in N-3..N : n \in Int /\ n <= N
      OBVIOUS
    <3>2. (0 + 0) % 2 = 0
      OBVIOUS
    <3>3. QED
      BY <1>4, <2>7, <3>1, <3>2, FlushedState, Zenon
  <2>9. Bit(e, p) = 1
    <3>1. p >= 1
      BY <1>8
    <3>2. QED
      BY <1>5, <3>1, Zenon DEF BeginsAt, Bit
  <2>10. PICK q \in p..N : Bit(e, q) = 1 /\ \A n \in q+1..N : Bit(e, n) = 0
    BY <1>8, <2>9, LastOne
  <2>11. q + 4 <= N
    <3>1. q \notin N-3..N
      <4>1. 0 # 1
        OBVIOUS
      <4>2. QED
        BY <2>8, <2>10, <4>1, Zenon
    <3>2. QED
      BY <3>1
  <2>12. CASE q <= p + 1
    <3>1. \A n \in p+2..p+5 : n \in q+1..N
      BY <1>8, <2>1, <2>12
    <3>2. f[p+5] >= f[p-1] + 70
      BY <2>2, <2>10, <3>1, Zenon
    <3>3. mid >= first + 70
      BY <1>12, <2>4, <3>2, Zenon
    <3>4. FALSE
      BY <2>5, <3>3
    <3>5. QED
      BY <3>4
  <2>13. CASE ~(q <= p + 1)
    <3>1. /\ q \in 1..N /\ q + 4 \in 1..N /\ (q + 4) - 1 = q + 3 /\ q + 3 \in 0..N /\ q + 4 \in 0..N
          /\ q + 3 \in p+5..N /\ N \in q+4..N
      BY <1>8, <2>11, <2>13
    <3>2. f[p+5] <= f[q+3]
      BY <1>7, <2>1, <3>1, Climbs
    <3>3. f[q+4] <= f[N]
      BY <1>7, <3>1, Climbs
    <3>4. Weight(e, q+4) = 2
      BY <2>10, <2>11, <3>1, LastWeight
    <3>5. PICK x \in Int, y \in Int : x = f[q+3] /\ y = f[q+4]
      BY <3>1, Zenon
    <3>6. mid <= x /\ y >= x + 14 * 2 /\ y <= last
      BY <1>6, <1>12, <2>4, <3>1, <3>2, <3>3, <3>4, <3>5, Zenon
    <3>7. FALSE
      BY <2>6, <3>6
    <3>8. QED
      BY <3>7
  <2>14. QED
    BY <2>12, <2>13, Zenon
<1>15. QED
  BY <1>13, <1>14, Zenon
=============================================================================
