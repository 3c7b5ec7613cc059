--------------------------- MODULE DataInduction ---------------------------
(***************************************************************************)
(* What the proofs need to reason about recursive functions and sequences   *)
(* of any length: induction over the naturals, stated with a set instead of *)
(* a predicate, the existence of a function defined by recursion, and the   *)
(* laws of FlattenSeq and of a sequence's elements in a set.                *)
(***************************************************************************)
EXTENDS SequencesExt, Integers, FiniteSetTheorems, SequenceTheorems, TLAPS

\* A set that holds 0 and with a number its successor holds the naturals.  The
\* library's theorem on the inclusion of finite sets is the well-founded order.
LEMMA SetInduction ==
  ASSUME NEW S, 0 \in S, \A n \in Nat : n \in S => n + 1 \in S
  PROVE  Nat \subseteq S
<1> DEFINE Below(n) == 0..n-1
           T == {Below(n) : n \in Nat \ S}
           R == StrictSubsetOrdering(Nat)
<1>1. SUFFICES ASSUME NEW k \in Nat, k \notin S PROVE FALSE
  OBVIOUS
<1>2. T # {}
  BY <1>1
<1>3. T \subseteq FiniteSubsetsOf(Nat)
  <2>1. ASSUME NEW n \in Nat PROVE Below(n) \in SUBSET Nat /\ IsFiniteSet(Below(n))
    <3>1. IsFiniteSet(0..n-1)
      BY FS_Interval
    <3>2. QED
      BY <3>1
  <2>2. QED
    BY <2>1 DEF FiniteSubsetsOf
<1>4. IsWellFoundedOn(R, FiniteSubsetsOf(Nat))
  BY FS_StrictSubsetOrderingWellFounded
<1>5. \E x \in T : \A y \in T : ~(<<y, x>> \in R)
  <2> HIDE DEF T, R
  <2>1. QED
    BY <1>2, <1>3, <1>4, WFMin
<1>6. PICK x \in T : \A y \in T : ~(<<y, x>> \in R)
  BY <1>5
<1>7. PICK n \in Nat \ S : x = Below(n)
  BY <1>6
<1>8. n # 0 /\ n - 1 \in Nat /\ n - 1 \notin S
  <2>1. n # 0
    BY <1>7
  <2>2. n - 1 \in Nat
    BY <2>1, <1>7
  <2>3. (n - 1) + 1 = n
    BY <1>7
  <2>4. QED
    BY <2>1, <2>2, <2>3, <1>7
<1>9. Below(n - 1) \in T
  BY <1>8
<1>10. <<Below(n - 1), Below(n)>> \in R
  <2>1. Below(n-1) \subseteq Below(n) /\ n - 1 \in Below(n) /\ n - 1 \notin Below(n - 1)
    BY <1>8
  <2>2. Below(n-1) \in SUBSET Nat /\ Below(n) \in SUBSET Nat
    BY <1>8
  <2> HIDE DEF Below
  <2>3. QED
    BY <2>1, <2>2 DEF StrictSubsetOrdering
<1>11. QED
  BY <1>6, <1>7, <1>9, <1>10

\* Induction up to a bound.
LEMMA BoundedInduction ==
  ASSUME NEW N \in Nat, NEW S, 0 \in S, \A n \in 0..N-1 : n \in S => n + 1 \in S
  PROVE  0..N \subseteq S
<1> DEFINE T == {n \in Nat : n <= N => n \in S}
<1>1. 0 \in T
  OBVIOUS
<1>2. \A n \in Nat : n \in T => n + 1 \in T
  <2>1. SUFFICES ASSUME NEW n \in Nat, n \in T, n + 1 <= N PROVE n + 1 \in S
    OBVIOUS
  <2>2. n \in 0..N-1 /\ n \in S
    BY <2>1
  <2>3. QED
    BY <2>2
<1>3. Nat \subseteq T
  <2> HIDE DEF T
  <2>1. QED
    BY <1>1, <1>2, SetInduction
<1>4. QED
  BY <1>3

-----------------------------------------------------------------------------
\* The beginning of a function defined by recursion: its first n + 1 values.
Begins(f, n, V, a, step) ==
  /\ f \in [0..n -> V]
  /\ f[0] = a
  /\ \A i \in 0..n-1 : f[i+1] = step[i][f[i]]

\* There is such a beginning of every length.
LEMMA BeginningsExist ==
  ASSUME NEW V, NEW a \in V, NEW step \in [Nat -> [V -> V]]
  PROVE  \A n \in Nat : \E f : Begins(f, n, V, a, step)
<1> DEFINE S == {n \in Nat : \E f : Begins(f, n, V, a, step)}
<1>1. 0 \in S
  <2>1. Begins([i \in 0..0 |-> a], 0, V, a, step)
    BY DEF Begins
  <2>2. QED
    BY <2>1
<1>2. ASSUME NEW n \in Nat, n \in S PROVE n + 1 \in S
  <2>1. PICK f : Begins(f, n, V, a, step)
    BY <1>2
  <2> DEFINE g == [i \in 0..n+1 |-> IF i <= n THEN f[i] ELSE step[n][f[n]]]
  <2>2. step[n][f[n]] \in V
    BY <2>1 DEF Begins
  <2>3. g \in [0..n+1 -> V] /\ g[0] = a
    BY <2>1, <2>2 DEF Begins
  <2>4. ASSUME NEW i \in 0..n PROVE g[i+1] = step[i][g[i]]
    <3>1. CASE i = n
      BY <3>1
    <3>2. CASE i \in 0..n-1
      BY <3>2, <2>1 DEF Begins
    <3>3. QED
      BY <3>1, <3>2
  <2>5. Begins(g, n + 1, V, a, step)
    <3>1. 0..(n+1)-1 = 0..n
      OBVIOUS
    <3> HIDE DEF g
    <3>2. QED
      BY <2>3, <2>4, <3>1 DEF Begins
  <2>6. QED
    BY <2>5
<1>3. Nat \subseteq S
  <2> HIDE DEF S
  <2>1. QED
    BY <1>1, <1>2, SetInduction
<1>4. QED
  BY <1>3

-----------------------------------------------------------------------------
(***************************************************************************)
(* FlattenSeq: sequences one after the other.  Flattening(F, parts, S) is   *)
(* the function of how far one has got.                                    *)
(***************************************************************************)
Flattening(F, parts, S) ==
  /\ F \in [0..Len(parts) -> Seq(S)]
  /\ F[0] = <<>>
  /\ \A i \in 1..Len(parts) : F[i] = F[i-1] \o parts[i]

LEMMA FlatteningExists ==
  ASSUME NEW S, NEW parts \in Seq(Seq(S))
  PROVE  \E F : Flattening(F, parts, S)
<1> DEFINE N == Len(parts)
           part(i) == IF i + 1 \in 1..N THEN parts[i+1] ELSE <<>>
           step == [i \in Nat |-> [s \in Seq(S) |-> s \o part(i)]]
<1>1. N \in Nat /\ \A i \in 1..N : parts[i] \in Seq(S)
  OBVIOUS
<1>2. \A i \in Nat : part(i) \in Seq(S)
  BY <1>1
<1>3. step \in [Nat -> [Seq(S) -> Seq(S)]]
  <2> HIDE DEF part, N
  <2>1. \A i \in Nat : \A s \in Seq(S) : s \o part(i) \in Seq(S)
    BY <1>2
  <2>2. QED
    BY <2>1
<1>4. PICK f : Begins(f, N, Seq(S), <<>>, step)
  <2>1. << >> \in Seq(S)
    OBVIOUS
  <2> HIDE DEF step, N
  <2>2. QED
    BY <1>1, <1>3, <2>1, BeginningsExist
<1>5. ASSUME NEW i \in 1..N PROVE f[i] = f[i-1] \o parts[i]
  <2>1. i - 1 \in 0..N-1 /\ i - 1 \in Nat /\ (i - 1) + 1 = i
    BY <1>1
  <2>2. f[(i-1)+1] = step[i-1][f[i-1]]
    BY <1>4, <2>1 DEF Begins
  <2>3. f[i-1] \in Seq(S)
    <3>1. i - 1 \in 0..N
      BY <1>1
    <3>2. QED
      BY <1>4, <3>1, Zenon DEF Begins
  <2>4. part(i-1) = parts[i]
    BY <2>1
  <2>5. step[i-1] = [s \in Seq(S) |-> s \o part(i-1)]
    BY <2>1
  <2> HIDE DEF part, step
  <2>6. step[i-1][f[i-1]] = f[i-1] \o part(i-1)
    BY <2>3, <2>5, Zenon
  <2>7. f[i] = step[i-1][f[i-1]]
    BY <2>1, <2>2
  <2>8. QED
    BY <2>4, <2>6, <2>7, Zenon
<1>6. f \in [0..N -> Seq(S)] /\ f[0] = <<>>
  BY <1>4 DEF Begins
<1>7. QED
  BY <1>5, <1>6 DEF Flattening

LEMMA FlattenSeqIs ==
  ASSUME NEW S, NEW parts \in Seq(Seq(S)), NEW F, Flattening(F, parts, S)
  PROVE  FlattenSeq(parts) = F[Len(parts)]
<1>0. PICK N \in Nat : N = Len(parts)
  OBVIOUS
<1>1. /\ N = Len(parts)
      /\ \A i \in 1..N : parts[i] \in Seq(S)
      /\ \A i \in 1..N : F[i] = F[i-1] \o parts[i]
      /\ F[0] = <<>>
  BY <1>0, ElementOfSeq DEF Flattening
<1>2. CASE N = 0
  <2>1. parts = <<>>
    BY <1>1, <1>2, EmptySeq
  <2>2. QED
    BY <1>1, <1>2, <2>1 DEF FlattenSeq, Flattening
<1>3. CASE N # 0
  <2> DEFINE Body(g) == [i \in 1..N |-> IF i = 1 THEN parts[i] ELSE g[i-1] \o parts[i]]
             g == CHOOSE h : h = Body(h)
             G == [i \in 1..N |-> F[i]]
  <2>1. G = Body(G)
    <3>1. ASSUME NEW i \in 1..N
          PROVE  F[i] = IF i = 1 THEN parts[i] ELSE G[i-1] \o parts[i]
      <4>1. F[i] = F[i-1] \o parts[i] /\ F[0] = <<>> /\ parts[i] \in Seq(S)
        BY <1>1
      <4>2. CASE i = 1
        <5>1. << >> \o parts[i] = parts[i]
          BY <4>1, ConcatEmptySeq
        <5>2. F[i-1] = <<>>
          BY <4>1, <4>2
        <5>3. F[i] = parts[i]
          BY <4>1, <5>1, <5>2, Zenon
        <5>4. QED
          BY <4>2, <5>3, Zenon
      <4>3. CASE i # 1
        <5>1. i - 1 \in 1..N
          BY <4>3
        <5>2. QED
          BY <4>1, <4>3, <5>1
      <4>4. QED
        BY <4>2, <4>3
    <3>2. QED
      BY <3>1
  <2>2. g = Body(g)
    <3> HIDE DEF Body, G
    <3>1. QED
      BY <2>1
  <2> DEFINE T == {i \in 0..N : i # 0 => g[i] = F[i]}
  <2>3. 0 \in T
    BY <1>1
  <2> HIDE DEF g
  <2>4. ASSUME NEW i \in 0..N-1, i \in T PROVE i + 1 \in T
    <3>1. i + 1 \in 1..N
      BY <1>1
    <3>2. g[i+1] = IF i + 1 = 1 THEN parts[i+1] ELSE g[(i+1)-1] \o parts[i+1]
      BY <2>2, <3>1
    <3>3. F[i+1] = F[(i+1)-1] \o parts[i+1] /\ F[0] = <<>> /\ parts[i+1] \in Seq(S)
      BY <1>1, <3>1
    <3>4. (i + 1) - 1 = i
      BY <1>1
    <3>5. g[i+1] = F[i+1]
      <4>1. CASE i = 0
        <5>1. g[i+1] = parts[i+1] /\ F[(i+1)-1] = <<>>
          BY <3>2, <3>3, <3>4, <4>1
        <5>2. << >> \o parts[i+1] = parts[i+1]
          BY <3>3, ConcatEmptySeq
        <5>3. QED
          BY <3>3, <5>1, <5>2
      <4>2. CASE i # 0
        <5>1. g[(i+1)-1] = F[(i+1)-1]
          BY <2>4, <3>4, <4>2
        <5>2. QED
          <6>1. i + 1 # 1
            BY <4>2
          <6>2. QED
            BY <3>2, <3>3, <5>1, <6>1, Zenon
      <4>3. QED
        BY <4>1, <4>2
    <3>6. QED
      BY <3>1, <3>5
  <2>5. 0..N \subseteq T
    <3> HIDE DEF T
    <3>1. QED
      BY <1>1, <2>3, <2>4, BoundedInduction
  <2>6. g[N] = F[N]
    BY <1>1, <1>3, <2>5
  <2>7. FlattenSeq(parts) = g[N]
    BY <1>1, <1>3 DEF FlattenSeq, g
  <2>8. QED
    BY <1>1, <2>6, <2>7
<1>4. QED
  BY <1>2, <1>3

LEMMA FlattenSeqType ==
  ASSUME NEW S, NEW parts \in Seq(Seq(S))
  PROVE  FlattenSeq(parts) \in Seq(S)
<1>1. PICK F : Flattening(F, parts, S)
  BY FlatteningExists
<1>2. F[Len(parts)] \in Seq(S)
  BY <1>1 DEF Flattening
<1>3. QED
  BY <1>1, <1>2, FlattenSeqIs

LEMMA FlattenSeqConcat ==
  ASSUME NEW S, NEW p \in Seq(Seq(S)), NEW q \in Seq(Seq(S))
  PROVE  FlattenSeq(p \o q) = FlattenSeq(p) \o FlattenSeq(q)
<1>1. PICK P : Flattening(P, p, S)
  BY FlatteningExists
<1>2. PICK Q : Flattening(Q, q, S)
  BY FlatteningExists
<1>3. PICK m \in Nat, n \in Nat : m = Len(p) /\ n = Len(q)
  OBVIOUS
<1>4. /\ p \o q \in Seq(Seq(S)) /\ Len(p \o q) = m + n
      /\ \A i \in 1..m+n : (p \o q)[i] = IF i <= m THEN p[i] ELSE q[i-m]
      /\ \A i \in 1..m : p[i] \in Seq(S)
      /\ \A i \in 1..n : q[i] \in Seq(S)
  BY <1>3, ConcatProperties, ElementOfSeq
<1>5. /\ \A i \in 0..m : P[i] \in Seq(S)
      /\ \A i \in 0..n : Q[i] \in Seq(S)
      /\ P[0] = <<>> /\ Q[0] = <<>>
      /\ \A i \in 1..m : P[i] = P[i-1] \o p[i]
      /\ \A i \in 1..n : Q[i] = Q[i-1] \o q[i]
  BY <1>1, <1>2, <1>3 DEF Flattening
<1>6. PICK end \in Seq(S) : end = P[m]
  BY <1>5
<1>7. end \o <<>> = end
  BY <1>6, ConcatEmptySeq
\* How far one has got: within p, or in q after all of p.
<1> DEFINE F == [i \in 0..m+n |-> IF i <= m THEN P[i] ELSE end \o Q[i-m]]
<1>8. \A i \in 0..m : i \in 0..m+n /\ F[i] = P[i]
  <2>1. \A i \in 0..m : i \in 0..m+n /\ i <= m
    BY <1>3
  <2>2. QED
    BY <2>1, Zenon
<1>9. \A j \in 0..n : m + j \in 0..m+n /\ F[m+j] = end \o Q[j]
  <2>1. SUFFICES ASSUME NEW j \in 0..n PROVE m + j \in 0..m+n /\ F[m+j] = end \o Q[j]
    BY Zenon
  <2>2. m + j \in 0..m+n /\ (m + j) - m = j /\ (j = 0 => m + j <= m /\ m + j = m)
        /\ (j # 0 => ~(m + j <= m))
    BY <1>3
  <2>3. CASE j = 0
    BY <1>5, <1>6, <1>7, <2>2, <2>3, Zenon
  <2>4. CASE j # 0
    BY <2>2, <2>4, Zenon
  <2>5. QED
    BY <2>3, <2>4, Zenon
<1>10. \A i \in 0..m+n : i \in 0..m \/ (i - m \in 0..n /\ m + (i - m) = i)
  BY <1>3
<1> HIDE DEF F
<1>11. \A i \in 0..m+n : F[i] \in Seq(S)
  <2>1. \A j \in 0..n : end \o Q[j] \in Seq(S)
    BY <1>5, <1>6, ConcatProperties, Zenon
  <2>2. QED
    BY <1>5, <1>8, <1>9, <1>10, <2>1, Zenon
<1>12. ASSUME NEW i \in 1..m+n PROVE F[i] = F[i-1] \o (p \o q)[i]
  <2>1. CASE i \in 1..m
    <3>1. i \in 0..m /\ i - 1 \in 0..m /\ i <= m
      BY <2>1, <1>3
    <3>2. F[i] = P[i] /\ F[i-1] = P[i-1] /\ (p \o q)[i] = p[i]
      BY <1>4, <1>8, <3>1, Zenon
    <3>3. P[i] = P[i-1] \o p[i]
      BY <1>5, <2>1, Zenon
    <3>4. QED
      BY <3>2, <3>3, Zenon
  <2>2. CASE i \notin 1..m
    <3>1. PICK j \in 1..n : i = m + j /\ i - 1 = m + (j - 1) /\ i - m = j
      <4>1. i - m \in 1..n /\ i = m + (i - m) /\ i - 1 = m + ((i - m) - 1)
        BY <2>2, <1>3
      <4>2. QED
        BY <4>1, Zenon
    <3>2. j \in 0..n /\ j - 1 \in 0..n /\ ~(i <= m)
      BY <2>2, <3>1, <1>3
    <3>3. F[i] = end \o Q[j] /\ F[i-1] = end \o Q[j-1] /\ (p \o q)[i] = q[j]
      BY <1>4, <1>9, <3>1, <3>2, Zenon
    <3>4. Q[j-1] \in Seq(S) /\ q[j] \in Seq(S) /\ Q[j] = Q[j-1] \o q[j]
      BY <1>4, <1>5, <3>2, Zenon
    <3>5. end \o (Q[j-1] \o q[j]) = (end \o Q[j-1]) \o q[j]
      <4>1. \A v \in Seq(S), w \in Seq(S) : end \o (v \o w) = (end \o v) \o w
        BY ConcatAssociative
      <4>2. QED
        BY <3>4, <4>1, Zenon
    <3>6. QED
      BY <3>3, <3>4, <3>5, Zenon
  <2>3. QED
    BY <2>1, <2>2, Zenon
<1>13. F \in [0..m+n -> Seq(S)]
  BY <1>11, Zenon DEF F
<1>14. F[0] = <<>> /\ F[m+n] = end \o Q[n]
  <2>1. 0 \in 0..m /\ n \in 0..n
    BY <1>3
  <2>2. QED
    BY <1>5, <1>8, <1>9, <2>1, Zenon
<1>15. Flattening(F, p \o q, S)
  BY <1>4, <1>12, <1>13, <1>14, Zenon DEF Flattening
<1>16. FlattenSeq(p \o q) = F[m+n] /\ FlattenSeq(p) = end /\ FlattenSeq(q) = Q[n]
  BY <1>1, <1>2, <1>3, <1>4, <1>6, <1>15, FlattenSeqIs, Zenon
<1>17. QED
  BY <1>14, <1>16, Zenon

LEMMA FlattenSeqOne ==
  ASSUME NEW S, NEW s \in Seq(S)
  PROVE  FlattenSeq(<<s>>) = s
<1> DEFINE F == [i \in 0..1 |-> IF i = 0 THEN <<>> ELSE s]
<1>1. << >> \o s = s /\ <<s>> \in Seq(Seq(S)) /\ Len(<<s>>) = 1 /\ <<s>>[1] = s
  OBVIOUS
<1>2. Flattening(F, <<s>>, S)
  <2>1. F \in [0..1 -> Seq(S)] /\ F[0] = <<>> /\ F[1] = s
    OBVIOUS
  <2>2. \A i \in 1..1 : i = 1 /\ i - 1 = 0
    OBVIOUS
  <2> HIDE DEF F
  <2>3. QED
    BY <1>1, <2>1, <2>2 DEF Flattening
<1>3. F[1] = s
  OBVIOUS
<1> HIDE DEF F
<1>4. QED
  BY <1>1, <1>2, <1>3, FlattenSeqIs, Zenon

LEMMA FlattenSeqNone == FlattenSeq(<<>>) = <<>>
  BY DEF FlattenSeq

-----------------------------------------------------------------------------
\* A function applied to each element of a sequence.
Mapped(s, h) == [i \in DOMAIN s |-> h[s[i]]]

LEMMA MappedAt ==
  ASSUME NEW S, NEW h, NEW s \in Seq(S)
  PROVE  /\ DOMAIN Mapped(s, h) = 1..Len(s)
         /\ \A i \in 1..Len(s) : Mapped(s, h)[i] = h[s[i]]
<1>1. DOMAIN s = 1..Len(s)
  BY LenProperties
<1>2. QED
  BY <1>1, Zenon DEF Mapped

LEMMA MappedType ==
  ASSUME NEW S, NEW W, NEW h \in [S -> W], NEW s \in Seq(S)
  PROVE  Mapped(s, h) \in Seq(W) /\ Len(Mapped(s, h)) = Len(s)
<1>1. PICK n \in Nat : n = Len(s) /\ DOMAIN s = 1..n /\ \A i \in 1..n : s[i] \in S
  BY LenProperties
<1>2. Mapped(s, h) = [i \in 1..n |-> h[s[i]]]
  BY <1>1, Zenon DEF Mapped
<1>3. Mapped(s, h) \in [1..n -> W]
  BY <1>1, <1>2
<1>4. QED
  BY <1>1, <1>3

LEMMA MappedConcat ==
  ASSUME NEW S, NEW W, NEW h \in [S -> W], NEW s \in Seq(S), NEW t \in Seq(S)
  PROVE  Mapped(s \o t, h) = Mapped(s, h) \o Mapped(t, h)
<1>1. PICK m \in Nat, n \in Nat : m = Len(s) /\ n = Len(t)
  OBVIOUS
<1>2. /\ s \o t \in Seq(S) /\ Len(s \o t) = m + n
      /\ \A i \in 1..m+n : (s \o t)[i] = IF i <= m THEN s[i] ELSE t[i-m]
  BY <1>1, ConcatProperties
<1>3. PICK p \in Seq(W), q \in Seq(W) : p = Mapped(s, h) /\ q = Mapped(t, h)
  BY MappedType
<1>4. Len(p) = m /\ Len(q) = n
  BY <1>1, <1>3, MappedType
<1>5. (\A i \in 1..m : p[i] = h[s[i]]) /\ (\A i \in 1..n : q[i] = h[t[i]])
  <2>1. \A i \in 1..Len(s) : Mapped(s, h)[i] = h[s[i]]
    BY MappedAt
  <2>2. \A i \in 1..Len(t) : Mapped(t, h)[i] = h[t[i]]
    BY MappedAt
  <2>3. QED
    BY <1>1, <1>3, <2>1, <2>2, Zenon
<1>6. /\ p \o q \in Seq(W) /\ Len(p \o q) = m + n
      /\ \A i \in 1..m+n : (p \o q)[i] = IF i <= m THEN p[i] ELSE q[i-m]
  BY <1>4, ConcatProperties
<1>7. PICK u \in Seq(S) : u = s \o t
  BY <1>2
<1>8. PICK r : r = Mapped(u, h)
  OBVIOUS
<1>9. r \in Seq(W) /\ Len(r) = Len(u)
  BY <1>8, MappedType
<1>10. \A i \in 1..Len(u) : r[i] = h[u[i]]
  BY <1>8, MappedAt
<1>11. Len(r) = m + n /\ \A i \in 1..m+n : r[i] = h[(s \o t)[i]]
  BY <1>2, <1>7, <1>9, <1>10, Zenon
<1>12. ASSUME NEW i \in 1..m+n PROVE r[i] = (p \o q)[i]
  <2>1. CASE i <= m
    <3>1. i \in 1..m
      BY <2>1
    <3>2. (p \o q)[i] = p[i] /\ (s \o t)[i] = s[i]
      BY <1>2, <1>6, <2>1, Zenon
    <3>3. QED
      BY <1>5, <1>11, <3>1, <3>2, Zenon
  <2>2. CASE ~(i <= m)
    <3>1. i - m \in 1..n
      BY <2>2
    <3>2. (p \o q)[i] = q[i-m] /\ (s \o t)[i] = t[i-m]
      BY <1>2, <1>6, <2>2, Zenon
    <3>3. QED
      BY <1>5, <1>11, <3>1, <3>2, Zenon
  <2>3. QED
    BY <2>1, <2>2, Zenon
<1>13. r = p \o q
  BY <1>6, <1>9, <1>11, <1>12, SeqEqual, Zenon
<1>14. QED
  BY <1>3, <1>7, <1>8, <1>13, Zenon

LEMMA MappedOne ==
  ASSUME NEW S, NEW W, NEW h \in [S -> W], NEW x \in S
  PROVE  Mapped(<<x>>, h) = <<h[x]>>
  BY DEF Mapped

LEMMA FlattenMappedType ==
  ASSUME NEW S, NEW W, NEW h \in [S -> Seq(W)], NEW s \in Seq(S)
  PROVE  FlattenSeq(Mapped(s, h)) \in Seq(W)
<1>1. Mapped(s, h) \in Seq(Seq(W))
  BY MappedType
<1>2. QED
  BY <1>1, FlattenSeqType

LEMMA FlattenMappedConcat ==
  ASSUME NEW S, NEW W, NEW h \in [S -> Seq(W)], NEW s \in Seq(S), NEW t \in Seq(S)
  PROVE  FlattenSeq(Mapped(s \o t, h)) = FlattenSeq(Mapped(s, h)) \o FlattenSeq(Mapped(t, h))
<1>1. PICK p \in Seq(Seq(W)), q \in Seq(Seq(W)) : p = Mapped(s, h) /\ q = Mapped(t, h)
  BY MappedType
<1>2. Mapped(s \o t, h) = p \o q
  BY <1>1, MappedConcat, Zenon
<1>3. FlattenSeq(p \o q) = FlattenSeq(p) \o FlattenSeq(q)
  BY FlattenSeqConcat
<1>4. QED
  BY <1>1, <1>2, <1>3, Zenon

LEMMA FlattenMappedOne ==
  ASSUME NEW S, NEW W, NEW h \in [S -> Seq(W)], NEW x \in S
  PROVE  FlattenSeq(Mapped(<<x>>, h)) = h[x]
<1>1. h[x] \in Seq(W)
  OBVIOUS
<1>2. FlattenSeq(<<h[x]>>) = h[x]
  BY <1>1, FlattenSeqOne
<1>3. Mapped(<<x>>, h) = <<h[x]>>
  BY MappedOne
<1>4. QED
  BY <1>2, <1>3
=============================================================================
