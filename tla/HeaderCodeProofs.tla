--------------------------- MODULE HeaderCodeProofs ---------------------------
(***************************************************************************)
(* Theorems about Golay24 and HeaderCode, for any data of a word and any    *)
(* header that opv-mod sends.  The loop of syndrome() divides by POLY, so   *)
(* that syndromes add up (SyndromeLinear) and a word without one is a       *)
(* product of POLY (CodewordIs).  None of the 4096 products has one to six  *)
(* bits (CodeDistance): two patterns of three errors never have the same    *)
(* syndrome (UniqueErrors), and make_lut's table has each under its own     *)
(* (LutIs).  Encoded words have no syndrome, since dividing 23 times by x   *)
(* modulo POLY changes nothing (WordPeriod, EncodedWord).  From these:      *)
(* three wrong bits are corrected (GolayCorrects) and four are noticed      *)
(* (GolayNotices), a callsign of nine characters comes back from its two    *)
(* groups (CallsignComesBack), and a header comes back or is refused        *)
(* (HeaderComesBack).                                                       *)
(***************************************************************************)
EXTENDS HeaderCode, DataInduction

-----------------------------------------------------------------------------
(***************************************************************************)
(* The Golay code.                                                          *)
(***************************************************************************)
Words23 == SUBSET (0..22)

\* Dividing a word: it is shifted down, after an odd one has been made even with POLY.
LEMMA DividedIs ==
  ASSUME NEW w \in Words23
  PROVE  /\ Divided(w) \in SUBSET (0..21)
         /\ \A n \in 0..22 : n \in Divided(w) <=> ((n + 1 \in w) # (0 \in w /\ n + 1 \in Poly))
<1> DEFINE v == IF 0 \in w THEN SymDiff(w, Poly) ELSE w
<1>1. v \in SUBSET (0..22) /\ \A n \in 0..23 : n \in v <=> ((n \in w) # (0 \in w /\ n \in Poly))
  BY DEF Words23, SymDiff, Poly
<1>2. Divided(w) = Down(v, 1)
  BY DEF Divided
<1> HIDE DEF v
<1>3. Down(v, 1) = {b - 1 : b \in {c \in v : c >= 1}}
  BY DEF Down
<1>4. \A n \in 0..22 : n \in Down(v, 1) <=> n + 1 \in v
  BY <1>1, <1>3
<1>5. Down(v, 1) \in SUBSET (0..21)
  BY <1>1, <1>3
<1>6. \A n \in 0..22 : n + 1 \in 0..23
  OBVIOUS
<1>7. QED
  BY <1>1, <1>2, <1>4, <1>5, <1>6

\* The words of the loop after up to N of its iterations: the first is the one to be reduced.
Dividing(f, w, N) ==
  /\ f \in [0..N -> Words23]
  /\ f[0] = w
  /\ \A i \in 0..N-1 : f[i+1] = Divided(f[i])

\* There are such words for every number of iterations.
LEMMA DividingExists ==
  ASSUME NEW w \in Words23, NEW N \in Nat
  PROVE  \E f : Dividing(f, w, N)
<1> DEFINE step == [n \in Nat |-> [v \in Words23 |-> Divided(v)]]
<1>1. \A v \in Words23 : Divided(v) \in Words23
  BY DividedIs DEF Words23
<1>2. step \in [Nat -> [Words23 -> Words23]]
  BY <1>1
<1>3. PICK f : Begins(f, N, Words23, w, step)
  <2> HIDE DEF step
  <2>1. QED
    BY <1>2, BeginningsExist, Zenon
<1>4. f \in [0..N -> Words23] /\ f[0] = w
  BY <1>3, Zenon DEF Begins
<1>5. ASSUME NEW i \in 0..N-1 PROVE f[i+1] = Divided(f[i])
  <2>1. i \in Nat /\ i \in 0..N
    OBVIOUS
  <2>2. f[i+1] = step[i][f[i]]
    BY <1>3, Zenon DEF Begins
  <2>3. f[i] \in Words23
    BY <1>4, <2>1, Zenon
  <2>4. QED
    BY <2>1, <2>2, <2>3, Zenon
<1>6. QED
  BY <1>4, <1>5, Zenon DEF Dividing

\* syndrome() returns the word after twelve iterations.
LEMMA ReducedIs ==
  ASSUME NEW w \in Words23
  PROVE  \E f : Dividing(f, w, 12) /\ Reduced(w) = f[12]
<1> DEFINE Body(f) == [i \in 0..12 |-> IF i = 0 THEN w ELSE Divided(f[i-1])]
           D == CHOOSE g : g = Body(g)
<1>1. PICK f : Dividing(f, w, 12)
  BY DividingExists
<1>2. /\ f \in [0..12 -> Words23] /\ f[0] = w
      /\ \A i \in 0..11 : f[i+1] = Divided(f[i])
  <2>1. 12-1 = 11
    OBVIOUS
  <2>2. QED
    BY <1>1, <2>1, Zenon DEF Dividing
<1>3. f = Body(f)
  <2>1. ASSUME NEW i \in 0..12, i # 0 PROVE f[i] = Divided(f[i-1])
    <3>1. i - 1 \in 0..11 /\ (i - 1) + 1 = i
      BY <2>1
    <3>2. QED
      BY <1>2, <3>1, Zenon
  <2>2. f = [i \in 0..12 |-> f[i]]
    BY <1>2, Zenon
  <2>3. \A i \in 0..12 : f[i] = IF i = 0 THEN w ELSE Divided(f[i-1])
    BY <1>2, <2>1, Zenon
  <2>4. QED
    BY <2>2, <2>3, Zenon
<1>4. D = Body(D)
  <2> HIDE DEF Body
  <2>1. QED
    BY <1>3, Zenon
<1>5. Reduced(w) = D[12]
  BY Zenon DEF Reduced
<1> HIDE DEF D
<1>6. D[0] = w /\ \A i \in 0..11 : D[i+1] = Divided(D[i])
  <2>1. 0 \in 0..12
    OBVIOUS
  <2>2. ASSUME NEW i \in 0..11 PROVE D[i+1] = Divided(D[i])
    <3>1. i + 1 \in 0..12 /\ i + 1 # 0 /\ (i + 1) - 1 = i
      OBVIOUS
    <3>2. QED
      BY <1>4, <3>1, Zenon
  <2>3. QED
    BY <1>4, <2>1, <2>2, Zenon
<1>7. 12 \in {i \in 0..12 : D[i] = f[i]}
  <2> DEFINE T == {i \in 0..12 : D[i] = f[i]}
  <2>1. 0 \in T
    BY <1>2, <1>6
  <2>2. ASSUME NEW i \in 0..12-1, i \in T PROVE i + 1 \in T
    <3>1. i \in 0..11 /\ i + 1 \in 0..12
      OBVIOUS
    <3>2. QED
      BY <1>2, <1>6, <2>2, <3>1, Zenon
  <2> HIDE DEF T
  <2>3. 0..12 \subseteq T
    BY <2>1, <2>2, BoundedInduction
  <2>4. QED
    BY <2>3 DEF T
<1>8. QED
  BY <1>1, <1>5, <1>7, Zenon

One(w, n) == IF n \in w THEN 1 ELSE 0

\* The words of the loop for a sum of words are the sums of theirs.
LEMMA DividingLinear ==
  ASSUME NEW N \in Nat, NEW v \in Words23, NEW w \in Words23,
         NEW f, Dividing(f, v, N), NEW g, Dividing(g, w, N),
         NEW h, Dividing(h, SymDiff(v, w), N)
  PROVE  h[N] = SymDiff(f[N], g[N])
<1>1. ASSUME NEW x \in Words23, NEW y \in Words23
      PROVE  Divided(SymDiff(x, y)) = SymDiff(Divided(x), Divided(y))
  <2>1. PICK z \in Words23 : z = SymDiff(x, y)
    BY DEF Words23, SymDiff
  <2>2. \A n \in 0..22 : n \in Divided(z) <=> n \in SymDiff(Divided(x), Divided(y))
    <3>1. SUFFICES ASSUME NEW n \in 0..22
                   PROVE  n \in Divided(z) <=> n \in SymDiff(Divided(x), Divided(y))
      OBVIOUS
    <3>2. /\ n \in Divided(x) <=> ((n + 1 \in x) # (0 \in x /\ n + 1 \in Poly))
          /\ n \in Divided(y) <=> ((n + 1 \in y) # (0 \in y /\ n + 1 \in Poly))
          /\ n \in Divided(z) <=> ((n + 1 \in z) # (0 \in z /\ n + 1 \in Poly))
      BY DividedIs, Zenon
    <3>3. \A m : m \in z <=> ((m \in x) # (m \in y))
      BY <2>1 DEF SymDiff
    <3>4. QED
      BY <3>2, <3>3 DEF SymDiff
  <2>3. Divided(x) \subseteq 0..22 /\ Divided(y) \subseteq 0..22 /\ Divided(z) \subseteq 0..22
    BY DividedIs
  <2>4. SymDiff(Divided(x), Divided(y)) \subseteq 0..22
    BY <2>3 DEF SymDiff
  <2>5. QED
    BY <2>1, <2>2, <2>3, <2>4
<1> DEFINE T == {i \in 0..N : h[i] = SymDiff(f[i], g[i])}
<1>2. 0 \in T
  BY DEF Dividing
<1>3. ASSUME NEW i \in 0..N-1, i \in T PROVE i + 1 \in T
  <2>1. i + 1 \in 0..N /\ i \in 0..N
    OBVIOUS
  <2>2. f[i] \in Words23 /\ g[i] \in Words23
    BY <2>1, Zenon DEF Dividing
  <2>3. f[i+1] = Divided(f[i]) /\ g[i+1] = Divided(g[i]) /\ h[i+1] = Divided(h[i])
    BY Zenon DEF Dividing
  <2>4. h[i] = SymDiff(f[i], g[i])
    BY <1>3
  <2>5. Divided(SymDiff(f[i], g[i])) = SymDiff(Divided(f[i]), Divided(g[i]))
    BY <1>1, <2>2, Zenon
  <2>6. QED
    BY <2>1, <2>3, <2>4, <2>5, Zenon
<1>4. 0..N \subseteq T
  <2> HIDE DEF T
  <2>1. QED
    BY <1>2, <1>3, BoundedInduction
<1>5. N \in T
  BY <1>4
<1>6. QED
  BY <1>5

\* What remains of a sum of words is the sum of what remains of them.
LEMMA SyndromeLinear ==
  ASSUME NEW v \in Words23, NEW w \in Words23
  PROVE  /\ SymDiff(v, w) \in Words23
         /\ Reduced(SymDiff(v, w)) = SymDiff(Reduced(v), Reduced(w))
<1>1. PICK u \in Words23 : u = SymDiff(v, w)
  BY DEF Words23, SymDiff
<1>2. PICK f : Dividing(f, v, 12) /\ Reduced(v) = f[12]
  BY ReducedIs
<1>3. PICK g : Dividing(g, w, 12) /\ Reduced(w) = g[12]
  BY ReducedIs
<1>4. PICK h : Dividing(h, u, 12) /\ Reduced(u) = h[12]
  BY ReducedIs
<1>5. h[12] = SymDiff(f[12], g[12])
  <2>1. 12 \in Nat
    OBVIOUS
  <2>2. QED
    BY <1>1, <1>2, <1>3, <1>4, <2>1, DividingLinear
<1>6. QED
  BY <1>1, <1>2, <1>3, <1>4, <1>5

-----------------------------------------------------------------------------
\* A word without a remainder is a product: the sum of POLY's shifts by the bits that the
\* loop finds odd.  At(q, i, n) is the bit n of what is left of the factor after i of them.
At(q, i, n) == IF n >= 0 /\ i + n <= 11 THEN q[i + n] ELSE 0
Product(q, i, n) ==
  (At(q, i, n) + At(q, i, n - 2) + At(q, i, n - 4) + At(q, i, n - 5) + At(q, i, n - 6)
     + At(q, i, n - 10) + At(q, i, n - 11)) % 2

\* What taking one more of the factor's bits does to it.
LEMMA AtShift ==
  ASSUME NEW q \in [0..11 -> {0, 1}], NEW i \in 0..11
  PROVE  /\ \A m \in Int : At(q, i, m) \in {0, 1} /\ At(q, i + 1, m) \in {0, 1}
         /\ \A m \in Int : At(q, i, m + 1) = IF m = -1 THEN q[i] ELSE At(q, i + 1, m)
         /\ \A m \in Int : m < 0 => At(q, i, m) = 0 /\ At(q, i + 1, m) = 0
         /\ At(q, i, 0) = q[i]
<1>1. ASSUME NEW m \in Int PROVE At(q, i, m) \in {0, 1} /\ At(q, i + 1, m) \in {0, 1}
  BY DEF At
<1>2. ASSUME NEW m \in Int PROVE At(q, i, m + 1) = IF m = -1 THEN q[i] ELSE At(q, i + 1, m)
  <2>1. CASE m = -1
    BY <2>1 DEF At
  <2>2. CASE m # -1
    <3>1. m + 1 >= 0 <=> m >= 0
      BY <2>2
    <3>2. i + (m + 1) = (i + 1) + m
      OBVIOUS
    <3>3. QED
      BY <2>2, <3>1, <3>2 DEF At
  <2>3. QED
    BY <2>1, <2>2
<1>3. \A m \in Int : m < 0 => At(q, i, m) = 0 /\ At(q, i + 1, m) = 0
  BY DEF At
<1>4. At(q, i, 0) = q[i]
  BY DEF At
<1>5. QED
  BY <1>1, <1>2, <1>3, <1>4

\* A step of the product.
LEMMA ProductStep ==
  ASSUME NEW q \in [0..11 -> {0, 1}], NEW i \in 0..11, NEW n \in 0..21
  PROVE  /\ Product(q, i, 0) = q[i]
         /\ Product(q, i, n + 1) =
              (Product(q, i + 1, n) + (IF n + 1 \in Poly THEN q[i] ELSE 0)) % 2
<1>1. Product(q, i, 0) = q[i]
  <2>1. /\ At(q, i, 0-2) = 0 /\ At(q, i, 0-4) = 0 /\ At(q, i, 0-5) = 0 /\ At(q, i, 0-6) = 0
        /\ At(q, i, 0-10) = 0 /\ At(q, i, 0-11) = 0
    BY AtShift
  <2>2. PICK x \in {0, 1} : x = q[i]
    OBVIOUS
  <2>3. At(q, i, 0) = x
    BY <2>2, AtShift, Zenon
  <2>4. Product(q, i, 0) = (x + 0 + 0 + 0 + 0 + 0 + 0) % 2
    BY <2>1, <2>3, Zenon DEF Product
  <2>5. QED
    BY <2>2, <2>4
<1>2. PICK x \in {0, 1} : x = q[i]
  OBVIOUS
<1> DEFINE a(p) == At(q, i, (n + 1) - p)
           b(p) == At(q, i + 1, n - p)
<1>3. ASSUME NEW p \in Poly
      PROVE  a(p) \in {0, 1} /\ b(p) \in {0, 1} /\ a(p) = IF n + 1 = p THEN x ELSE b(p)
  <2>1. PICK m \in Int : m = n - p
    BY DEF Poly
  <2>2. (n + 1) - p = m + 1 /\ (m = -1 <=> n + 1 = p)
    BY <2>1 DEF Poly
  <2>3. At(q, i, m + 1) = IF m = -1 THEN q[i] ELSE At(q, i + 1, m)
    BY AtShift
  <2>4. At(q, i, m + 1) \in {0, 1} /\ At(q, i + 1, m) \in {0, 1}
    BY AtShift
  <2>5. QED
    BY <1>2, <2>1, <2>2, <2>3, <2>4, Zenon
<1>4. \A p \in Poly : n + 1 = p => b(p) = 0
  <2>1. \A p \in Poly : n + 1 = p => n - p = -1 /\ -1 \in Int /\ -1 < 0
    BY DEF Poly
  <2>2. QED
    BY <2>1, AtShift
<1>5. Product(q, i + 1, n) = (b(0) + b(2) + b(4) + b(5) + b(6) + b(10) + b(11)) % 2
  <2>1. n - 0 = n
    OBVIOUS
  <2>2. QED
    BY <2>1, Zenon DEF Product
<1>6. Product(q, i, n + 1) = (a(0) + a(2) + a(4) + a(5) + a(6) + a(10) + a(11)) % 2
  <2>1. PICK m \in Int : m = n + 1 /\ m - 0 = m
    OBVIOUS
  <2>2. Product(q, i, m) = (At(q, i, m - 0) + At(q, i, m - 2) + At(q, i, m - 4)
                              + At(q, i, m - 5) + At(q, i, m - 6) + At(q, i, m - 10)
                              + At(q, i, m - 11)) % 2
    BY <2>1, Zenon DEF Product
  <2>3. \A p : a(p) = At(q, i, m - p)
    BY <2>1, Zenon
  <2> HIDE DEF a
  <2>4. Product(q, i, m) = (a(0) + a(2) + a(4) + a(5) + a(6) + a(10) + a(11)) % 2
    BY <2>2, <2>3, Zenon
  <2>5. QED
    BY <2>1, <2>4, Zenon
<1> HIDE DEF a, b
<1>7. /\ 0 \in Poly /\ 2 \in Poly /\ 4 \in Poly /\ 5 \in Poly /\ 6 \in Poly /\ 10 \in Poly
      /\ 11 \in Poly
  BY DEF Poly
<1>8. (a(0) + a(2) + a(4) + a(5) + a(6) + a(10) + a(11)) % 2
        = (((b(0) + b(2) + b(4) + b(5) + b(6) + b(10) + b(11)) % 2)
             + (IF n + 1 \in Poly THEN x ELSE 0)) % 2
  <2>1. PICK s \in Nat : s = b(0) + b(2) + b(4) + b(5) + b(6) + b(10) + b(11)
    BY <1>3, <1>7
  <2>2. CASE n + 1 \in Poly
    <3>1. a(0) + a(2) + a(4) + a(5) + a(6) + a(10) + a(11) = s + x
      BY <1>3, <1>4, <1>7, <2>1, <2>2 DEF Poly
    <3>2. (s + x) % 2 = ((s % 2) + x) % 2
      <4>1. s % 2 \in {0, 1} /\ (s + 1) % 2 = ((s % 2) + 1) % 2 /\ s % 2 = ((s % 2) + 0) % 2
        OBVIOUS
      <4>2. s + 0 = s
        OBVIOUS
      <4>3. QED
        BY <1>2, <4>1, <4>2
    <3>3. QED
      BY <2>1, <2>2, <3>1, <3>2, Zenon
  <2>3. CASE n + 1 \notin Poly
    <3>1. a(0) + a(2) + a(4) + a(5) + a(6) + a(10) + a(11) = s
      BY <1>3, <1>7, <2>1, <2>3 DEF Poly
    <3>2. s % 2 = ((s % 2) + 0) % 2
      OBVIOUS
    <3>3. QED
      BY <2>1, <2>3, <3>1, <3>2, Zenon
  <2>4. QED
    BY <2>2, <2>3
<1>9. QED
  BY <1>1, <1>2, <1>5, <1>6, <1>8, Zenon

\* A word without a remainder is a product.
LEMMA CodewordIs ==
  ASSUME NEW w \in Words23, Reduced(w) = {}
  PROVE  \E q \in [0..11 -> {0, 1}] : \A n \in 0..22 : One(w, n) = Product(q, 0, n)
<1>1. PICK f : Dividing(f, w, 12) /\ Reduced(w) = f[12]
  BY ReducedIs
<1>2. /\ f \in [0..12 -> Words23] /\ f[0] = w /\ f[12] = {}
      /\ \A i \in 0..11 : f[i+1] = Divided(f[i])
  <2>1. 12-1 = 11
    OBVIOUS
  <2>2. QED
    BY <1>1, <2>1, Zenon DEF Dividing
<1> DEFINE q == [i \in 0..11 |-> One(f[i], 0)]
<1>3. q \in [0..11 -> {0, 1}] /\ \A i \in 0..11 : q[i] = One(f[i], 0)
  BY DEF One
<1> HIDE DEF q
<1> DEFINE S == {j \in 0..12 : \A n \in 0..22 : One(f[12 - j], n) = Product(q, 12 - j, n)}
<1>4. 0 \in S
  <2>1. ASSUME NEW n \in 0..22 PROVE One(f[12], n) = Product(q, 12, n)
    <3>1. \A m \in Int : At(q, 12, m) = 0
      BY DEF At
    <3>2. Product(q, 12, n) = (0 + 0 + 0 + 0 + 0 + 0 + 0) % 2
      BY <3>1 DEF Product
    <3>3. One(f[12], n) = 0
      BY <1>2, Zenon DEF One
    <3>4. QED
      BY <3>2, <3>3
  <2>2. 12 - 0 = 12 /\ 0 \in 0..12
    OBVIOUS
  <2>3. QED
    BY <2>1, <2>2, Zenon
<1>5. ASSUME NEW j \in 0..12-1, j \in S PROVE j + 1 \in S
  <2>1. PICK i \in 0..11 : i = 12 - (j + 1) /\ i + 1 = 12 - j /\ i \in 0..12
    OBVIOUS
  <2>2. \A n \in 0..22 : One(f[i+1], n) = Product(q, i + 1, n)
    BY <1>5, <2>1, Zenon
  <2>3. PICK v \in Words23 : v = f[i] /\ f[i+1] = Divided(v)
    BY <1>2, <2>1, Zenon
  <2>4. PICK x \in {0, 1} : x = q[i] /\ x = One(v, 0)
    BY <1>3, <2>3, Zenon
  <2>5. ASSUME NEW n \in 0..21 PROVE One(v, n + 1) = Product(q, i, n + 1)
    <3>1. PICK y \in {0, 1} : y = One(f[i+1], n) /\ y = Product(q, i + 1, n)
      <4>1. n \in 0..22 /\ One(f[i+1], n) \in {0, 1}
        BY DEF One
      <4>2. QED
        BY <2>2, <4>1, Zenon
    <3>2. n \in Divided(v) <=> ((n + 1 \in v) # (0 \in v /\ n + 1 \in Poly))
      <4>1. n \in 0..22
        OBVIOUS
      <4>2. QED
        BY <4>1, DividedIs, Zenon
    <3>3. /\ y = 1 <=> n \in Divided(v)
          /\ x = 1 <=> 0 \in v
      BY <2>3, <2>4, <3>1 DEF One
    <3>4. Product(q, i, n + 1) = (y + (IF n + 1 \in Poly THEN x ELSE 0)) % 2
      <4>1. Product(q, i, n + 1) = (Product(q, i + 1, n) + (IF n + 1 \in Poly THEN q[i] ELSE 0)) % 2
        BY <1>3, ProductStep, Zenon
      <4>2. QED
        BY <2>4, <3>1, <4>1, Zenon
    <3>5. One(v, n + 1) = (y + (IF n + 1 \in Poly THEN x ELSE 0)) % 2
      <4>1. PICK z \in {0, 1} : z = One(v, n + 1) /\ (z = 1 <=> n + 1 \in v)
        BY DEF One
      <4>2. PICK p \in {0, 1} : p = (IF n + 1 \in Poly THEN x ELSE 0)
                                /\ (p = 1 <=> (0 \in v /\ n + 1 \in Poly))
        BY <3>3
      <4>3. y = 1 <=> ((z = 1) # (p = 1))
        BY <3>2, <3>3, <4>1, <4>2
      <4>4. z = (y + p) % 2
        BY <4>3
      <4>5. QED
        BY <4>1, <4>2, <4>4, Zenon
    <3>6. QED
      BY <3>4, <3>5, Zenon
  <2>6. One(v, 0) = Product(q, i, 0)
    <3>1. 0 \in 0..21
      OBVIOUS
    <3>2. QED
      BY <1>3, <2>4, <3>1, ProductStep, Zenon
  <2>7. ASSUME NEW n \in 0..22 PROVE One(v, n) = Product(q, i, n)
    <3>1. CASE n = 0
      BY <2>6, <3>1, Zenon
    <3>2. CASE n # 0
      <4>1. PICK m \in 0..21 : n = m + 1
        BY <3>2
      <4>2. QED
        BY <2>5, <4>1, Zenon
    <3>3. QED
      BY <3>1, <3>2
  <2>8. j + 1 \in 0..12
    OBVIOUS
  <2>9. QED
    BY <2>1, <2>3, <2>7, <2>8, Zenon
<1>6. 12 \in S
  <2> HIDE DEF S
  <2>1. 0..12 \subseteq S
    BY <1>4, <1>5, BoundedInduction
  <2>2. QED
    BY <2>1
<1>7. \A n \in 0..22 : One(f[0], n) = Product(q, 0, n)
  <2>1. 12 - 12 = 0
    OBVIOUS
  <2>2. QED
    BY <1>6, <2>1, Zenon
<1>8. QED
  BY <1>2, <1>3, <1>7, Zenon

\* The 23 bits of a product, by the twelve of its factor.
LEMMA ProductsAre ==
  ASSUME NEW q \in [0..11 -> {0, 1}]
  PROVE  /\ Product(q, 0, 0) = (q[0]) % 2
         /\ Product(q, 0, 1) = (q[1]) % 2
         /\ Product(q, 0, 2) = (q[2] + q[0]) % 2
         /\ Product(q, 0, 3) = (q[3] + q[1]) % 2
         /\ Product(q, 0, 4) = (q[4] + q[2] + q[0]) % 2
         /\ Product(q, 0, 5) = (q[5] + q[3] + q[1] + q[0]) % 2
         /\ Product(q, 0, 6) = (q[6] + q[4] + q[2] + q[1] + q[0]) % 2
         /\ Product(q, 0, 7) = (q[7] + q[5] + q[3] + q[2] + q[1]) % 2
         /\ Product(q, 0, 8) = (q[8] + q[6] + q[4] + q[3] + q[2]) % 2
         /\ Product(q, 0, 9) = (q[9] + q[7] + q[5] + q[4] + q[3]) % 2
         /\ Product(q, 0, 10) = (q[10] + q[8] + q[6] + q[5] + q[4] + q[0]) % 2
         /\ Product(q, 0, 11) = (q[11] + q[9] + q[7] + q[6] + q[5] + q[1] + q[0]) % 2
         /\ Product(q, 0, 12) = (q[10] + q[8] + q[7] + q[6] + q[2] + q[1]) % 2
         /\ Product(q, 0, 13) = (q[11] + q[9] + q[8] + q[7] + q[3] + q[2]) % 2
         /\ Product(q, 0, 14) = (q[10] + q[9] + q[8] + q[4] + q[3]) % 2
         /\ Product(q, 0, 15) = (q[11] + q[10] + q[9] + q[5] + q[4]) % 2
         /\ Product(q, 0, 16) = (q[11] + q[10] + q[6] + q[5]) % 2
         /\ Product(q, 0, 17) = (q[11] + q[7] + q[6]) % 2
         /\ Product(q, 0, 18) = (q[8] + q[7]) % 2
         /\ Product(q, 0, 19) = (q[9] + q[8]) % 2
         /\ Product(q, 0, 20) = (q[10] + q[9]) % 2
         /\ Product(q, 0, 21) = (q[11] + q[10]) % 2
         /\ Product(q, 0, 22) = (q[11]) % 2
<1>0. Product(q, 0, 0) = (q[0]) % 2
  BY DEF Product, At
<1>1. Product(q, 0, 1) = (q[1]) % 2
  BY DEF Product, At
<1>2. Product(q, 0, 2) = (q[2] + q[0]) % 2
  BY DEF Product, At
<1>3. Product(q, 0, 3) = (q[3] + q[1]) % 2
  BY DEF Product, At
<1>4. Product(q, 0, 4) = (q[4] + q[2] + q[0]) % 2
  BY DEF Product, At
<1>5. Product(q, 0, 5) = (q[5] + q[3] + q[1] + q[0]) % 2
  BY DEF Product, At
<1>6. Product(q, 0, 6) = (q[6] + q[4] + q[2] + q[1] + q[0]) % 2
  BY DEF Product, At
<1>7. Product(q, 0, 7) = (q[7] + q[5] + q[3] + q[2] + q[1]) % 2
  BY DEF Product, At
<1>8. Product(q, 0, 8) = (q[8] + q[6] + q[4] + q[3] + q[2]) % 2
  BY DEF Product, At
<1>9. Product(q, 0, 9) = (q[9] + q[7] + q[5] + q[4] + q[3]) % 2
  BY DEF Product, At
<1>10. Product(q, 0, 10) = (q[10] + q[8] + q[6] + q[5] + q[4] + q[0]) % 2
  BY DEF Product, At
<1>11. Product(q, 0, 11) = (q[11] + q[9] + q[7] + q[6] + q[5] + q[1] + q[0]) % 2
  BY DEF Product, At
<1>12. Product(q, 0, 12) = (q[10] + q[8] + q[7] + q[6] + q[2] + q[1]) % 2
  BY DEF Product, At
<1>13. Product(q, 0, 13) = (q[11] + q[9] + q[8] + q[7] + q[3] + q[2]) % 2
  BY DEF Product, At
<1>14. Product(q, 0, 14) = (q[10] + q[9] + q[8] + q[4] + q[3]) % 2
  BY DEF Product, At
<1>15. Product(q, 0, 15) = (q[11] + q[10] + q[9] + q[5] + q[4]) % 2
  BY DEF Product, At
<1>16. Product(q, 0, 16) = (q[11] + q[10] + q[6] + q[5]) % 2
  BY DEF Product, At
<1>17. Product(q, 0, 17) = (q[11] + q[7] + q[6]) % 2
  BY DEF Product, At
<1>18. Product(q, 0, 18) = (q[8] + q[7]) % 2
  BY DEF Product, At
<1>19. Product(q, 0, 19) = (q[9] + q[8]) % 2
  BY DEF Product, At
<1>20. Product(q, 0, 20) = (q[10] + q[9]) % 2
  BY DEF Product, At
<1>21. Product(q, 0, 21) = (q[11] + q[10]) % 2
  BY DEF Product, At
<1>22. Product(q, 0, 22) = (q[11]) % 2
  BY DEF Product, At
<1>23. QED
  BY <1>0, <1>1, <1>2, <1>3, <1>4, <1>5, <1>6, <1>7, <1>8, <1>9, <1>10, <1>11, <1>12, <1>13,
     <1>14, <1>15, <1>16, <1>17, <1>18, <1>19, <1>20, <1>21, <1>22, Zenon

\* The distance of the code: of the 4095 products of POLY that are not empty, none has
\* fewer than seven ones.
LEMMA FactorWeight ==
  ASSUME NEW q \in [0..11 -> {0, 1}],
         Product(q, 0, 0) + Product(q, 0, 1) + Product(q, 0, 2) + Product(q, 0, 3)
           + Product(q, 0, 4) + Product(q, 0, 5) + Product(q, 0, 6) + Product(q, 0, 7)
           + Product(q, 0, 8) + Product(q, 0, 9) + Product(q, 0, 10) + Product(q, 0, 11)
           + Product(q, 0, 12) + Product(q, 0, 13) + Product(q, 0, 14) + Product(q, 0, 15)
           + Product(q, 0, 16) + Product(q, 0, 17) + Product(q, 0, 18) + Product(q, 0, 19)
           + Product(q, 0, 20) + Product(q, 0, 21) + Product(q, 0, 22) <= 6
  PROVE  \A n \in 0..22 : Product(q, 0, n) = 0
<1> DEFINE q0 == q[0]  q1 == q[1]  q2 == q[2]  q3 == q[3]  q4 == q[4]  q5 == q[5]  q6 == q[6]
           q7 == q[7]  q8 == q[8]  q9 == q[9]  q10 == q[10]  q11 == q[11]
<1> DEFINE p0 == Product(q, 0, 0)  p1 == Product(q, 0, 1)  p2 == Product(q, 0, 2)
           p3 == Product(q, 0, 3)  p4 == Product(q, 0, 4)  p5 == Product(q, 0, 5)
           p6 == Product(q, 0, 6)  p7 == Product(q, 0, 7)  p8 == Product(q, 0, 8)
           p9 == Product(q, 0, 9)  p10 == Product(q, 0, 10)  p11 == Product(q, 0, 11)
           p12 == Product(q, 0, 12)  p13 == Product(q, 0, 13)  p14 == Product(q, 0, 14)
           p15 == Product(q, 0, 15)  p16 == Product(q, 0, 16)  p17 == Product(q, 0, 17)
           p18 == Product(q, 0, 18)  p19 == Product(q, 0, 19)  p20 == Product(q, 0, 20)
           p21 == Product(q, 0, 21)  p22 == Product(q, 0, 22)
<1>1. /\ q0 \in {0, 1} /\ q1 \in {0, 1} /\ q2 \in {0, 1} /\ q3 \in {0, 1} /\ q4 \in {0, 1}
      /\ q5 \in {0, 1} /\ q6 \in {0, 1} /\ q7 \in {0, 1} /\ q8 \in {0, 1} /\ q9 \in {0, 1}
      /\ q10 \in {0, 1} /\ q11 \in {0, 1}
  OBVIOUS
<1>2. /\ p0 = (q0) % 2
      /\ p1 = (q1) % 2
      /\ p2 = (q2 + q0) % 2
      /\ p3 = (q3 + q1) % 2
      /\ p4 = (q4 + q2 + q0) % 2
      /\ p5 = (q5 + q3 + q1 + q0) % 2
      /\ p6 = (q6 + q4 + q2 + q1 + q0) % 2
      /\ p7 = (q7 + q5 + q3 + q2 + q1) % 2
      /\ p8 = (q8 + q6 + q4 + q3 + q2) % 2
      /\ p9 = (q9 + q7 + q5 + q4 + q3) % 2
      /\ p10 = (q10 + q8 + q6 + q5 + q4 + q0) % 2
      /\ p11 = (q11 + q9 + q7 + q6 + q5 + q1 + q0) % 2
      /\ p12 = (q10 + q8 + q7 + q6 + q2 + q1) % 2
      /\ p13 = (q11 + q9 + q8 + q7 + q3 + q2) % 2
      /\ p14 = (q10 + q9 + q8 + q4 + q3) % 2
      /\ p15 = (q11 + q10 + q9 + q5 + q4) % 2
      /\ p16 = (q11 + q10 + q6 + q5) % 2
      /\ p17 = (q11 + q7 + q6) % 2
      /\ p18 = (q8 + q7) % 2
      /\ p19 = (q9 + q8) % 2
      /\ p20 = (q10 + q9) % 2
      /\ p21 = (q11 + q10) % 2
      /\ p22 = (q11) % 2
  BY ProductsAre, Zenon
<1>3. p0 + p1 + p2 + p3 + p4 + p5 + p6 + p7 + p8 + p9 + p10 + p11 + p12 + p13 + p14 + p15 + p16 + p17
        + p18 + p19 + p20 + p21 + p22 <= 6
  BY Zenon
<1> HIDE DEF q0, q1, q2, q3, q4, q5, q6, q7, q8, q9, q10, q11, p0, p1, p2, p3, p4, p5, p6, p7, p8, p9, p10,
             p11, p12, p13, p14, p15, p16, p17, p18, p19, p20, p21, p22
<1>4. /\ p0 \in {0, 1} /\ p1 \in {0, 1} /\ p2 \in {0, 1} /\ p3 \in {0, 1} /\ p4 \in {0, 1}
      /\ p5 \in {0, 1} /\ p6 \in {0, 1} /\ p7 \in {0, 1} /\ p8 \in {0, 1} /\ p9 \in {0, 1}
      /\ p10 \in {0, 1} /\ p11 \in {0, 1} /\ p12 \in {0, 1} /\ p13 \in {0, 1} /\ p14 \in {0, 1}
      /\ p15 \in {0, 1} /\ p16 \in {0, 1} /\ p17 \in {0, 1} /\ p18 \in {0, 1} /\ p19 \in {0, 1}
      /\ p20 \in {0, 1} /\ p21 \in {0, 1} /\ p22 \in {0, 1}
  BY <1>1, <1>2
<1>5. /\ q0 = 0 /\ q1 = 0 /\ q2 = 0 /\ q3 = 0 /\ q4 = 0 /\ q5 = 0 /\ q6 = 0 /\ q7 = 0 /\ q8 = 0
      /\ q9 = 0 /\ q10 = 0 /\ q11 = 0
  <2>1. CASE q4 = 0 /\ q7 = 0 /\ q2 = 0
    BY <1>1, <1>2, <1>3, <1>4, <2>1, SMTT(100)
  <2>2. CASE q4 = 0 /\ q7 = 0 /\ q2 = 1
    BY <1>1, <1>2, <1>3, <1>4, <2>2, SMTT(100)
  <2>3. CASE q4 = 0 /\ q7 = 1 /\ q2 = 0
    BY <1>1, <1>2, <1>3, <1>4, <2>3, SMTT(100)
  <2>4. CASE q4 = 0 /\ q7 = 1 /\ q2 = 1
    BY <1>1, <1>2, <1>3, <1>4, <2>4, SMTT(100)
  <2>5. CASE q4 = 1 /\ q7 = 0 /\ q2 = 0
    BY <1>1, <1>2, <1>3, <1>4, <2>5, SMTT(100)
  <2>6. CASE q4 = 1 /\ q7 = 0 /\ q2 = 1
    BY <1>1, <1>2, <1>3, <1>4, <2>6, SMTT(100)
  <2>7. CASE q4 = 1 /\ q7 = 1 /\ q2 = 0
    BY <1>1, <1>2, <1>3, <1>4, <2>7, SMTT(100)
  <2>8. CASE q4 = 1 /\ q7 = 1 /\ q2 = 1
    BY <1>1, <1>2, <1>3, <1>4, <2>8, SMTT(100)
  <2>9. QED
    BY <1>1, <2>1, <2>2, <2>3, <2>4, <2>5, <2>6, <2>7, <2>8
<1>6. /\ p0 = 0 /\ p1 = 0 /\ p2 = 0 /\ p3 = 0 /\ p4 = 0 /\ p5 = 0 /\ p6 = 0 /\ p7 = 0 /\ p8 = 0
      /\ p9 = 0 /\ p10 = 0 /\ p11 = 0 /\ p12 = 0 /\ p13 = 0 /\ p14 = 0 /\ p15 = 0 /\ p16 = 0
      /\ p17 = 0 /\ p18 = 0 /\ p19 = 0 /\ p20 = 0 /\ p21 = 0 /\ p22 = 0
  BY <1>2, <1>5
<1>7. \A n \in 0..22 : n = 0 \/ n = 1 \/ n = 2 \/ n = 3 \/ n = 4 \/ n = 5 \/ n = 6 \/ n = 7 \/ n = 8 \/ n = 9 \/ n = 10
        \/ n = 11 \/ n = 12 \/ n = 13 \/ n = 14 \/ n = 15 \/ n = 16 \/ n = 17 \/ n = 18
        \/ n = 19 \/ n = 20 \/ n = 21 \/ n = 22
  OBVIOUS
<1>8. QED
  BY <1>6, <1>7, Zenon DEF p0, p1, p2, p3, p4, p5, p6, p7, p8, p9, p10, p11, p12, p13, p14, p15, p16, p17, p18, p19, p20,
     p21, p22

-----------------------------------------------------------------------------
\* A word is a finite set, and its weight the sum of its bits.
LEMMA WordWeight ==
  ASSUME NEW w \in Words23
  PROVE  /\ IsFiniteSet(w) /\ Cardinality(w) \in Nat
         /\ Cardinality(w) =
              One(w, 0) + One(w, 1) + One(w, 2) + One(w, 3) + One(w, 4) + One(w, 5)
                + One(w, 6) + One(w, 7) + One(w, 8) + One(w, 9) + One(w, 10) + One(w, 11)
                + One(w, 12) + One(w, 13) + One(w, 14) + One(w, 15) + One(w, 16)
                + One(w, 17) + One(w, 18) + One(w, 19) + One(w, 20) + One(w, 21)
                + One(w, 22)
<1>1. IsFiniteSet(0..22)
  <2>1. 0 \in Int /\ 22 \in Int
    OBVIOUS
  <2>2. QED
    BY <2>1, FS_Interval, Zenon
<1>2. IsFiniteSet(w)
  BY <1>1, FS_Subset DEF Words23
<1> DEFINE part(n) == w \cap (0..n-1)
           c(n) == Cardinality(part(n))
<1>3. ASSUME NEW n \in 0..23 PROVE IsFiniteSet(part(n)) /\ c(n) \in Nat
  <2>1. part(n) \subseteq w
    OBVIOUS
  <2> HIDE DEF part
  <2>2. QED
    BY <1>2, <2>1, FS_Subset, FS_CardinalityType
<1>4. ASSUME NEW n \in 0..22 PROVE c(n + 1) = c(n) + One(w, n)
  <2>1. 0..(n+1)-1 = (0..n-1) \cup {n} /\ n \notin 0..n-1
    OBVIOUS
  <2>2. CASE n \in w
    <3>1. part(n + 1) = part(n) \cup {n} /\ n \notin part(n)
      BY <2>1, <2>2, Zenon
    <3>2. n \in 0..23 /\ One(w, n) = 1
      BY <2>2 DEF One
    <3>3. IsFiniteSet(part(n))
      BY <1>3, <3>2
    <3> HIDE DEF part
    <3>4. Cardinality(part(n) \cup {n}) = Cardinality(part(n)) + 1
      BY <3>1, <3>3, FS_AddElement
    <3>5. QED
      BY <3>1, <3>2, <3>4, Zenon
  <2>3. CASE n \notin w
    <3>1. part(n + 1) = part(n)
      BY <2>1, <2>3, Zenon
    <3>2. n \in 0..23 /\ One(w, n) = 0
      BY <2>3 DEF One
    <3>3. c(n) + 0 = c(n)
      <4>1. c(n) \in Nat
        BY <1>3, <3>2
      <4> HIDE DEF c
      <4>2. QED
        BY <4>1
    <3> HIDE DEF part
    <3>4. QED
      BY <3>1, <3>2, <3>3, Zenon
  <2>4. QED
    BY <2>2, <2>3
<1>5. c(0) = 0
  <2>1. part(0) = {}
    <3>1. 0..0-1 = {}
      OBVIOUS
    <3>2. QED
      BY <3>1, Zenon
  <2> HIDE DEF part
  <2>2. QED
    BY <2>1, FS_EmptySet
<1>6. c(23) = Cardinality(w)
  <2>1. part(23) = w
    <3>1. 0..23-1 = 0..22
      OBVIOUS
    <3>2. QED
      BY <3>1, Zenon DEF Words23
  <2> HIDE DEF part
  <2>2. QED
    BY <2>1
<1>7. \A n \in 0..22 : One(w, n) \in Nat
  BY DEF One
<1> HIDE DEF c
<1>8. /\ c(1) = c(0) + One(w, 0)
      /\ c(2) = c(1) + One(w, 1)
      /\ c(3) = c(2) + One(w, 2)
      /\ c(4) = c(3) + One(w, 3)
      /\ c(5) = c(4) + One(w, 4)
      /\ c(6) = c(5) + One(w, 5)
      /\ c(7) = c(6) + One(w, 6)
      /\ c(8) = c(7) + One(w, 7)
      /\ c(9) = c(8) + One(w, 8)
      /\ c(10) = c(9) + One(w, 9)
      /\ c(11) = c(10) + One(w, 10)
      /\ c(12) = c(11) + One(w, 11)
      /\ c(13) = c(12) + One(w, 12)
      /\ c(14) = c(13) + One(w, 13)
      /\ c(15) = c(14) + One(w, 14)
      /\ c(16) = c(15) + One(w, 15)
      /\ c(17) = c(16) + One(w, 16)
      /\ c(18) = c(17) + One(w, 17)
      /\ c(19) = c(18) + One(w, 18)
      /\ c(20) = c(19) + One(w, 19)
      /\ c(21) = c(20) + One(w, 20)
      /\ c(22) = c(21) + One(w, 21)
      /\ c(23) = c(22) + One(w, 22)
  BY <1>4
<1>9. QED
  BY <1>2, <1>5, <1>6, <1>7, <1>8, FS_CardinalityType

\* Fewer than seven errors never lead from one word of the code to another.
THEOREM CodeDistance ==
  ASSUME NEW w \in Words23, Reduced(w) = {}, Cardinality(w) <= 6
  PROVE  w = {}
<1>1. PICK q \in [0..11 -> {0, 1}] : \A n \in 0..22 : One(w, n) = Product(q, 0, n)
  BY CodewordIs
<1>2. /\ One(w, 0) = Product(q, 0, 0) /\ One(w, 1) = Product(q, 0, 1)
      /\ One(w, 2) = Product(q, 0, 2) /\ One(w, 3) = Product(q, 0, 3)
      /\ One(w, 4) = Product(q, 0, 4) /\ One(w, 5) = Product(q, 0, 5)
      /\ One(w, 6) = Product(q, 0, 6) /\ One(w, 7) = Product(q, 0, 7)
      /\ One(w, 8) = Product(q, 0, 8) /\ One(w, 9) = Product(q, 0, 9)
      /\ One(w, 10) = Product(q, 0, 10) /\ One(w, 11) = Product(q, 0, 11)
      /\ One(w, 12) = Product(q, 0, 12) /\ One(w, 13) = Product(q, 0, 13)
      /\ One(w, 14) = Product(q, 0, 14) /\ One(w, 15) = Product(q, 0, 15)
      /\ One(w, 16) = Product(q, 0, 16) /\ One(w, 17) = Product(q, 0, 17)
      /\ One(w, 18) = Product(q, 0, 18) /\ One(w, 19) = Product(q, 0, 19)
      /\ One(w, 20) = Product(q, 0, 20) /\ One(w, 21) = Product(q, 0, 21)
      /\ One(w, 22) = Product(q, 0, 22)
  BY <1>1
<1>3. One(w, 0) + One(w, 1) + One(w, 2) + One(w, 3) + One(w, 4) + One(w, 5) + One(w, 6)
        + One(w, 7) + One(w, 8) + One(w, 9) + One(w, 10) + One(w, 11) + One(w, 12)
        + One(w, 13) + One(w, 14) + One(w, 15) + One(w, 16) + One(w, 17) + One(w, 18)
        + One(w, 19) + One(w, 20) + One(w, 21) + One(w, 22) <= 6
  BY WordWeight, Zenon
<1>4. Product(q, 0, 0) + Product(q, 0, 1) + Product(q, 0, 2) + Product(q, 0, 3) + Product(q, 0, 4)
        + Product(q, 0, 5) + Product(q, 0, 6) + Product(q, 0, 7) + Product(q, 0, 8)
        + Product(q, 0, 9) + Product(q, 0, 10) + Product(q, 0, 11) + Product(q, 0, 12)
        + Product(q, 0, 13) + Product(q, 0, 14) + Product(q, 0, 15) + Product(q, 0, 16)
        + Product(q, 0, 17) + Product(q, 0, 18) + Product(q, 0, 19) + Product(q, 0, 20)
        + Product(q, 0, 21) + Product(q, 0, 22) <= 6
  BY <1>2, <1>3, Zenon
<1>5. \A n \in 0..22 : Product(q, 0, n) = 0
  BY <1>4, FactorWeight, Zenon
<1>6. \A n \in 0..22 : One(w, n) = 0
  BY <1>1, <1>5, Zenon
<1>7. \A n \in 0..22 : n \notin w
  BY <1>6 DEF One
<1>8. QED
  BY <1>7 DEF Words23

\* The weight of a sum of words.
LEMMA SumWeight ==
  ASSUME NEW v, NEW w, IsFiniteSet(v), IsFiniteSet(w)
  PROVE  /\ IsFiniteSet(SymDiff(v, w)) /\ Cardinality(v \cap w) \in Nat
         /\ Cardinality(v \cap w) <= Cardinality(v) /\ Cardinality(v \cap w) <= Cardinality(w)
         /\ Cardinality(v) \in Nat /\ Cardinality(w) \in Nat
         /\ Cardinality(SymDiff(v, w)) + 2 * Cardinality(v \cap w) = Cardinality(v) + Cardinality(w)
<1> DEFINE a == v \ w
           b == w \ v
<1>1. /\ IsFiniteSet(a) /\ Cardinality(a) = Cardinality(v) - Cardinality(v \cap w)
      /\ IsFiniteSet(b) /\ Cardinality(b) = Cardinality(w) - Cardinality(w \cap v)
  BY FS_Difference
<1>2. v \cap w = w \cap v /\ a \cap b = {}
  OBVIOUS
<1>3. IsFiniteSet(v \cap w) /\ Cardinality(v \cap w) <= Cardinality(v)
      /\ Cardinality(v \cap w) <= Cardinality(w)
  BY FS_Intersection
<1>4. Cardinality(v \cap w) \in Nat /\ Cardinality(v) \in Nat /\ Cardinality(w) \in Nat
  BY <1>3, FS_CardinalityType
<1>5. SymDiff(v, w) = a \cup b
  BY DEF SymDiff
<1> HIDE DEF a, b
<1>6. IsFiniteSet(a \cup b) /\ Cardinality(a \cup b) = Cardinality(a) + Cardinality(b) - 0
  BY <1>1, <1>2, FS_Union, FS_EmptySet
<1>7. PICK x \in Nat, y \in Nat, z \in Nat :
        x = Cardinality(v) /\ y = Cardinality(w) /\ z = Cardinality(v \cap w)
  BY <1>4, Zenon
<1>8. Cardinality(a) = x - z /\ Cardinality(b) = y - z
  BY <1>1, <1>2, <1>7, Zenon
<1>9. (x - z) + (y - z) - 0 + 2 * z = x + y
  OBVIOUS
<1>10. Cardinality(SymDiff(v, w)) + 2 * z = x + y
  BY <1>5, <1>6, <1>8, <1>9
<1>11. QED
  BY <1>3, <1>4, <1>5, <1>6, <1>7, <1>10, Zenon

\* At most three errors in the code's 23 bits are the only such errors of their syndrome.
LEMMA UniqueErrors ==
  ASSUME NEW a \in Words23, NEW b \in Words23, Reduced(a) = Reduced(b),
         Cardinality(a) + Cardinality(b) <= 6
  PROVE  a = b
<1>1. PICK w \in Words23 : w = SymDiff(a, b)
  BY SyndromeLinear
<1>2. Reduced(w) = {}
  <2>1. Reduced(w) = SymDiff(Reduced(a), Reduced(b))
    BY <1>1, SyndromeLinear
  <2>2. QED
    BY <2>1 DEF SymDiff
<1>3. Cardinality(w) <= 6
  <2>1. IsFiniteSet(a) /\ IsFiniteSet(b)
    BY WordWeight
  <2>2. PICK x \in Nat, y \in Nat, z \in Nat :
          x = Cardinality(a) /\ y = Cardinality(b) /\ z = Cardinality(a \cap b)
    BY <2>1, SumWeight
  <2>3. Cardinality(w) + 2 * z = x + y
    BY <1>1, <2>1, <2>2, SumWeight
  <2>4. Cardinality(w) \in Nat
    BY WordWeight
  <2>5. QED
    BY <2>2, <2>3, <2>4
<1>4. w = {}
  BY <1>2, <1>3, CodeDistance
<1>5. QED
  BY <1>1, <1>4 DEF SymDiff

-----------------------------------------------------------------------------
\* Shifting a word up changes neither its bits nor their number.
LEMMA UpIs ==
  ASSUME NEW w \in SUBSET Int, IsFiniteSet(w), NEW k \in Nat
  PROVE  /\ \A n \in Int : n \in Up(w, k) <=> n - k \in w
         /\ Up(w, k) \subseteq Int /\ IsFiniteSet(Up(w, k)) /\ Cardinality(Up(w, k)) = Cardinality(w)
<1>1. /\ \A n \in Int : n \in Up(w, k) <=> n - k \in w
      /\ Up(w, k) \subseteq Int
  BY DEF Up
<1> DEFINE U == Up(w, k)
           f == [b \in w |-> b + k]
<1>2. f \in [w -> U] /\ \A b \in w : f[b] = b + k
  BY DEF Up
<1>3. \A a, b \in w : a + k = b + k => a = b
  OBVIOUS
<1>4. \A u \in U : \E b \in w : b + k = u
  BY DEF Up
<1> HIDE DEF U, f
<1>5. f \in Injection(w, U) /\ f \in Surjection(w, U)
  BY <1>2, <1>3, <1>4, Zenon DEF Injection, IsInjective, Surjection
<1>6. ExistsBijection(w, U)
  BY <1>5, Zenon DEF ExistsBijection, Bijection
<1>7. IsFiniteSet(U) /\ Cardinality(U) = Cardinality(w)
  BY <1>6, FS_Bijection
<1>8. QED
  BY <1>1, <1>7 DEF U

\* What remains of a word are eleven bits, and of its lower half none are lost at first.
LEMMA RemainderIs ==
  ASSUME NEW w \in Words23
  PROVE  Reduced(w) \in SUBSET (0..10)
<1>1. PICK f : Dividing(f, w, 12) /\ Reduced(w) = f[12]
  BY ReducedIs
<1> DEFINE T == {i \in 0..12 : \A n \in f[i] : n <= 22 - i}
<1>2. \A i \in 0..12 : f[i] \in Words23
  BY <1>1, Zenon DEF Dividing
<1>3. 0 \in T
  BY <1>1 DEF Dividing, Words23
<1>4. ASSUME NEW i \in 0..12-1, i \in T PROVE i + 1 \in T
  <2>1. i \in 0..12 /\ i + 1 \in 0..12
    OBVIOUS
  <2>2. PICK v \in Words23 : v = f[i] /\ f[i+1] = Divided(v)
    BY <1>1, <1>2, <2>1, Zenon DEF Dividing
  <2>3. \A n \in v : n <= 22 - i
    BY <1>4, <2>2
  <2>4. Divided(v) \subseteq 0..21
         /\ \A n \in 0..22 : n \in Divided(v) <=> ((n + 1 \in v) # (0 \in v /\ n + 1 \in Poly))
    BY DividedIs
  <2>5. \A n \in Divided(v) : n <= 22 - (i + 1)
    <3>1. SUFFICES ASSUME NEW n \in 0..21, n \in Divided(v) PROVE n <= 22 - (i + 1)
      BY <2>4
    <3>2. n + 1 \in v \/ n + 1 \in Poly
      <4>1. n \in 0..22
        OBVIOUS
      <4>2. QED
        BY <2>4, <3>1, <4>1
    <3>3. CASE n + 1 \in v
      BY <2>3, <3>3
    <3>4. CASE n + 1 \in Poly
      BY <3>4 DEF Poly
    <3>5. QED
      BY <3>2, <3>3, <3>4
  <2>6. QED
    BY <2>1, <2>2, <2>5
<1>5. 12 \in T
  <2> HIDE DEF T
  <2>1. 0..12 \subseteq T
    BY <1>3, <1>4, BoundedInduction
  <2>2. QED
    BY <2>1
<1>6. \A n \in f[12] : n <= 10
  BY <1>5
<1>7. f[12] \subseteq 0..22
  BY <1>2 DEF Words23
<1>8. QED
  BY <1>1, <1>6, <1>7

\* As long as no odd word comes, the loop only shifts.
LEMMA OnlyShifts ==
  ASSUME NEW N \in 0..12, NEW w \in Words23, \A n \in w : n >= N,
         NEW f, Dividing(f, w, 12), NEW m \in 0..N
  PROVE  \A n \in 0..22 : n \in f[m] <=> n + m \in w
<1> DEFINE T == {i \in 0..N : \A n \in 0..22 : n \in f[i] <=> n + i \in w}
<1>1. 0 \in T
  BY DEF Dividing
<1>2. ASSUME NEW i \in 0..N-1, i \in T PROVE i + 1 \in T
  <2>1. i \in 0..12-1 /\ i \in 0..12 /\ i + 1 \in 0..N
    OBVIOUS
  <2>2. PICK v \in Words23 : v = f[i] /\ f[i+1] = Divided(v)
    BY <2>1, Zenon DEF Dividing
  <2>3. \A n \in 0..22 : n \in v <=> n + i \in w
    BY <1>2, <2>2
  <2>4. 0 \notin v
    BY <2>3
  <2>5. \A n \in 0..22 : n \in Divided(v) <=> n + 1 \in v
    BY <2>4, DividedIs
  <2>6. ASSUME NEW n \in 0..22 PROVE n \in Divided(v) <=> n + (i + 1) \in w
    <3>1. n + (i + 1) = (n + 1) + i
      OBVIOUS
    <3>2. CASE n \in 0..21
      <4>1. n + 1 \in 0..22
        BY <3>2
      <4>2. QED
        BY <2>3, <2>5, <3>1, <4>1, Zenon
    <3>3. CASE n = 22
      <4>1. n + 1 \notin v /\ n + (i + 1) \notin w
        BY <3>3 DEF Words23
      <4>2. QED
        BY <2>5, <4>1, Zenon
    <3>4. QED
      BY <3>2, <3>3
  <2>7. QED
    BY <2>1, <2>2, <2>6, Zenon
<1>3. 0..N \subseteq T
  <2> HIDE DEF T
  <2>1. QED
    BY <1>1, <1>2, BoundedInduction
<1>4. QED
  BY <1>3

\* Errors in the data bits but the lowest are their own syndrome.
LEMMA ShiftedSyndrome ==
  ASSUME NEW s \in SUBSET (0..10)
  PROVE  /\ Up(s, 12) \in Words23 /\ Reduced(Up(s, 12)) = s
         /\ Cardinality(Up(s, 12)) = Cardinality(s)
<1>1. s \in SUBSET Int /\ s \in Words23
  BY DEF Words23
<1>2. IsFiniteSet(s)
  BY <1>1, WordWeight
<1>3. PICK w : w = Up(s, 12)
  OBVIOUS
<1>4. /\ \A n \in Int : n \in w <=> n - 12 \in s
      /\ w \subseteq Int /\ Cardinality(w) = Cardinality(s)
  BY <1>1, <1>2, <1>3, UpIs
<1>5. \A n \in w : n >= 12 /\ n <= 22
  BY <1>4
<1>6. w \in Words23
  BY <1>4, <1>5 DEF Words23
<1>7. PICK f : Dividing(f, w, 12) /\ Reduced(w) = f[12]
  BY <1>6, ReducedIs
<1>8. \A n \in 0..22 : n \in f[12] <=> n + 12 \in w
  <2>1. 12 \in 0..12
    OBVIOUS
  <2>2. QED
    BY <1>5, <1>6, <1>7, <2>1, OnlyShifts
<1>9. \A n \in 0..22 : n + 12 \in w <=> n \in s
  BY <1>4
<1>10. f[12] \subseteq 0..22
  <2>1. Reduced(w) \in SUBSET (0..10)
    BY <1>6, RemainderIs
  <2>2. QED
    BY <1>7, <2>1
<1>11. f[12] = s
  <2>1. \A n \in 0..22 : n \in f[12] <=> n \in s
    BY <1>8, <1>9, Zenon
  <2>2. s \subseteq 0..22
    OBVIOUS
  <2>3. QED
    BY <1>10, <2>1, <2>2, Zenon
<1>12. QED
  BY <1>3, <1>4, <1>6, <1>7, <1>11, Zenon

\* Few errors whose syndrome has at most two bits are in these data bits, and no more.
LEMMA FewSyndromeBits ==
  ASSUME NEW e \in Words23, Cardinality(e) <= 3, Cardinality(Reduced(e)) <= 2
  PROVE  e = Up(Reduced(e), 12)
<1>1. PICK s \in SUBSET (0..10) : s = Reduced(e)
  BY RemainderIs
<1>2. /\ Up(s, 12) \in Words23 /\ Reduced(Up(s, 12)) = s
      /\ Cardinality(Up(s, 12)) = Cardinality(s)
  BY ShiftedSyndrome
<1>3. Cardinality(e) \in Nat /\ Cardinality(Up(s, 12)) \in Nat
  BY <1>2, WordWeight
<1>4. Cardinality(e) + Cardinality(Up(s, 12)) <= 6
  BY <1>1, <1>2, <1>3
<1>5. QED
  BY <1>1, <1>2, <1>4, UniqueErrors

-----------------------------------------------------------------------------
\* A word of one bit, the lowest, and what the loop makes of it: the powers of 1/x modulo
\* POLY, of which there are 23.
Power(i) ==
  CASE i = 0 -> {0}
    [] i = 1 -> {1, 3, 4, 5, 9, 10}
    [] i = 2 -> {0, 2, 3, 4, 8, 9}
    [] i = 3 -> {2, 4, 5, 7, 8, 9, 10}
    [] i = 4 -> {1, 3, 4, 6, 7, 8, 9}
    [] i = 5 -> {0, 2, 3, 5, 6, 7, 8}
    [] i = 6 -> {2, 3, 6, 7, 9, 10}
    [] i = 7 -> {1, 2, 5, 6, 8, 9}
    [] i = 8 -> {0, 1, 4, 5, 7, 8}
    [] i = 9 -> {0, 1, 5, 6, 7, 9, 10}
    [] i = 10 -> {0, 1, 3, 6, 8, 10}
    [] i = 11 -> {0, 1, 2, 3, 4, 7, 10}
    [] i = 12 -> {0, 2, 4, 5, 6, 10}
    [] i = 13 -> {10}
    [] i = 14 -> {9}
    [] i = 15 -> {8}
    [] i = 16 -> {7}
    [] i = 17 -> {6}
    [] i = 18 -> {5}
    [] i = 19 -> {4}
    [] i = 20 -> {3}
    [] i = 21 -> {2}
    [] i = 22 -> {1}

\* What an iteration of the loop leads to.
Next23(v, u) ==
  /\ v \in Words23 /\ u \in SUBSET (0..21)
  /\ \A n \in 0..21 : n \in u <=> ((n + 1 \in v) # (0 \in v /\ n + 1 \in Poly))

\* The same, for a word that is given.
LEMMA DividedTo ==
  ASSUME NEW v, NEW u, Next23(v, u)
  PROVE  v \in Words23 /\ Divided(v) = u
<1>1. v \in Words23 /\ u \subseteq 0..21
  BY DEF Next23
<1>2. Divided(v) \subseteq 0..21 /\ \A n \in 0..21 : n \in Divided(v) <=> n \in u
  BY <1>1, DividedIs DEF Next23
<1>3. QED
  BY <1>1, <1>2

\* An iteration of the loop leads from a power to the next, and from the last to the first.
LEMMA NextPower ==
  ASSUME NEW i \in 0..22
  PROVE  /\ Power(i) \in Words23
         /\ Divided(Power(i)) = Power(IF i = 22 THEN 0 ELSE i + 1)
<1>1. CASE i = 0
  <2>1. Power(0) = {0} /\ Power(1) = {1, 3, 4, 5, 9, 10}
    BY DEF Power
  <2>2. Next23({0}, {1, 3, 4, 5, 9, 10})
    BY DEF Next23, Words23, Poly
  <2>3. QED
    BY <1>1, <2>1, <2>2, DividedTo
<1>2. CASE i = 1
  <2>1. Power(1) = {1, 3, 4, 5, 9, 10} /\ Power(2) = {0, 2, 3, 4, 8, 9}
    BY DEF Power
  <2>2. Next23({1, 3, 4, 5, 9, 10}, {0, 2, 3, 4, 8, 9})
    BY DEF Next23, Words23, Poly
  <2>3. QED
    BY <1>2, <2>1, <2>2, DividedTo
<1>3. CASE i = 2
  <2>1. Power(2) = {0, 2, 3, 4, 8, 9} /\ Power(3) = {2, 4, 5, 7, 8, 9, 10}
    BY DEF Power
  <2>2. Next23({0, 2, 3, 4, 8, 9}, {2, 4, 5, 7, 8, 9, 10})
    BY DEF Next23, Words23, Poly
  <2>3. QED
    BY <1>3, <2>1, <2>2, DividedTo
<1>4. CASE i = 3
  <2>1. Power(3) = {2, 4, 5, 7, 8, 9, 10} /\ Power(4) = {1, 3, 4, 6, 7, 8, 9}
    BY DEF Power
  <2>2. Next23({2, 4, 5, 7, 8, 9, 10}, {1, 3, 4, 6, 7, 8, 9})
    BY DEF Next23, Words23, Poly
  <2>3. QED
    BY <1>4, <2>1, <2>2, DividedTo
<1>5. CASE i = 4
  <2>1. Power(4) = {1, 3, 4, 6, 7, 8, 9} /\ Power(5) = {0, 2, 3, 5, 6, 7, 8}
    BY DEF Power
  <2>2. Next23({1, 3, 4, 6, 7, 8, 9}, {0, 2, 3, 5, 6, 7, 8})
    BY DEF Next23, Words23, Poly
  <2>3. QED
    BY <1>5, <2>1, <2>2, DividedTo
<1>6. CASE i = 5
  <2>1. Power(5) = {0, 2, 3, 5, 6, 7, 8} /\ Power(6) = {2, 3, 6, 7, 9, 10}
    BY DEF Power
  <2>2. Next23({0, 2, 3, 5, 6, 7, 8}, {2, 3, 6, 7, 9, 10})
    BY DEF Next23, Words23, Poly
  <2>3. QED
    BY <1>6, <2>1, <2>2, DividedTo
<1>7. CASE i = 6
  <2>1. Power(6) = {2, 3, 6, 7, 9, 10} /\ Power(7) = {1, 2, 5, 6, 8, 9}
    BY DEF Power
  <2>2. Next23({2, 3, 6, 7, 9, 10}, {1, 2, 5, 6, 8, 9})
    BY DEF Next23, Words23, Poly
  <2>3. QED
    BY <1>7, <2>1, <2>2, DividedTo
<1>8. CASE i = 7
  <2>1. Power(7) = {1, 2, 5, 6, 8, 9} /\ Power(8) = {0, 1, 4, 5, 7, 8}
    BY DEF Power
  <2>2. Next23({1, 2, 5, 6, 8, 9}, {0, 1, 4, 5, 7, 8})
    BY DEF Next23, Words23, Poly
  <2>3. QED
    BY <1>8, <2>1, <2>2, DividedTo
<1>9. CASE i = 8
  <2>1. Power(8) = {0, 1, 4, 5, 7, 8} /\ Power(9) = {0, 1, 5, 6, 7, 9, 10}
    BY DEF Power
  <2>2. Next23({0, 1, 4, 5, 7, 8}, {0, 1, 5, 6, 7, 9, 10})
    BY DEF Next23, Words23, Poly
  <2>3. QED
    BY <1>9, <2>1, <2>2, DividedTo
<1>10. CASE i = 9
  <2>1. Power(9) = {0, 1, 5, 6, 7, 9, 10} /\ Power(10) = {0, 1, 3, 6, 8, 10}
    BY DEF Power
  <2>2. Next23({0, 1, 5, 6, 7, 9, 10}, {0, 1, 3, 6, 8, 10})
    BY DEF Next23, Words23, Poly
  <2>3. QED
    BY <1>10, <2>1, <2>2, DividedTo
<1>11. CASE i = 10
  <2>1. Power(10) = {0, 1, 3, 6, 8, 10} /\ Power(11) = {0, 1, 2, 3, 4, 7, 10}
    BY DEF Power
  <2>2. Next23({0, 1, 3, 6, 8, 10}, {0, 1, 2, 3, 4, 7, 10})
    BY DEF Next23, Words23, Poly
  <2>3. QED
    BY <1>11, <2>1, <2>2, DividedTo
<1>12. CASE i = 11
  <2>1. Power(11) = {0, 1, 2, 3, 4, 7, 10} /\ Power(12) = {0, 2, 4, 5, 6, 10}
    BY DEF Power
  <2>2. Next23({0, 1, 2, 3, 4, 7, 10}, {0, 2, 4, 5, 6, 10})
    BY DEF Next23, Words23, Poly
  <2>3. QED
    BY <1>12, <2>1, <2>2, DividedTo
<1>13. CASE i = 12
  <2>1. Power(12) = {0, 2, 4, 5, 6, 10} /\ Power(13) = {10}
    BY DEF Power
  <2>2. Next23({0, 2, 4, 5, 6, 10}, {10})
    BY DEF Next23, Words23, Poly
  <2>3. QED
    BY <1>13, <2>1, <2>2, DividedTo
<1>14. CASE i = 13
  <2>1. Power(13) = {10} /\ Power(14) = {9}
    BY DEF Power
  <2>2. Next23({10}, {9})
    BY DEF Next23, Words23, Poly
  <2>3. QED
    BY <1>14, <2>1, <2>2, DividedTo
<1>15. CASE i = 14
  <2>1. Power(14) = {9} /\ Power(15) = {8}
    BY DEF Power
  <2>2. Next23({9}, {8})
    BY DEF Next23, Words23, Poly
  <2>3. QED
    BY <1>15, <2>1, <2>2, DividedTo
<1>16. CASE i = 15
  <2>1. Power(15) = {8} /\ Power(16) = {7}
    BY DEF Power
  <2>2. Next23({8}, {7})
    BY DEF Next23, Words23, Poly
  <2>3. QED
    BY <1>16, <2>1, <2>2, DividedTo
<1>17. CASE i = 16
  <2>1. Power(16) = {7} /\ Power(17) = {6}
    BY DEF Power
  <2>2. Next23({7}, {6})
    BY DEF Next23, Words23, Poly
  <2>3. QED
    BY <1>17, <2>1, <2>2, DividedTo
<1>18. CASE i = 17
  <2>1. Power(17) = {6} /\ Power(18) = {5}
    BY DEF Power
  <2>2. Next23({6}, {5})
    BY DEF Next23, Words23, Poly
  <2>3. QED
    BY <1>18, <2>1, <2>2, DividedTo
<1>19. CASE i = 18
  <2>1. Power(18) = {5} /\ Power(19) = {4}
    BY DEF Power
  <2>2. Next23({5}, {4})
    BY DEF Next23, Words23, Poly
  <2>3. QED
    BY <1>19, <2>1, <2>2, DividedTo
<1>20. CASE i = 19
  <2>1. Power(19) = {4} /\ Power(20) = {3}
    BY DEF Power
  <2>2. Next23({4}, {3})
    BY DEF Next23, Words23, Poly
  <2>3. QED
    BY <1>20, <2>1, <2>2, DividedTo
<1>21. CASE i = 20
  <2>1. Power(20) = {3} /\ Power(21) = {2}
    BY DEF Power
  <2>2. Next23({3}, {2})
    BY DEF Next23, Words23, Poly
  <2>3. QED
    BY <1>21, <2>1, <2>2, DividedTo
<1>22. CASE i = 21
  <2>1. Power(21) = {2} /\ Power(22) = {1}
    BY DEF Power
  <2>2. Next23({2}, {1})
    BY DEF Next23, Words23, Poly
  <2>3. QED
    BY <1>22, <2>1, <2>2, DividedTo
<1>23. CASE i = 22
  <2>1. Power(22) = {1} /\ Power(0) = {0}
    BY DEF Power
  <2>2. Next23({1}, {0})
    BY DEF Next23, Words23, Poly
  <2>3. QED
    BY <1>23, <2>1, <2>2, DividedTo
<1>24. i = 0 \/ i = 1 \/ i = 2 \/ i = 3 \/ i = 4 \/ i = 5 \/ i = 6 \/ i = 7 \/ i = 8 \/ i = 9 \/ i = 10 \/ i = 11 \/ i = 12 \/ i = 13 \/ i = 14 \/ i = 15 \/ i = 16 \/ i = 17 \/ i = 18 \/ i = 19 \/ i = 20 \/ i = 21 \/ i = 22
  OBVIOUS
<1>25. QED
  BY <1>1, <1>2, <1>3, <1>4, <1>5, <1>6, <1>7, <1>8, <1>9, <1>10, <1>11, <1>12, <1>13, <1>14, <1>15, <1>16, <1>17, <1>18, <1>19, <1>20, <1>21, <1>22, <1>23, <1>24

\* After 23 iterations a word of one bit is what it was.
LEMMA BitPeriod ==
  ASSUME NEW k \in 0..10, NEW f, Dividing(f, {k}, 23)
  PROVE  f[23] = {k}
<1>1. PICK j \in 0..22 : Power(j) = {k}
  <2>1. CASE k = 0
    <3>1. Power(0) = {0}
      BY DEF Power
    <3>2. QED
      BY <2>1, <3>1
  <2>2. CASE k = 1
    <3>1. Power(22) = {1}
      BY DEF Power
    <3>2. QED
      BY <2>2, <3>1
  <2>3. CASE k = 2
    <3>1. Power(21) = {2}
      BY DEF Power
    <3>2. QED
      BY <2>3, <3>1
  <2>4. CASE k = 3
    <3>1. Power(20) = {3}
      BY DEF Power
    <3>2. QED
      BY <2>4, <3>1
  <2>5. CASE k = 4
    <3>1. Power(19) = {4}
      BY DEF Power
    <3>2. QED
      BY <2>5, <3>1
  <2>6. CASE k = 5
    <3>1. Power(18) = {5}
      BY DEF Power
    <3>2. QED
      BY <2>6, <3>1
  <2>7. CASE k = 6
    <3>1. Power(17) = {6}
      BY DEF Power
    <3>2. QED
      BY <2>7, <3>1
  <2>8. CASE k = 7
    <3>1. Power(16) = {7}
      BY DEF Power
    <3>2. QED
      BY <2>8, <3>1
  <2>9. CASE k = 8
    <3>1. Power(15) = {8}
      BY DEF Power
    <3>2. QED
      BY <2>9, <3>1
  <2>10. CASE k = 9
    <3>1. Power(14) = {9}
      BY DEF Power
    <3>2. QED
      BY <2>10, <3>1
  <2>11. CASE k = 10
    <3>1. Power(13) = {10}
      BY DEF Power
    <3>2. QED
      BY <2>11, <3>1
  <2>12. QED
    BY <2>1, <2>2, <2>3, <2>4, <2>5, <2>6, <2>7, <2>8, <2>9, <2>10, <2>11
<1> DEFINE at(i) == IF j + i >= 23 THEN j + i - 23 ELSE j + i
           T == {i \in 0..23 : f[i] = Power(at(i))}
<1>2. /\ f \in [0..23 -> Words23] /\ f[0] = {k}
      /\ \A i \in 0..22 : f[i+1] = Divided(f[i])
  <2>1. 23-1 = 22
    OBVIOUS
  <2>2. QED
    BY <2>1, Zenon DEF Dividing
<1>3. at(0) = j /\ at(23) = j
  OBVIOUS
<1>4. \A i \in 0..22 : at(i) \in 0..22 /\ at(i + 1) = IF at(i) = 22 THEN 0 ELSE at(i) + 1
  OBVIOUS
<1> HIDE DEF at
<1>5. 0 \in T
  BY <1>1, <1>2, <1>3
<1>6. ASSUME NEW i \in 0..23-1, i \in T PROVE i + 1 \in T
  <2>1. i \in 0..22 /\ i + 1 \in 0..23
    OBVIOUS
  <2>2. at(i) \in 0..22 /\ at(i + 1) = IF at(i) = 22 THEN 0 ELSE at(i) + 1
    BY <1>4, <2>1, Zenon
  <2>3. Divided(Power(at(i))) = Power(at(i + 1))
    BY <2>2, NextPower, Zenon
  <2>4. f[i+1] = Power(at(i + 1))
    BY <1>2, <1>6, <2>1, <2>3, Zenon
  <2>5. QED
    BY <2>1, <2>4, Zenon
<1>7. 23 \in T
  <2> HIDE DEF T
  <2>1. 0..23 \subseteq T
    BY <1>5, <1>6, BoundedInduction
  <2>2. QED
    BY <2>1
<1>8. QED
  BY <1>1, <1>3, <1>7, Zenon

\* And so is every word of eleven bits, the sum of its bits.
LEMMA WordPeriod ==
  ASSUME NEW w \in SUBSET (0..10), NEW g, Dividing(g, w, 23)
  PROVE  g[23] = w
<1> DEFINE Back(v) == \A f : Dividing(f, v, 23) => f[23] = v
           T == {k \in 0..11 : \A v \in SUBSET (0..10) : v \cap (k..10) = {} => Back(v)}
<1>1. \A v \in SUBSET (0..10) : v \in Words23
  BY DEF Words23
<1>2. \A x, y \in SUBSET (0..10) : Back(x) /\ Back(y) => Back(SymDiff(x, y))
  <2>1. SUFFICES ASSUME NEW x \in SUBSET (0..10), NEW y \in SUBSET (0..10), Back(x), Back(y),
                        NEW h, Dividing(h, SymDiff(x, y), 23)
                 PROVE  h[23] = SymDiff(x, y)
    BY Zenon
  <2>2. x \in Words23 /\ y \in Words23 /\ 23 \in Nat
    BY <1>1
  <2>3. PICK f : Dividing(f, x, 23)
    BY <2>2, DividingExists
  <2>4. PICK e : Dividing(e, y, 23)
    BY <2>2, DividingExists
  <2>5. f[23] = x /\ e[23] = y
    BY <2>1, <2>3, <2>4, Zenon
  <2> HIDE DEF Back
  <2>6. h[23] = SymDiff(f[23], e[23])
    BY <2>1, <2>2, <2>3, <2>4, DividingLinear
  <2>7. QED
    BY <2>5, <2>6, Zenon
<1>3. \A k \in 0..10 : {k} \in SUBSET (0..10) /\ Back({k})
  BY BitPeriod
<1> HIDE DEF Back
<1>4. 0 \in T
  <2>1. SymDiff({0}, {0}) = {} /\ 0 \in 0..10
    BY DEF SymDiff
  <2>2. Back({})
    BY <1>2, <1>3, <2>1, Zenon
  <2>3. \A v \in SUBSET (0..10) : v \cap (0..10) = {} => v = {}
    OBVIOUS
  <2>4. 0 \in 0..11
    OBVIOUS
  <2>5. QED
    BY <2>2, <2>3, <2>4, Zenon
<1>5. ASSUME NEW k \in 0..11-1, k \in T PROVE k + 1 \in T
  <2>1. k \in 0..10 /\ k + 1 \in 0..11
    OBVIOUS
  <2>2. ASSUME NEW v \in SUBSET (0..10), v \cap ((k+1)..10) = {} PROVE Back(v)
    <3>1. PICK u \in SUBSET (0..10) : u = v \ {k}
      OBVIOUS
    <3>2. u \cap (k..10) = {}
      <4>1. k..10 = {k} \cup (k+1)..10
        BY <2>1
      <4>2. QED
        BY <2>2, <3>1, <4>1, Zenon
    <3>3. Back(u)
      BY <1>5, <3>2
    <3>4. CASE k \in v
      <4>1. v = SymDiff(u, {k})
        BY <3>1, <3>4 DEF SymDiff
      <4>2. Back(SymDiff(u, {k}))
        BY <1>2, <1>3, <2>1, <3>3, Zenon
      <4>3. QED
        BY <4>1, <4>2, Zenon
    <3>5. CASE k \notin v
      <4>1. v = u
        BY <3>1, <3>5
      <4>2. QED
        BY <3>3, <4>1, Zenon
    <3>6. QED
      BY <3>4, <3>5
  <2>3. QED
    BY <2>1, <2>2, Zenon
<1>6. 11 \in T
  <2> HIDE DEF T
  <2>1. 0..11 \subseteq T
    BY <1>4, <1>5, BoundedInduction
  <2>2. QED
    BY <2>1
<1>7. Back(w)
  <2>1. 11..10 = {}
    OBVIOUS
  <2>2. QED
    BY <1>6, <2>1, Zenon
<1>8. QED
  BY <1>7, Zenon DEF Back

\* Twelve bits and what remains of them make a word without a remainder.
LEMMA EncodedWord ==
  ASSUME NEW data \in SUBSET (0..11)
  PROVE  /\ Encode23(data) \in Words23 /\ Reduced(Encode23(data)) = {}
         /\ \A n \in 0..11 : n + 11 \in Encode23(data) <=> n \in data
<1>1. data \in Words23 /\ data \in SUBSET Int
  BY DEF Words23
<1>2. PICK high : high = Up(data, 11)
  OBVIOUS
<1>3. /\ \A n \in Int : n \in high <=> n - 11 \in data
      /\ high \subseteq Int
  <2>1. IsFiniteSet(data)
    BY <1>1, WordWeight
  <2>2. QED
    BY <1>1, <1>2, <2>1, UpIs
<1>4. \A n \in high : n >= 11 /\ n <= 22
  BY <1>3
<1>5. high \in Words23
  BY <1>3, <1>4 DEF Words23
<1>6. PICK r \in SUBSET (0..10) : r = Reduced(data)
  BY <1>1, RemainderIs
<1>7. r \in Words23
  BY DEF Words23
<1>8. PICK v : v = Divided(data)
  OBVIOUS
<1>9. v \in SUBSET (0..10)
  <2>1. v \subseteq 0..21
    BY <1>1, <1>8, DividedIs
  <2>2. ASSUME NEW n \in 0..21, n \in v PROVE n <= 10
    <3>1. n \in 0..22
      OBVIOUS
    <3>2. n + 1 \in data \/ n + 1 \in Poly
      BY <1>1, <1>8, <2>2, <3>1, DividedIs
    <3>3. QED
      BY <3>2 DEF Poly
  <2>3. QED
    BY <2>1, <2>2
<1>10. Reduced(high) = v
  <2>1. PICK f : Dividing(f, high, 12) /\ Reduced(high) = f[12]
    BY <1>5, ReducedIs
  <2>2. \A n \in 0..22 : n \in f[11] <=> n + 11 \in high
    <3>1. 11 \in 0..12 /\ 11 \in 0..11
      OBVIOUS
    <3>2. QED
      BY <1>4, <1>5, <2>1, <3>1, OnlyShifts
  <2>3. \A n \in 0..22 : n + 11 \in high <=> n \in data
    BY <1>3
  <2>4. f[11] \in Words23 /\ f[12] = Divided(f[11])
    <3>1. 11 \in 0..12 /\ 11 \in 0..12-1 /\ 11 + 1 = 12
      OBVIOUS
    <3>2. QED
      BY <2>1, <3>1, Zenon DEF Dividing
  <2>5. f[11] = data
    <3>1. \A n \in 0..22 : n \in f[11] <=> n \in data
      BY <2>2, <2>3, Zenon
    <3>2. f[11] \subseteq 0..22 /\ data \subseteq 0..22
      BY <1>1, <2>4, Zenon DEF Words23
    <3>3. QED
      BY <3>1, <3>2, Zenon
  <2>6. QED
    BY <1>8, <2>1, <2>4, <2>5, Zenon
<1>11. Reduced(r) = v
  <2>1. PICK f : Dividing(f, data, 12) /\ r = f[12]
    BY <1>1, <1>6, ReducedIs
  <2>2. PICK g : Dividing(g, r, 12) /\ Reduced(r) = g[12]
    BY <1>7, ReducedIs
  <2> DEFINE h == [j \in 0..23 |-> IF j <= 11 THEN f[j+1] ELSE g[j-11]]
  <2>3. /\ f \in [0..12 -> Words23] /\ f[0] = data /\ \A i \in 0..11 : f[i+1] = Divided(f[i])
        /\ g \in [0..12 -> Words23] /\ g[0] = r /\ \A i \in 0..11 : g[i+1] = Divided(g[i])
    <3>1. 12-1 = 11
      OBVIOUS
    <3>2. QED
      BY <2>1, <2>2, <3>1, Zenon DEF Dividing
  <2>4. h \in [0..23 -> Words23]
    BY <2>3
  <2>5. h[0] = v
    BY <1>8, <2>3
  <2>6. ASSUME NEW j \in 0..22 PROVE h[j+1] = Divided(h[j])
    <3>1. CASE j <= 10
      BY <2>3, <3>1
    <3>2. CASE j = 11
      <4>1. h[j] = f[12] /\ h[j+1] = g[1] /\ g[1] = Divided(g[0])
        BY <2>3, <3>2
      <4>2. QED
        BY <2>1, <2>3, <4>1, Zenon
    <3>3. CASE j >= 12
      BY <2>3, <3>3
    <3>4. QED
      BY <3>1, <3>2, <3>3
  <2>7. h[23] = g[12]
    OBVIOUS
  <2> HIDE DEF h
  <2>8. Dividing(h, v, 23)
    <3>1. 23-1 = 22
      OBVIOUS
    <3>2. QED
      BY <2>4, <2>5, <2>6, <3>1, Zenon DEF Dividing
  <2>9. h[23] = v
    BY <1>9, <2>8, WordPeriod
  <2>10. QED
    BY <2>2, <2>7, <2>9, Zenon
<1>12. Encode23(data) = SymDiff(r, high)
  <2>1. \A n \in r : n \notin high
    BY <1>4
  <2>2. r \cap high = {}
    BY <2>1, Zenon
  <2>3. r \cup high = SymDiff(r, high)
    BY <2>2 DEF SymDiff
  <2>4. QED
    BY <1>2, <1>6, <2>3, Zenon DEF Encode23
<1>13. Reduced(SymDiff(r, high)) = {}
  <2>1. Reduced(SymDiff(r, high)) = SymDiff(v, v)
    BY <1>5, <1>7, <1>10, <1>11, SyndromeLinear
  <2>2. SymDiff(v, v) = {}
    BY DEF SymDiff
  <2>3. QED
    BY <2>1, <2>2
<1>14. \A n \in 0..11 : n + 11 \in SymDiff(r, high) <=> n \in data
  <2>1. \A n \in 0..11 : n + 11 \notin r /\ (n + 11 \in high <=> n \in data)
    BY <1>3
  <2>2. QED
    BY <2>1 DEF SymDiff
<1>15. SymDiff(r, high) \in Words23
  BY <1>5, <1>7, SyndromeLinear
<1>16. QED
  BY <1>12, <1>13, <1>14, <1>15

-----------------------------------------------------------------------------
\* A finite set of at most three elements is empty or that of three named ones.
LEMMA FewErrors ==
  ASSUME NEW e, IsFiniteSet(e), Cardinality(e) <= 3
  PROVE  \/ e = {}
         \/ \E i, j, k \in e : e = {i, j, k}
<1>1. Cardinality(e) \in Nat
  BY FS_CardinalityType
<1>2. SUFFICES ASSUME e # {} PROVE \E i, j, k \in e : e = {i, j, k}
  OBVIOUS
<1>3. PICK i \in e : TRUE
  BY <1>2
<1>4. PICK d : d = e \ {i}
  OBVIOUS
<1>5. IsFiniteSet(d) /\ Cardinality(d) = Cardinality(e) - 1
  BY <1>3, <1>4, FS_RemoveElement
<1>6. CASE d = {}
  <2>1. e = {i, i, i}
    BY <1>3, <1>4, <1>6
  <2>2. QED
    BY <1>3, <2>1, Zenon
<1>7. CASE d # {}
  <2>1. PICK j \in d : TRUE
    BY <1>7
  <2>2. PICK c : c = d \ {j}
    OBVIOUS
  <2>3. IsFiniteSet(c) /\ Cardinality(c) = Cardinality(d) - 1
    BY <1>5, <2>1, <2>2, FS_RemoveElement
  <2>4. CASE c = {}
    <3>1. e = {i, j, j} /\ j \in e
      BY <1>3, <1>4, <2>1, <2>2, <2>4
    <3>2. QED
      BY <1>3, <3>1, Zenon
  <2>5. CASE c # {}
    <3>1. PICK k \in c : TRUE
      BY <2>5
    <3>2. PICK b : b = c \ {k}
      OBVIOUS
    <3>3. IsFiniteSet(b) /\ Cardinality(b) = Cardinality(c) - 1
      BY <2>3, <3>1, <3>2, FS_RemoveElement
    <3>4. Cardinality(b) \in Nat
      BY <3>3, FS_CardinalityType
    <3>5. Cardinality(b) = 0
      BY <1>1, <1>5, <2>3, <3>3, <3>4
    <3>6. b = {}
      BY <3>3, <3>5, FS_EmptySet
    <3>7. e = {i, j, k} /\ j \in e /\ k \in e
      BY <1>3, <1>4, <2>1, <2>2, <3>1, <3>2, <3>6
    <3>8. QED
      BY <1>3, <3>7, Zenon
  <2>6. QED
    BY <2>4, <2>5
<1>8. QED
  BY <1>6, <1>7

\* A set of three named elements has at most three.
LEMMA ThreeAtMost ==
  ASSUME NEW i, NEW j, NEW k
  PROVE  IsFiniteSet({i, j, k}) /\ Cardinality({i, j, k}) \in Nat /\ Cardinality({i, j, k}) <= 3
<1>1. IsFiniteSet({}) /\ Cardinality({}) = 0
  BY FS_EmptySet
<1>2. PICK a : a = {} \cup {i}
  OBVIOUS
<1>3. PICK b : b = a \cup {j}
  OBVIOUS
<1>4. PICK c : c = b \cup {k}
  OBVIOUS
<1>5. IsFiniteSet(a) /\ (Cardinality(a) = 0 \/ Cardinality(a) = 1)
  BY <1>1, <1>2, FS_AddElement
<1>6. IsFiniteSet(b) /\ (Cardinality(b) = Cardinality(a) \/ Cardinality(b) = Cardinality(a) + 1)
  BY <1>3, <1>5, FS_AddElement
<1>7. IsFiniteSet(c) /\ (Cardinality(c) = Cardinality(b) \/ Cardinality(c) = Cardinality(b) + 1)
  BY <1>4, <1>6, FS_AddElement
<1>8. c = {i, j, k}
  BY <1>2, <1>3, <1>4
<1>9. Cardinality(c) \in Nat /\ Cardinality(c) <= 3
  BY <1>5, <1>6, <1>7
<1>10. QED
  BY <1>7, <1>8, <1>9

\* A pattern of make_lut is none, or up to three bits.
LEMMA TripleIs ==
  ASSUME NEW e
  PROVE  e \in Corrections <=> e = {} \/ \E i, j, k \in 0..22 : e = {i, j, k}
<1> DEFINE triples == {{i, j, k} : i, j, k \in 0..22}
<1>1. e \in triples <=> \E i, j, k \in 0..22 : e = {i, j, k}
  OBVIOUS
<1>2. Corrections = triples \cup {{}}
  BY DEF Corrections
<1> HIDE DEF triples
<1>3. e \in {{}} <=> e = {}
  OBVIOUS
<1>4. e \in Corrections <=> e \in triples \/ e \in {{}}
  BY <1>2, Zenon
<1>5. QED
  BY <1>1, <1>3, <1>4, Zenon

\* Make_lut's patterns are the words of at most three bits.
LEMMA CorrectionsAre ==
  /\ \A e \in Corrections : e \in Words23 /\ Cardinality(e) <= 3
  /\ \A e \in Words23 : Cardinality(e) <= 3 => e \in Corrections
<1>1. ASSUME NEW e \in Corrections PROVE e \in Words23 /\ Cardinality(e) <= 3
  <2>1. CASE e = {}
    BY <2>1, FS_EmptySet DEF Words23
  <2>2. CASE \E i, j, k \in 0..22 : e = {i, j, k}
    <3>1. PICK i \in 0..22, j \in 0..22, k \in 0..22 : e = {i, j, k}
      BY <2>2, Zenon
    <3>2. e \in Words23
      BY <3>1 DEF Words23
    <3>3. QED
      BY <3>1, <3>2, ThreeAtMost, Zenon
  <2>3. QED
    BY <2>1, <2>2, TripleIs, Zenon
<1>2. ASSUME NEW e \in Words23, Cardinality(e) <= 3 PROVE e \in Corrections
  <2>1. IsFiniteSet(e)
    BY WordWeight
  <2>2. CASE e = {}
    BY <2>2, TripleIs, Zenon
  <2>3. CASE \E i, j, k \in e : e = {i, j, k}
    <3>1. PICK i \in e, j \in e, k \in e : e = {i, j, k}
      BY <2>3, Zenon
    <3>2. i \in 0..22 /\ j \in 0..22 /\ k \in 0..22
      BY DEF Words23
    <3>3. QED
      BY <3>1, <3>2, TripleIs, Zenon
  <2>4. QED
    BY <1>2, <2>1, <2>2, <2>3, FewErrors, Zenon
<1>3. QED
  BY <1>1, <1>2, Zenon

\* The table has every pattern of at most three errors under its own syndrome.
LEMMA LutIs ==
  /\ \A s \in DOMAIN Lut : Lut[s] \in Words23 /\ Cardinality(Lut[s]) <= 3 /\ Reduced(Lut[s]) = s
  /\ \A e \in Words23 : Cardinality(e) <= 3 => Reduced(e) \in DOMAIN Lut /\ Lut[Reduced(e)] = e
<1>1. \A e \in Corrections : SyndromeOf[e] = Reduced(e)
  BY Zenon DEF SyndromeOf, Syndrome
<1>2. ASSUME NEW s \in DOMAIN Lut
      PROVE  Lut[s] \in Words23 /\ Cardinality(Lut[s]) <= 3 /\ Reduced(Lut[s]) = s
  <2>1. s \in {SyndromeOf[e] : e \in Corrections}
    BY Zenon DEF Lut
  <2>2. Lut[s] = CHOOSE e \in Corrections : SyndromeOf[e] = s
    BY <2>1, Zenon DEF Lut
  <2>3. \E e \in Corrections : SyndromeOf[e] = s
    BY <2>1, Zenon
  <2>4. Lut[s] \in Corrections /\ SyndromeOf[Lut[s]] = s
    BY <2>2, <2>3, Zenon
  <2>5. QED
    BY <1>1, <2>4, CorrectionsAre, Zenon
<1>3. ASSUME NEW e \in Words23, Cardinality(e) <= 3
      PROVE  Reduced(e) \in DOMAIN Lut /\ Lut[Reduced(e)] = e
  <2>1. e \in Corrections
    BY <1>3, CorrectionsAre, Zenon
  <2>2. Reduced(e) \in DOMAIN Lut
    BY <1>1, <2>1, Zenon DEF Lut
  <2>3. PICK c : c = Lut[Reduced(e)]
    OBVIOUS
  <2>4. c \in Words23 /\ Cardinality(c) <= 3 /\ Reduced(c) = Reduced(e)
    BY <1>2, <2>2, <2>3, Zenon
  <2>5. Cardinality(c) \in Nat /\ Cardinality(e) \in Nat
    BY <2>4, WordWeight
  <2>6. Cardinality(c) + Cardinality(e) <= 6
    BY <1>3, <2>4, <2>5
  <2>7. c = e
    BY <2>4, <2>6, UniqueErrors, Zenon
  <2>8. QED
    BY <2>2, <2>3, <2>7
<1>4. QED
  BY <1>2, <1>3, Zenon

-----------------------------------------------------------------------------
Words24 == SUBSET (0..23)

\* Shifting a word down loses the bits below.
LEMMA DownIs ==
  ASSUME NEW w \in SUBSET Int, NEW k \in Int
  PROVE  Down(w, k) \subseteq Int /\ \A n \in Int : n \in Down(w, k) <=> n >= 0 /\ n + k \in w
<1>1. Down(w, k) \subseteq Int
  BY DEF Down
<1>2. ASSUME NEW n \in Int PROVE n \in Down(w, k) <=> n >= 0 /\ n + k \in w
  <2>1. CASE n \in Down(w, k)
    <3>1. PICK b \in {c \in w : c >= k} : n = b - k
      BY <2>1, Zenon DEF Down
    <3>2. b \in w /\ b >= k /\ b \in Int
      BY <3>1
    <3>3. n >= 0 /\ n + k = b
      BY <3>1, <3>2
    <3>4. QED
      BY <2>1, <3>2, <3>3
  <2>2. CASE n >= 0 /\ n + k \in w
    <3>1. n + k \in {c \in w : c >= k} /\ n = (n + k) - k
      BY <2>2
    <3>2. n \in Down(w, k)
      BY <3>1, Zenon DEF Down
    <3>3. QED
      BY <2>2, <3>2
  <2>3. QED
    BY <2>1, <2>2
<1>3. QED
  BY <1>1, <1>2

\* The same for a word of 24 bits that loses its parity bit.
LEMMA WithoutParity ==
  ASSUME NEW w \in Words24
  PROVE  Down(w, 1) \in Words23 /\ \A n \in 0..22 : n \in Down(w, 1) <=> n + 1 \in w
<1>1. w \in SUBSET Int /\ 1 \in Int
  BY DEF Words24
<1>2. Down(w, 1) \subseteq Int /\ \A n \in Int : n \in Down(w, 1) <=> n >= 0 /\ n + 1 \in w
  BY <1>1, DownIs
<1>3. \A n \in Down(w, 1) : n \in 0..22
  <2>1. SUFFICES ASSUME NEW n \in Down(w, 1) PROVE n \in 0..22
    OBVIOUS
  <2>2. n \in Int /\ n >= 0 /\ n + 1 \in w
    BY <1>2
  <2>3. n + 1 \in 0..23
    BY <2>2 DEF Words24
  <2>4. QED
    BY <2>2, <2>3
<1>4. \A n \in 0..22 : n \in Down(w, 1) <=> n + 1 \in w
  BY <1>2
<1>5. QED
  BY <1>3, <1>4 DEF Words23

\* A word of 24 bits has as many bits as that, and its parity bit.
LEMMA WeightWithParity ==
  ASSUME NEW w \in Words24
  PROVE  /\ IsFiniteSet(w) /\ Cardinality(w) \in Nat /\ Cardinality(Down(w, 1)) \in Nat
         /\ Cardinality(w) = Cardinality(Down(w, 1)) + (IF 0 \in w THEN 1 ELSE 0)
<1>1. PICK d \in Words23 : d = Down(w, 1) /\ \A n \in 0..22 : n \in d <=> n + 1 \in w
  BY WithoutParity
<1>2. d \in SUBSET Int /\ IsFiniteSet(d) /\ 1 \in Nat /\ Cardinality(d) \in Nat
  BY WordWeight DEF Words23
<1>3. PICK u : u = Up(d, 1)
  OBVIOUS
<1>4. /\ \A n \in Int : n \in u <=> n - 1 \in d
      /\ u \subseteq Int /\ IsFiniteSet(u) /\ Cardinality(u) = Cardinality(d)
  BY <1>2, <1>3, UpIs, SMT
<1>5. \A n \in Int : n \in u <=> n \in w /\ n # 0
  <2>1. SUFFICES ASSUME NEW n \in Int PROVE n \in u <=> n \in w /\ n # 0
    OBVIOUS
  <2>2. CASE n \in 1..23
    <3>1. n - 1 \in 0..22 /\ (n - 1) + 1 = n
      BY <2>2
    <3>2. QED
      BY <1>1, <1>4, <2>2, <3>1
  <2>3. CASE n \notin 1..23
    <3>1. n - 1 \notin 0..22
      BY <2>3
    <3>2. n \in w => n = 0
      BY <2>3 DEF Words24
    <3>3. n \notin u
      BY <1>4, <3>1 DEF Words23
    <3>4. QED
      BY <3>2, <3>3
  <2>4. QED
    BY <2>2, <2>3
<1>6. w \subseteq Int
  BY DEF Words24
<1>7. u = w \ {0}
  BY <1>4, <1>5, <1>6
<1>8. CASE 0 \in w
  <2>1. w = u \cup {0} /\ 0 \notin u
    BY <1>7, <1>8
  <2>2. IsFiniteSet(w) /\ Cardinality(w) = Cardinality(u) + 1
    BY <1>4, <2>1, FS_AddElement
  <2>3. QED
    BY <1>1, <1>2, <1>4, <1>8, <2>2
<1>9. CASE 0 \notin w
  <2>1. w = u
    BY <1>7, <1>9
  <2>2. QED
    BY <1>1, <1>2, <1>4, <1>9, <2>1
<1>10. QED
  BY <1>8, <1>9

\* Adding words adds what is left of them without parity bits; bits that meet vanish in pairs.
LEMMA SumOfWords ==
  ASSUME NEW v \in Words24, NEW w \in Words24
  PROVE  /\ SymDiff(v, w) \in Words24
         /\ \A n \in Int : n \in SymDiff(v, w) <=> ((n \in v) # (n \in w))
         /\ Down(SymDiff(v, w), 1) = SymDiff(Down(v, 1), Down(w, 1))
         /\ (Cardinality(SymDiff(v, w)) + Cardinality(v) + Cardinality(w)) % 2 = 0
<1>1. PICK x : x = SymDiff(v, w)
  OBVIOUS
<1>2. x \in Words24 /\ \A n \in Int : n \in x <=> ((n \in v) # (n \in w))
  BY <1>1 DEF SymDiff, Words24
<1>3. PICK d \in Words23, f \in Words23, g \in Words23 :
        /\ d = Down(v, 1) /\ \A n \in 0..22 : n \in d <=> n + 1 \in v
        /\ f = Down(w, 1) /\ \A n \in 0..22 : n \in f <=> n + 1 \in w
        /\ g = Down(x, 1) /\ \A n \in 0..22 : n \in g <=> n + 1 \in x
  BY <1>2, WithoutParity, Zenon
<1>4. PICK y : y = SymDiff(d, f)
  OBVIOUS
<1>5. y \subseteq 0..22 /\ \A n \in Int : n \in y <=> ((n \in d) # (n \in f))
  BY <1>4 DEF SymDiff, Words23
<1>6. \A n \in 0..22 : n \in g <=> n \in y
  BY <1>2, <1>3, <1>5
<1>7. g = y
  BY <1>5, <1>6 DEF Words23
<1>8. /\ IsFiniteSet(v) /\ IsFiniteSet(w) /\ Cardinality(v) \in Nat /\ Cardinality(w) \in Nat
      /\ Cardinality(x) \in Nat
  BY <1>2, WeightWithParity
<1>9. PICK m \in Nat : m = Cardinality(v \cap w)
  BY <1>8, SumWeight, Zenon
<1>10. Cardinality(x) + 2 * m = Cardinality(v) + Cardinality(w)
  BY <1>1, <1>8, <1>9, SumWeight, Zenon
<1>11. (Cardinality(x) + Cardinality(v) + Cardinality(w)) % 2 = 0
  BY <1>8, <1>10
<1>12. QED
  BY <1>1, <1>2, <1>3, <1>4, <1>7, <1>11, Zenon

\* A word of 23 bits over a parity bit that is not set.
LEMMA WithParity ==
  ASSUME NEW e \in Words23
  PROVE  /\ Up(e, 1) \in Words24 /\ 0 \notin Up(e, 1) /\ Down(Up(e, 1), 1) = e
         /\ Cardinality(Up(e, 1)) = Cardinality(e)
         /\ \A n \in 0..22 : n + 1 \in Up(e, 1) <=> n \in e
<1>1. e \in SUBSET Int /\ IsFiniteSet(e) /\ 1 \in Nat
  BY WordWeight DEF Words23
<1>2. PICK u : u = Up(e, 1)
  OBVIOUS
<1>3. /\ \A n \in Int : n \in u <=> n - 1 \in e
      /\ u \subseteq Int /\ Cardinality(u) = Cardinality(e)
  BY <1>1, <1>2, UpIs, SMT
<1>4. \A n \in u : n \in 1..23
  BY <1>3 DEF Words23
<1>5. u \in Words24
  BY <1>4 DEF Words24
<1>6. 0 \notin u
  BY <1>4
<1>7. \A n \in 0..22 : n + 1 \in u <=> n \in e
  BY <1>3
<1>8. PICK d \in Words23 : d = Down(u, 1) /\ \A n \in 0..22 : n \in d <=> n + 1 \in u
  BY <1>5, WithoutParity
<1>9. d = e
  BY <1>7, <1>8 DEF Words23
<1>10. QED
  BY <1>2, <1>3, <1>5, <1>6, <1>7, <1>8, <1>9, Zenon

\* An encoded word is a code word with its parity bit, which makes its weight even.
LEMMA EncodedWithParity ==
  ASSUME NEW data \in SUBSET (0..11)
  PROVE  /\ Encode24(data) \in Words24 /\ Reduced(Down(Encode24(data), 1)) = {}
         /\ Cardinality(Encode24(data)) % 2 = 0
         /\ \A n \in 0..11 : n + 12 \in Encode24(data) <=> n \in data
<1>1. PICK c \in Words23 : /\ c = Encode23(data) /\ Reduced(c) = {}
                           /\ \A n \in 0..11 : n + 11 \in c <=> n \in data
  BY EncodedWord
<1>2. PICK u \in Words24 : /\ u = Up(c, 1) /\ 0 \notin u /\ \A n \in 0..22 : n + 1 \in u <=> n \in c
  BY WithParity
<1>3. PICK x : x = u \cup (IF Cardinality(c) % 2 = 1 THEN {0} ELSE {})
  OBVIOUS
<1>4. x = Encode24(data)
  BY <1>1, <1>2, <1>3, Zenon DEF Encode24, Parity
<1>5. x \in Words24
  BY <1>3 DEF Words24
<1>6. \A n \in 0..22 : n + 1 \in x <=> n \in c
  BY <1>2, <1>3
<1>7. PICK d \in Words23 : d = Down(x, 1) /\ \A n \in 0..22 : n \in d <=> n + 1 \in x
  BY <1>5, WithoutParity
<1>8. d = c
  BY <1>6, <1>7 DEF Words23
<1>9. /\ Cardinality(x) = Cardinality(c) + (IF 0 \in x THEN 1 ELSE 0)
      /\ Cardinality(c) \in Nat
  BY <1>5, <1>7, <1>8, WeightWithParity, Zenon
<1>10. 0 \in x <=> Cardinality(c) % 2 = 1
  BY <1>2, <1>3
<1>11. Cardinality(x) % 2 = 0
  BY <1>9, <1>10
<1>12. ASSUME NEW n \in 0..11 PROVE n + 12 \in x <=> n \in data
  <2>1. n + 11 \in 0..22 /\ (n + 11) + 1 = n + 12
    OBVIOUS
  <2>2. QED
    BY <1>1, <1>6, <2>1
<1>13. QED
  BY <1>1, <1>4, <1>5, <1>7, <1>8, <1>11, <1>12, Zenon

\* The data of a word are its twelve high bits.
LEMMA DataOfWord ==
  ASSUME NEW w \in Words24, NEW data \in SUBSET (0..11), \A n \in 0..11 : n + 12 \in w <=> n \in data
  PROVE  DataOf(w) = data
<1>1. w \in SUBSET Int /\ 12 \in Int
  BY DEF Words24
<1>2. PICK d : /\ d = DataOf(w) /\ d \subseteq Int
               /\ \A n \in Int : n \in d <=> n >= 0 /\ n + 12 \in w
  BY <1>1, DownIs, Zenon DEF DataOf
<1>3. \A n \in d : n \in 0..11
  <2>1. SUFFICES ASSUME NEW n \in d PROVE n \in 0..11
    OBVIOUS
  <2>2. n \in Int /\ n >= 0 /\ n + 12 \in 0..23
    BY <1>2 DEF Words24
  <2>3. QED
    BY <2>2
<1>4. \A n \in 0..11 : n \in d <=> n \in data
  BY <1>2
<1>5. d = data
  BY <1>3, <1>4
<1>6. QED
  BY <1>2, <1>5

-----------------------------------------------------------------------------
\* What the decoder makes of a word whose syndrome is that of a few errors, and of any other.
LEMMA DecodedAs ==
  ASSUME NEW w \in Words24, NEW e \in Words23, Cardinality(e) <= 3,
         Reduced(Down(w, 1)) = Reduced(e)
  PROVE  /\ Decode24(w).word = SymDiff(w, Up(e, 1))
         /\ Decode24(w).ok <=>
              (Cardinality(Reduced(e)) >= 3 => Cardinality(SymDiff(w, Up(e, 1))) % 2 = 0)
<1>1. PICK s : s = Reduced(e)
  OBVIOUS
<1>2. s \in DOMAIN Lut /\ Lut[s] = e
  BY <1>1, LutIs, Zenon
<1>3. Syndrome(Down(w, 1)) = s
  BY <1>1, Zenon DEF Syndrome
<1>4. Decode24(w) = [ok |-> ParityTested(s) => Parity(SymDiff(w, Up(e, 1))) = 0,
                     word |-> SymDiff(w, Up(e, 1))]
  BY <1>2, <1>3, Zenon DEF Decode24
<1>5. PICK o : o = SymDiff(w, Up(e, 1))
  OBVIOUS
<1>6. PICK k \in BOOLEAN : k = (ParityTested(s) => Parity(o) = 0)
  OBVIOUS
<1>7. Decode24(w) = [ok |-> k, word |-> o]
  BY <1>4, <1>5, <1>6, Zenon
<1>8. Decode24(w).ok = k /\ Decode24(w).word = o
  BY <1>7, SMT
<1>9. QED
  BY <1>1, <1>5, <1>6, <1>8, Zenon DEF ParityTested, Parity

\* A word with a syndrome that the table does not have is refused.
LEMMA NotDecoded ==
  ASSUME NEW w, Reduced(Down(w, 1)) \notin DOMAIN Lut
  PROVE  ~Decode24(w).ok
<1>1. Decode24(w) = [ok |-> FALSE, word |-> w]
  BY Zenon DEF Decode24, Syndrome
<1>2. QED
  BY <1>1, SMT

\* An encoded word, received with errors.
LEMMA ReceivedAs ==
  ASSUME NEW data \in SUBSET (0..11), NEW errors \in Words24,
         NEW w, w = SymDiff(Encode24(data), errors)
  PROVE  /\ w \in Words24 /\ Reduced(Down(w, 1)) = Reduced(Down(errors, 1))
         /\ \A e \in Words23 :
              Cardinality(e) <= 3 /\ Reduced(e) = Reduced(Down(errors, 1)) =>
                /\ Decode24(w).ok <=>
                     (Cardinality(Reduced(e)) >= 3 => (Cardinality(errors) + Cardinality(e)) % 2 = 0)
                /\ e = Down(errors, 1) => DataOf(Decode24(w).word) = data
<1>1. PICK c \in Words24 : /\ c = Encode24(data) /\ Reduced(Down(c, 1)) = {}
                           /\ Cardinality(c) % 2 = 0
                           /\ \A n \in 0..11 : n + 12 \in c <=> n \in data
  BY EncodedWithParity
<1>2. /\ w \in Words24
      /\ \A n \in Int : n \in w <=> ((n \in c) # (n \in errors))
      /\ Down(w, 1) = SymDiff(Down(c, 1), Down(errors, 1))
      /\ (Cardinality(w) + Cardinality(c) + Cardinality(errors)) % 2 = 0
  BY <1>1, SumOfWords
<1>3. Down(c, 1) \in Words23 /\ Down(errors, 1) \in Words23
  BY WithoutParity
<1>4. Reduced(Down(w, 1)) = SymDiff({}, Reduced(Down(errors, 1)))
  BY <1>1, <1>2, <1>3, SyndromeLinear, Zenon
<1>5. SymDiff({}, Reduced(Down(errors, 1))) = Reduced(Down(errors, 1))
  <2>1. \A x : SymDiff({}, x) = x
    BY DEF SymDiff
  <2>2. QED
    BY <2>1, Zenon
<1>6. Cardinality(w) \in Nat /\ Cardinality(c) \in Nat /\ Cardinality(errors) \in Nat
  BY <1>2, WeightWithParity
<1>7. ASSUME NEW e \in Words23, Cardinality(e) <= 3, Reduced(e) = Reduced(Down(errors, 1))
      PROVE  /\ Decode24(w).ok <=>
                  (Cardinality(Reduced(e)) >= 3 => (Cardinality(errors) + Cardinality(e)) % 2 = 0)
             /\ e = Down(errors, 1) => DataOf(Decode24(w).word) = data
  <2>1. PICK u \in Words24 : /\ u = Up(e, 1) /\ Cardinality(u) = Cardinality(e)
                             /\ \A n \in 0..22 : n + 1 \in u <=> n \in e
    BY WithParity
  <2>2. PICK o \in Words24 : /\ o = SymDiff(w, u)
                             /\ \A n \in Int : n \in o <=> ((n \in w) # (n \in u))
                             /\ (Cardinality(o) + Cardinality(w) + Cardinality(u)) % 2 = 0
    <3>1. /\ SymDiff(w, u) \in Words24
          /\ \A n \in Int : n \in SymDiff(w, u) <=> ((n \in w) # (n \in u))
          /\ (Cardinality(SymDiff(w, u)) + Cardinality(w) + Cardinality(u)) % 2 = 0
      BY <1>2, SumOfWords
    <3>2. QED
      BY <3>1
  <2>3. /\ Decode24(w).word = o
        /\ Decode24(w).ok <=> (Cardinality(Reduced(e)) >= 3 => Cardinality(o) % 2 = 0)
    BY <1>2, <1>4, <1>5, <1>7, <2>1, <2>2, DecodedAs, Zenon
  <2>4. Cardinality(o) \in Nat /\ Cardinality(u) \in Nat
    BY WeightWithParity
  <2>5. Cardinality(o) % 2 = 0 <=> (Cardinality(errors) + Cardinality(u)) % 2 = 0
    <3>1. \A p, q, r, s, t \in Nat :
            q % 2 = 0 /\ (r + q + s) % 2 = 0 /\ (p + r + t) % 2 = 0
              => (p % 2 = 0 <=> (s + t) % 2 = 0)
      OBVIOUS
    <3>2. QED
      BY <1>1, <1>2, <1>6, <2>2, <2>4, <3>1
  <2>6. ASSUME e = Down(errors, 1) PROVE DataOf(o) = data
    <3>1. \A n \in 0..22 : n \in e <=> n + 1 \in errors
      BY <2>6, WithoutParity, Zenon
    <3>2. ASSUME NEW n \in 0..11 PROVE n + 12 \in o <=> n \in data
      <4>1. n + 11 \in 0..22 /\ (n + 11) + 1 = n + 12 /\ n + 12 \in Int
        OBVIOUS
      <4>2. n + 12 \in u <=> n + 12 \in errors
        BY <2>1, <3>1, <4>1, Zenon
      <4>3. n + 12 \in w <=> ((n + 12 \in c) # (n + 12 \in errors))
        BY <1>2, <4>1
      <4>4. n + 12 \in o <=> ((n + 12 \in w) # (n + 12 \in u))
        BY <2>2, <4>1
      <4>5. n + 12 \in o <=> n + 12 \in c
        BY <4>2, <4>3, <4>4
      <4>6. QED
        BY <1>1, <4>5
    <3>3. QED
      BY <3>2, DataOfWord
  <2>7. QED
    BY <2>1, <2>3, <2>5, <2>6, Zenon
<1>8. QED
  BY <1>2, <1>4, <1>5, <1>7, Zenon

\* The syndrome of a single error has fewer than three bits just when the error is above the check
\* bits and the lowest data bit.
LEMMA OneError ==
  ASSUME NEW b \in 0..22
  PROVE  {b} \in Words23 /\ (Cardinality(Reduced({b})) <= 2 <=> b >= 12)
<1>1. {b} \in Words23
  BY DEF Words23
<1>2. Cardinality({b}) = 1
  BY FS_Singleton
<1>3. ASSUME Cardinality(Reduced({b})) <= 2 PROVE b >= 12
  <2>1. {b} = Up(Reduced({b}), 12)
    BY <1>1, <1>2, <1>3, FewSyndromeBits
  <2>2. PICK s \in SUBSET (0..10) : s = Reduced({b})
    BY <1>1, RemainderIs
  <2>3. b \in {n + 12 : n \in s}
    BY <2>1, <2>2, Zenon DEF Up
  <2>4. QED
    BY <2>2, <2>3
<1>4. ASSUME b >= 12 PROVE Cardinality(Reduced({b})) <= 2
  <2>1. PICK m \in 0..10 : m = b - 12 /\ m + 12 = b
    BY <1>4
  <2>2. {m} \in SUBSET (0..10)
    OBVIOUS
  <2>3. Up({m}, 12) = {b}
    BY <2>1 DEF Up
  <2>4. Reduced({b}) = {m}
    BY <2>2, <2>3, ShiftedSyndrome, Zenon
  <2>5. Cardinality({m}) = 1
    BY FS_Singleton
  <2>6. QED
    BY <2>4, <2>5
<1>5. QED
  BY <1>1, <1>3, <1>4

\* At most three errors leave the data as they were; the word is accepted unless the parity bit
\* is among them and the syndrome has three bits.
LEMMA FewErrorsDecoded ==
  ASSUME NEW data \in SUBSET (0..11), NEW errors \in Words24, Cardinality(errors) <= 3,
         NEW D, D = Decode24(SymDiff(Encode24(data), errors))
  PROVE  /\ DataOf(D.word) = data
         /\ D.ok <=> (Cardinality(Reduced(Down(errors, 1))) <= 2 \/ 0 \notin errors)
<1>1. PICK e \in Words23 : e = Down(errors, 1)
  BY WithoutParity
<1>2. PICK w : w = SymDiff(Encode24(data), errors)
  OBVIOUS
<1>3. /\ Cardinality(errors) \in Nat /\ Cardinality(e) \in Nat
      /\ Cardinality(errors) = Cardinality(e) + (IF 0 \in errors THEN 1 ELSE 0)
  BY <1>1, WeightWithParity
<1>4. Cardinality(e) <= 3
  BY <1>3
<1>5. /\ D.ok <=> (Cardinality(Reduced(e)) >= 3 => (Cardinality(errors) + Cardinality(e)) % 2 = 0)
      /\ DataOf(D.word) = data
  BY <1>1, <1>2, <1>4, ReceivedAs
<1>6. Cardinality(Reduced(e)) \in Nat
  <2>1. PICK s \in SUBSET (0..10) : s = Reduced(e)
    BY RemainderIs
  <2>2. s \in Words23
    BY DEF Words23
  <2>3. QED
    BY <2>1, <2>2, WordWeight
<1>7. Cardinality(Reduced(e)) >= 3 <=> ~ (Cardinality(Reduced(e)) <= 2)
  BY <1>6
<1>8. (Cardinality(errors) + Cardinality(e)) % 2 = 0 <=> 0 \notin errors
  BY <1>3
<1>9. QED
  BY <1>1, <1>5, <1>7, <1>8

\* Up to three errors: the data are right, and the word is accepted but for the exceptions.
THEOREM GolayCorrects ==
  ASSUME NEW data \in SUBSET (0..11), NEW errors \in Words24, Cardinality(errors) <= 3,
         NEW D, D = Decode24(SymDiff(Encode24(data), errors))
  PROVE  /\ DataOf(D.word) = data
         /\ 0 \notin errors \/ errors = { 0 } => D.ok
         /\ 0 \in errors /\ Cardinality(errors) = 2 => (D.ok <=> errors \cap 1..12 = {})
<1>1. PICK e \in Words23 : e = Down(errors, 1) /\ \A n \in 0..22 : n \in e <=> n + 1 \in errors
  BY WithoutParity
<1>2. /\ DataOf(D.word) = data
      /\ D.ok <=> (Cardinality(Reduced(e)) <= 2 \/ 0 \notin errors)
  BY <1>1, FewErrorsDecoded
<1>3. ASSUME errors = {0} PROVE Cardinality(Reduced(e)) <= 2
  <2>1. \A n \in 0..22 : n + 1 # 0
    OBVIOUS
  <2>2. e = {}
    BY <1>1, <1>3, <2>1 DEF Words23
  <2>3. {} \in SUBSET (0..10) /\ Up({}, 12) = {}
    BY DEF Up
  <2>4. Reduced(e) = {}
    BY <2>2, <2>3, ShiftedSyndrome, Zenon
  <2>5. Cardinality({}) = 0
    BY FS_EmptySet
  <2>6. QED
    BY <2>4, <2>5
<1>4. ASSUME 0 \in errors, Cardinality(errors) = 2
      PROVE  Cardinality(Reduced(e)) <= 2 <=> errors \cap 1..12 = {}
  <2>1. IsFiniteSet(e) /\ Cardinality(e) = 1
    <3>1. IsFiniteSet(e) /\ Cardinality(e) \in Nat
      BY WordWeight
    <3>2. Cardinality(errors) = Cardinality(e) + (IF 0 \in errors THEN 1 ELSE 0)
      BY <1>1, WeightWithParity
    <3>3. QED
      BY <1>4, <3>1, <3>2
  <2>2. PICK b : e = {b}
    BY <2>1, FS_Singleton
  <2>3. b \in 0..22
    BY <2>2 DEF Words23
  <2>4. Cardinality(Reduced(e)) <= 2 <=> b >= 12
    BY <2>2, <2>3, OneError
  <2>5. \A n \in 1..12 : n \in errors <=> n = b + 1
    <3>1. SUFFICES ASSUME NEW n \in 1..12 PROVE n \in errors <=> n = b + 1
      OBVIOUS
    <3>2. n - 1 \in 0..22 /\ (n - 1) + 1 = n
      OBVIOUS
    <3>3. n \in errors <=> n - 1 = b
      BY <1>1, <2>2, <3>2
    <3>4. QED
      BY <2>3, <3>3
  <2>6. errors \cap 1..12 = {} <=> b + 1 \notin 1..12
    BY <2>3, <2>5
  <2>7. b + 1 \notin 1..12 <=> b >= 12
    BY <2>3
  <2>8. QED
    BY <2>4, <2>6, <2>7
<1>5. QED
  BY <1>2, <1>3, <1>4

\* Four errors are noticed: with the parity bit, three others are corrected and the parity is
\* then odd; without it, the decoder either finds nothing or three other bits, and seven wrong
\* bits make the parity odd.
THEOREM GolayNotices ==
  ASSUME NEW data \in SUBSET (0..11), NEW errors \in Words24, Cardinality(errors) = 4
  PROVE  ~ Decode24(SymDiff(Encode24(data), errors)).ok
<1>1. PICK e \in Words23 : e = Down(errors, 1)
  BY WithoutParity
<1>2. PICK w : w = SymDiff(Encode24(data), errors)
  OBVIOUS
<1>3. /\ IsFiniteSet(e) /\ Cardinality(e) \in Nat
      /\ Cardinality(errors) = Cardinality(e) + (IF 0 \in errors THEN 1 ELSE 0)
  BY <1>1, WeightWithParity, WordWeight
<1>4. /\ w \in Words24 /\ Reduced(Down(w, 1)) = Reduced(e)
      /\ \A c \in Words23 :
           Cardinality(c) <= 3 /\ Reduced(c) = Reduced(e) =>
             (Decode24(w).ok <=>
                (Cardinality(Reduced(c)) >= 3 => (Cardinality(errors) + Cardinality(c)) % 2 = 0))
  BY <1>1, <1>2, ReceivedAs
<1>5. CASE Reduced(e) \notin DOMAIN Lut
  BY <1>2, <1>4, <1>5, NotDecoded, Zenon
<1>6. CASE Reduced(e) \in DOMAIN Lut
  <2>1. PICK c \in Words23 : Cardinality(c) <= 3 /\ Reduced(c) = Reduced(e)
    BY <1>6, LutIs, Zenon
  <2>2. IsFiniteSet(c) /\ Cardinality(c) \in Nat
    BY WordWeight
  <2>3. PICK s \in SUBSET (0..10) : s = Reduced(c)
    BY RemainderIs
  <2>4. Cardinality(s) \in Nat /\ Cardinality(Up(s, 12)) = Cardinality(s)
    <3>1. s \in Words23
      BY DEF Words23
    <3>2. QED
      BY <3>1, WordWeight, ShiftedSyndrome
  <2>5. Cardinality(c) = 3
    <3>1. PICK x : x = SymDiff(c, e)
      OBVIOUS
    <3>2. x \in Words23 /\ Reduced(x) = SymDiff(Reduced(e), Reduced(e))
      BY <2>1, <3>1, SyndromeLinear, Zenon
    <3>3. SymDiff(Reduced(e), Reduced(e)) = {}
      BY DEF SymDiff
    <3>4. Cardinality(x) \in Nat
      BY <3>2, WordWeight
    <3>5. PICK m \in Nat : m = Cardinality(c \cap e)
      BY <1>3, <2>2, SumWeight, Zenon
    <3>6. Cardinality(x) + 2 * m = Cardinality(c) + Cardinality(e)
      BY <1>3, <2>2, <3>1, <3>5, SumWeight, Zenon
    <3>7. CASE Cardinality(x) <= 6
      <4>1. x = {}
        BY <3>2, <3>3, <3>7, CodeDistance, Zenon
      <4>2. c = e
        BY <3>1, <4>1 DEF SymDiff
      <4>3. QED
        BY <1>3, <2>1, <2>2, <4>2
    <3>8. CASE ~ (Cardinality(x) <= 6)
      BY <1>3, <2>1, <2>2, <3>4, <3>5, <3>6, <3>8
    <3>9. QED
      BY <3>7, <3>8
  <2>6. Cardinality(s) >= 3
    <3>1. CASE Cardinality(s) <= 2
      <4>1. c = Up(s, 12)
        BY <2>1, <2>3, <3>1, FewSyndromeBits, Zenon
      <4>2. QED
        BY <2>4, <2>5, <3>1, <4>1
    <3>2. QED
      BY <2>4, <3>1
  <2>7. (Cardinality(errors) + Cardinality(c)) % 2 # 0
    BY <2>5
  <2>8. Decode24(w).ok <=>
          (Cardinality(Reduced(c)) >= 3 => (Cardinality(errors) + Cardinality(c)) % 2 = 0)
    BY <1>4, <2>1, Zenon
  <2>9. QED
    BY <1>2, <2>3, <2>6, <2>7, <2>8, Zenon
<1>7. QED
  BY <1>5, <1>6

\* A half of a group.
Halves == 0..4095

\* A half of a group, as twelve bits, and back: the sum of the lowest of them is what remains
\* of the number when it is divided by a power of two.
LEMMA NumberOfBits ==
  ASSUME NEW n \in Halves
  PROVE  BitsOf(n) \in SUBSET (0..11) /\ NumberOf(BitsOf(n)) = n
<1>1. BitsOf(n) \in SUBSET (0..11)
  BY DEF BitsOf
<1>2. PICK w : w = BitsOf(n)
  OBVIOUS
<1> DEFINE term(b) == IF b \in w THEN 2^b ELSE 0
           Body(g) == [b \in 0..12 |-> IF b = 0 THEN 0 ELSE g[b-1] + term(b-1)]
           f == [b \in 0..12 |-> n % 2^b]
           D == CHOOSE g : g = Body(g)
<1>3. NumberOf(w) = D[12]
  BY Zenon DEF NumberOf
<1>4. /\ 2^0 = 1 /\ 2^1 = 2 /\ 2^2 = 4 /\ 2^3 = 8 /\ 2^4 = 16 /\ 2^5 = 32 /\ 2^6 = 64
      /\ 2^7 = 128 /\ 2^8 = 256 /\ 2^9 = 512 /\ 2^10 = 1024 /\ 2^11 = 2048 /\ 2^12 = 4096
  OBVIOUS
<1>5. f[0] = 0 /\ f[12] = n
  BY <1>4 DEF Halves
<1>6. \A b \in 0..11 : b \in w <=> (n \div 2^b) % 2 = 1
  BY <1>2 DEF BitsOf
<1>10. f[1] = f[0] + term(0)
  <2>1. 0 \in w <=> (n \div 1) % 2 = 1
    BY <1>4, <1>6
  <2>2. n % 2 = (n % 1) + (IF (n \div 1) % 2 = 1 THEN 1 ELSE 0)
    BY DEF Halves
  <2>3. f[0] = n % 1 /\ f[1] = n % 2
    BY <1>4
  <2>4. term(0) = IF 0 \in w THEN 1 ELSE 0
    BY <1>4
  <2>5. QED
    BY <2>1, <2>2, <2>3, <2>4
<1>11. f[2] = f[1] + term(1)
  <2>1. 1 \in w <=> (n \div 2) % 2 = 1
    BY <1>4, <1>6
  <2>2. n % 4 = (n % 2) + (IF (n \div 2) % 2 = 1 THEN 2 ELSE 0)
    BY DEF Halves
  <2>3. f[1] = n % 2 /\ f[2] = n % 4
    BY <1>4
  <2>4. term(1) = IF 1 \in w THEN 2 ELSE 0
    BY <1>4
  <2>5. QED
    BY <2>1, <2>2, <2>3, <2>4
<1>12. f[3] = f[2] + term(2)
  <2>1. 2 \in w <=> (n \div 4) % 2 = 1
    BY <1>4, <1>6
  <2>2. n % 8 = (n % 4) + (IF (n \div 4) % 2 = 1 THEN 4 ELSE 0)
    BY DEF Halves
  <2>3. f[2] = n % 4 /\ f[3] = n % 8
    BY <1>4
  <2>4. term(2) = IF 2 \in w THEN 4 ELSE 0
    BY <1>4
  <2>5. QED
    BY <2>1, <2>2, <2>3, <2>4
<1>13. f[4] = f[3] + term(3)
  <2>1. 3 \in w <=> (n \div 8) % 2 = 1
    BY <1>4, <1>6
  <2>2. n % 16 = (n % 8) + (IF (n \div 8) % 2 = 1 THEN 8 ELSE 0)
    BY DEF Halves
  <2>3. f[3] = n % 8 /\ f[4] = n % 16
    BY <1>4
  <2>4. term(3) = IF 3 \in w THEN 8 ELSE 0
    BY <1>4
  <2>5. QED
    BY <2>1, <2>2, <2>3, <2>4
<1>14. f[5] = f[4] + term(4)
  <2>1. 4 \in w <=> (n \div 16) % 2 = 1
    BY <1>4, <1>6
  <2>2. n % 32 = (n % 16) + (IF (n \div 16) % 2 = 1 THEN 16 ELSE 0)
    BY DEF Halves
  <2>3. f[4] = n % 16 /\ f[5] = n % 32
    BY <1>4
  <2>4. term(4) = IF 4 \in w THEN 16 ELSE 0
    BY <1>4
  <2>5. QED
    BY <2>1, <2>2, <2>3, <2>4
<1>15. f[6] = f[5] + term(5)
  <2>1. 5 \in w <=> (n \div 32) % 2 = 1
    BY <1>4, <1>6
  <2>2. n % 64 = (n % 32) + (IF (n \div 32) % 2 = 1 THEN 32 ELSE 0)
    BY DEF Halves
  <2>3. f[5] = n % 32 /\ f[6] = n % 64
    BY <1>4
  <2>4. term(5) = IF 5 \in w THEN 32 ELSE 0
    BY <1>4
  <2>5. QED
    BY <2>1, <2>2, <2>3, <2>4
<1>16. f[7] = f[6] + term(6)
  <2>1. 6 \in w <=> (n \div 64) % 2 = 1
    BY <1>4, <1>6
  <2>2. n % 128 = (n % 64) + (IF (n \div 64) % 2 = 1 THEN 64 ELSE 0)
    BY DEF Halves
  <2>3. f[6] = n % 64 /\ f[7] = n % 128
    BY <1>4
  <2>4. term(6) = IF 6 \in w THEN 64 ELSE 0
    BY <1>4
  <2>5. QED
    BY <2>1, <2>2, <2>3, <2>4
<1>17. f[8] = f[7] + term(7)
  <2>1. 7 \in w <=> (n \div 128) % 2 = 1
    BY <1>4, <1>6
  <2>2. n % 256 = (n % 128) + (IF (n \div 128) % 2 = 1 THEN 128 ELSE 0)
    BY DEF Halves
  <2>3. f[7] = n % 128 /\ f[8] = n % 256
    BY <1>4
  <2>4. term(7) = IF 7 \in w THEN 128 ELSE 0
    BY <1>4
  <2>5. QED
    BY <2>1, <2>2, <2>3, <2>4
<1>18. f[9] = f[8] + term(8)
  <2>1. 8 \in w <=> (n \div 256) % 2 = 1
    BY <1>4, <1>6
  <2>2. n % 512 = (n % 256) + (IF (n \div 256) % 2 = 1 THEN 256 ELSE 0)
    BY DEF Halves
  <2>3. f[8] = n % 256 /\ f[9] = n % 512
    BY <1>4
  <2>4. term(8) = IF 8 \in w THEN 256 ELSE 0
    BY <1>4
  <2>5. QED
    BY <2>1, <2>2, <2>3, <2>4
<1>19. f[10] = f[9] + term(9)
  <2>1. 9 \in w <=> (n \div 512) % 2 = 1
    BY <1>4, <1>6
  <2>2. n % 1024 = (n % 512) + (IF (n \div 512) % 2 = 1 THEN 512 ELSE 0)
    BY DEF Halves
  <2>3. f[9] = n % 512 /\ f[10] = n % 1024
    BY <1>4
  <2>4. term(9) = IF 9 \in w THEN 512 ELSE 0
    BY <1>4
  <2>5. QED
    BY <2>1, <2>2, <2>3, <2>4
<1>20. f[11] = f[10] + term(10)
  <2>1. 10 \in w <=> (n \div 1024) % 2 = 1
    BY <1>4, <1>6
  <2>2. n % 2048 = (n % 1024) + (IF (n \div 1024) % 2 = 1 THEN 1024 ELSE 0)
    BY DEF Halves
  <2>3. f[10] = n % 1024 /\ f[11] = n % 2048
    BY <1>4
  <2>4. term(10) = IF 10 \in w THEN 1024 ELSE 0
    BY <1>4
  <2>5. QED
    BY <2>1, <2>2, <2>3, <2>4
<1>21. f[12] = f[11] + term(11)
  <2>1. 11 \in w <=> (n \div 2048) % 2 = 1
    BY <1>4, <1>6
  <2>2. n % 4096 = (n % 2048) + (IF (n \div 2048) % 2 = 1 THEN 2048 ELSE 0)
    BY DEF Halves
  <2>3. f[11] = n % 2048 /\ f[12] = n % 4096
    BY <1>4
  <2>4. term(11) = IF 11 \in w THEN 2048 ELSE 0
    BY <1>4
  <2>5. QED
    BY <2>1, <2>2, <2>3, <2>4
<1> HIDE DEF f, term
<1>22. f = Body(f)
  <2>1. \A b \in 1..12 : f[b] = f[b-1] + term(b-1)
    <3>1. SUFFICES ASSUME NEW b \in 1..12 PROVE f[b] = f[b-1] + term(b-1)
      OBVIOUS
    <3>2. \/ b = 1 \/ b = 2 \/ b = 3 \/ b = 4 \/ b = 5 \/ b = 6
          \/ b = 7 \/ b = 8 \/ b = 9 \/ b = 10 \/ b = 11 \/ b = 12
      OBVIOUS
    <3>3. QED
      BY <1>10, <1>11, <1>12, <1>13, <1>14, <1>15, <1>16, <1>17, <1>18, <1>19, <1>20, <1>21, <3>2
  <2>2. f = [b \in 0..12 |-> f[b]]
    BY Zenon DEF f
  <2>3. \A b \in 0..12 : f[b] = IF b = 0 THEN 0 ELSE f[b-1] + term(b-1)
    <3>1. \A b \in 0..12 : b # 0 => b \in 1..12
      OBVIOUS
    <3>2. QED
      BY <1>5, <2>1, <3>1, Zenon
  <2>4. QED
    BY <2>2, <2>3, Zenon
<1>23. D = Body(D)
  <2> HIDE DEF Body
  <2>1. QED
    BY <1>22, Zenon
<1> HIDE DEF D
<1>24. D[0] = 0 /\ \A b \in 0..11 : D[b+1] = D[b] + term(b)
  <2>1. 0 \in 0..12 /\ \A b \in 0..11 : b + 1 \in 0..12 /\ b + 1 # 0 /\ (b + 1) - 1 = b
    OBVIOUS
  <2>2. QED
    BY <1>23, <2>1, Zenon
<1>25. \A b \in 0..11 : f[b+1] = f[b] + term(b)
  <2>1. 0 \in 0..12 /\ \A b \in 0..11 : b + 1 \in 0..12 /\ b + 1 # 0 /\ (b + 1) - 1 = b
    OBVIOUS
  <2>2. QED
    BY <1>22, <2>1, Zenon
<1>26. D[12] = f[12]
  <2> DEFINE T == {b \in 0..12 : D[b] = f[b]}
  <2>1. 0 \in T
    BY <1>5, <1>24
  <2>2. ASSUME NEW b \in 0..12-1, b \in T PROVE b + 1 \in T
    <3>1. b \in 0..11 /\ b + 1 \in 0..12
      OBVIOUS
    <3>2. QED
      BY <1>24, <1>25, <2>2, <3>1, Zenon
  <2> HIDE DEF T
  <2>3. 0..12 \subseteq T
    BY <2>1, <2>2, BoundedInduction
  <2>4. QED
    BY <2>3 DEF T
<1>27. QED
  BY <1>1, <1>2, <1>3, <1>5, <1>26, Zenon

-----------------------------------------------------------------------------
\* A value of the callsign's two halves that is below N.
Fits(v, N) == \E a, b \in Nat : v = <<a, b>> /\ b < Group /\ a * Group + b < N
CallLimit == 6553600000000       \* 40^8: a value below it has room for one more digit
Digit(char) == IF char = Other THEN 0 ELSE char

\* decode_callsign undoes a step of encode_callsign that has not lost a digit.
LEMMA DigitComesBack ==
  ASSUME NEW N \in Nat, N <= CallLimit, NEW v, Fits(v, N), NEW char \in 0..40,
         NEW w, w = AddDigit(v, char)
  PROVE  /\ Fits(w, 40 * N) /\ ByForty(w) = v /\ ModForty(w) = Digit(char)
         /\ NotZero(w) <=> NotZero(v) \/ Digit(char) # 0
<1>1. PICK a \in Nat, b \in Nat : v = <<a, b>> /\ b < Group /\ a * Group + b < N
  BY DEF Fits
<1>2. PICK d \in 0..39 : d = Digit(char)
  BY DEF Digit, Other
<1>3. PICK low \in Nat : low = 40 * b + d
  BY <1>1, <1>2
<1>4. w = <<(40 * a + low \div Group) % Group, low % Group>>
  <2>1. v[1] = a /\ v[2] = b
    BY <1>1
  <2>2. AddDigit(v, char) = TimesFortyPlus(v, d)
    BY <1>2, Zenon DEF AddDigit, Digit
  <2>3. QED
    BY <1>3, <2>1, <2>2, Zenon DEF TimesFortyPlus
<1>5. PICK q \in 0..39, r \in Nat : q = low \div Group /\ r = low % Group
  <2>1. low < 40 * Group
    BY <1>1, <1>2, <1>3, SMT DEF Group
  <2>2. low \div Group \in 0..39 /\ low % Group \in Nat
    BY <2>1, SMT DEF Group
  <2>3. QED
    BY <2>2
<1>6. low = q * Group + r /\ r < Group
  BY <1>3, <1>5, SMT DEF Group
<1>7. 40 * a + q < Group
  BY <1>1, <1>2, <1>3, <1>5, <1>6, SMT DEF Group, CallLimit
<1>8. PICK x \in Nat : x = 40 * a + q
  BY <1>1, <1>5
<1>9. w = <<x, r>>
  <2>1. x % Group = x
    BY <1>7, <1>8, SMT DEF Group
  <2>2. QED
    BY <1>4, <1>5, <1>8, <2>1, Zenon
<1>10. w[1] = x /\ w[2] = r
  BY <1>9
<1>11. x \div 40 = a /\ x % 40 = q
  BY <1>5, <1>8
<1>12. low \div 40 = b /\ low % 40 = d
  BY <1>2, <1>3
<1>13. ByForty(w) = <<a, b>> /\ ModForty(w) = d
  BY <1>6, <1>10, <1>11, <1>12, Zenon DEF ByForty, ModForty
<1>14. x * Group + r < 40 * N
  BY <1>1, <1>2, <1>3, <1>6, <1>8, SMT DEF Group
<1>15. Fits(w, 40 * N)
  BY <1>6, <1>9, <1>14, Zenon DEF Fits
<1>16. (x = 0 /\ r = 0) <=> (a = 0 /\ b = 0 /\ d = 0)
  <2>1. ASSUME x = 0, r = 0 PROVE a = 0 /\ b = 0 /\ d = 0
    <3>1. a = 0 /\ q = 0
      BY <1>5, <1>8, <2>1, SMT
    <3>2. low = 0
      BY <1>6, <2>1, <3>1, SMT DEF Group
    <3>3. QED
      BY <1>2, <1>3, <3>1, <3>2, SMT
  <2>2. ASSUME a = 0, b = 0, d = 0 PROVE x = 0 /\ r = 0
    <3>1. low = 0
      BY <1>3, <2>2, SMT
    <3>2. q = 0 /\ r = 0
      BY <1>5, <1>6, <3>1, SMT DEF Group
    <3>3. QED
      BY <1>8, <2>2, <3>2, SMT
  <2>3. QED
    BY <2>1, <2>2
<1>17. NotZero(w) <=> ~ (x = 0 /\ r = 0)
  BY <1>9 DEF NotZero
<1>18. NotZero(v) <=> ~ (a = 0 /\ b = 0)
  BY <1>1 DEF NotZero
<1>19. QED
  BY <1>1, <1>2, <1>13, <1>15, <1>16, <1>17, <1>18

\* The values after each digit of ten.
LEMMA ValuesAre ==
  ASSUME NEW digits \in [1..10 -> 0..40]
  PROVE  \E f : /\ f[0] = <<0, 0>>
                /\ \A n \in 1..10 : f[n] = AddDigit(f[n-1], digits[n])
                /\ Value(digits) = f[10]
<1> DEFINE V == Int \X Int
           step == [n \in Nat |-> [v \in V |-> IF n + 1 \in 1..10 THEN AddDigit(v, digits[n+1]) ELSE v]]
           Body(g) == [n \in 0..10 |-> IF n = 0 THEN <<0, 0>> ELSE AddDigit(g[n-1], digits[n])]
           D == CHOOSE g : g = Body(g)
<1>1. \A v \in V : \A c \in 0..40 : AddDigit(v, c) \in V
  BY SMT DEF AddDigit, TimesFortyPlus, Other, Group
<1>2. Len(digits) = 10
  BY SeqDef
<1>3. Value(digits) = D[10]
  BY <1>2, Zenon DEF Value
<1>4. <<0, 0>> \in V
  OBVIOUS
<1>5. step \in [Nat -> [V -> V]]
  <2> HIDE DEF V
  <2>1. \A n \in Nat : \A v \in V : (IF n + 1 \in 1..10 THEN AddDigit(v, digits[n+1]) ELSE v) \in V
    BY <1>1
  <2>2. QED
    BY <2>1
<1>6. PICK f : Begins(f, 10, V, <<0, 0>>, step)
  <2> HIDE DEF V, step
  <2>1. 10 \in Nat
    OBVIOUS
  <2>2. QED
    BY <1>4, <1>5, <2>1, BeginningsExist, Zenon
<1>7. f \in [0..10 -> V] /\ f[0] = <<0, 0>>
  BY <1>6, Zenon DEF Begins
<1>8. ASSUME NEW n \in 1..10 PROVE f[n] = AddDigit(f[n-1], digits[n])
  <2> HIDE DEF V
  <2>1. n - 1 \in 0..10-1 /\ n - 1 \in Nat /\ (n - 1) + 1 = n /\ n - 1 \in 0..10
    OBVIOUS
  <2>2. f[(n-1)+1] = step[n-1][f[n-1]] /\ f[n-1] \in V
    BY <1>6, <1>7, <2>1, Zenon DEF Begins
  <2>3. step[n-1][f[n-1]] = IF (n - 1) + 1 \in 1..10 THEN AddDigit(f[n-1], digits[(n-1)+1]) ELSE f[n-1]
    BY <2>1, <2>2, Zenon
  <2>4. QED
    BY <2>1, <2>2, <2>3, Zenon
<1> HIDE DEF step, V
<1>9. f = Body(f)
  <2>1. \A n \in 0..10 : n # 0 => n \in 1..10
    OBVIOUS
  <2>2. f = [n \in 0..10 |-> f[n]]
    BY <1>7, Zenon
  <2>3. \A n \in 0..10 : f[n] = IF n = 0 THEN <<0, 0>> ELSE AddDigit(f[n-1], digits[n])
    BY <1>7, <1>8, <2>1, Zenon
  <2>4. QED
    BY <2>2, <2>3, Zenon
<1>10. D = Body(D)
  <2> HIDE DEF Body
  <2>1. QED
    BY <1>9, Zenon
<1> HIDE DEF D
<1>11. D[0] = <<0, 0>> /\ \A n \in 1..10 : D[n] = AddDigit(D[n-1], digits[n])
  <2>1. 0 \in 0..10 /\ \A n \in 1..10 : n \in 0..10 /\ n # 0
    OBVIOUS
  <2>2. QED
    BY <1>10, <2>1, Zenon
<1>12. QED
  BY <1>3, <1>11, Zenon

\* A callsign of n characters, nine at most, the last of them one that has a code.
Callsign(call, n) ==
  /\ n \in 0..9 /\ call \in [1..10 -> 0..40]
  /\ \A i \in 1..10 : call[i] = Nul <=> i > n
  /\ n > 0 => call[n] # Other

\* What encode_callsign computes from the last character to the first, and what each step of
\* decode_callsign finds in it.
LEMMA CallsignValues ==
  ASSUME NEW n, NEW call, Callsign(call, n)
  PROVE  \E f : /\ f[0] = <<0, 0>> /\ EncodeCallsign(call) = f[10]
                /\ \A j \in 1..10 : /\ ByForty(f[j]) = f[j-1] /\ ModForty(f[j]) = Digit(call[11-j])
                                    /\ NotZero(f[j]) <=> NotZero(f[j-1]) \/ Digit(call[11-j]) # 0
                /\ Fits(f[10], 40 * CallLimit)
<1>1. call \in [1..10 -> 0..40] /\ call[10] = 0
  BY DEF Callsign, Nul
<1>2. PICK d \in [1..10 -> 0..40] : d = Reverse(call) /\ \A j \in 1..10 : d[j] = call[11-j]
  <2>1. Len(call) = 10
    BY <1>1, SeqDef
  <2>2. Reverse(call) = [j \in 1..10 |-> call[(10-j)+1]]
    BY <2>1, Zenon DEF Reverse
  <2>3. \A j \in 1..10 : (10-j)+1 = 11-j /\ 11-j \in 1..10
    OBVIOUS
  <2>4. QED
    BY <1>1, <2>2, <2>3
<1>3. PICK f : /\ f[0] = <<0, 0>>
               /\ \A j \in 1..10 : f[j] = AddDigit(f[j-1], d[j])
               /\ Value(d) = f[10]
  BY ValuesAre
<1> DEFINE Back(j) == /\ ByForty(f[j]) = f[j-1] /\ ModForty(f[j]) = Digit(call[11-j])
                      /\ NotZero(f[j]) <=> NotZero(f[j-1]) \/ Digit(call[11-j]) # 0
<1>4. ASSUME NEW j \in 1..10, NEW N \in Nat, N <= CallLimit, Fits(f[j-1], N)
      PROVE  Fits(f[j], 40 * N) /\ Back(j)
  <2>1. f[j] = AddDigit(f[j-1], d[j]) /\ d[j] \in 0..40 /\ d[j] = call[11-j]
    BY <1>2, <1>3
  <2>2. PICK c \in 0..40 : c = d[j]
    BY <2>1
  <2>3. /\ Fits(f[j], 40 * N) /\ ByForty(f[j]) = f[j-1] /\ ModForty(f[j]) = Digit(c)
        /\ NotZero(f[j]) <=> NotZero(f[j-1]) \/ Digit(c) # 0
    BY <1>4, <2>1, <2>2, DigitComesBack
  <2>4. QED
    BY <2>1, <2>2, <2>3, Zenon
<1> HIDE DEF Back
<1>5. Fits(f[0], 1)
  BY <1>3, SMT DEF Fits, Group
<1>6. Back(1)
  <2>1. 1 \in 1..10 /\ 1 - 1 = 0 /\ 1 \in Nat /\ 1 <= CallLimit
    BY SMT DEF CallLimit
  <2>2. QED
    BY <1>4, <1>5, <2>1
<1>7. Fits(f[1], 1)
  <2>1. f[1] = AddDigit(<<0, 0>>, 0)
    <3>1. 1 \in 1..10 /\ 1 - 1 = 0 /\ 11 - 1 = 10
      OBVIOUS
    <3>2. QED
      BY <1>1, <1>2, <1>3, <3>1
  <2>2. f[1] = <<0, 0>>
    BY <2>1, SMT DEF AddDigit, TimesFortyPlus, Other, Group
  <2>3. QED
    BY <2>2, SMT DEF Fits, Group
<1>8. /\ \A j \in 1..10 : j - 1 \in 0..9
      /\ 2 - 1 = 1 /\ 3 - 1 = 2 /\ 4 - 1 = 3 /\ 5 - 1 = 4 /\ 6 - 1 = 5 /\ 7 - 1 = 6
      /\ 8 - 1 = 7 /\ 9 - 1 = 8 /\ 10 - 1 = 9
      /\ 2 \in 1..10 /\ 3 \in 1..10 /\ 4 \in 1..10 /\ 5 \in 1..10 /\ 6 \in 1..10 /\ 7 \in 1..10
      /\ 8 \in 1..10 /\ 9 \in 1..10 /\ 10 \in 1..10
  OBVIOUS
<1>9. Fits(f[2], 40) /\ Back(2)
  BY <1>4, <1>7, <1>8, SMT DEF CallLimit
<1>10. Fits(f[3], 1600) /\ Back(3)
  BY <1>4, <1>9, <1>8, SMT DEF CallLimit
<1>11. Fits(f[4], 64000) /\ Back(4)
  BY <1>4, <1>10, <1>8, SMT DEF CallLimit
<1>12. Fits(f[5], 2560000) /\ Back(5)
  BY <1>4, <1>11, <1>8, SMT DEF CallLimit
<1>13. Fits(f[6], 102400000) /\ Back(6)
  BY <1>4, <1>12, <1>8, SMT DEF CallLimit
<1>14. Fits(f[7], 4096000000) /\ Back(7)
  BY <1>4, <1>13, <1>8, SMT DEF CallLimit
<1>15. Fits(f[8], 163840000000) /\ Back(8)
  BY <1>4, <1>14, <1>8, SMT DEF CallLimit
<1>16. Fits(f[9], CallLimit) /\ Back(9)
  BY <1>4, <1>15, <1>8, SMT DEF CallLimit
<1>17. Fits(f[10], 40 * CallLimit) /\ Back(10)
  BY <1>4, <1>16, <1>8, SMT DEF CallLimit
<1>18. \A j \in 1..10 : Back(j)
  BY <1>6, <1>9, <1>10, <1>11, <1>12, <1>13, <1>14, <1>15, <1>16, <1>17, SMT
<1>19. EncodeCallsign(call) = f[10]
  BY <1>2, <1>3, Zenon DEF EncodeCallsign
<1>20. QED
  BY <1>3, <1>17, <1>18, <1>19, Zenon DEF Back

\* The values of a group.
Groups == 0..Group-1

\* A callsign of at most nine characters comes back from its two groups.
THEOREM CallsignComesBack ==
  ASSUME NEW n, NEW call, Callsign(call, n)
  PROVE  /\ \E x, y \in Groups : EncodeCallsign(call) = <<x, y>>
         /\ DecodeCallsign(EncodeCallsign(call)) = call
<1>1. PICK f : /\ f[0] = <<0, 0>> /\ EncodeCallsign(call) = f[10]
               /\ \A j \in 1..10 : /\ ByForty(f[j]) = f[j-1] /\ ModForty(f[j]) = Digit(call[11-j])
                                   /\ NotZero(f[j]) <=> NotZero(f[j-1]) \/ Digit(call[11-j]) # 0
               /\ Fits(f[10], 40 * CallLimit)
  BY CallsignValues
<1>2. \E x, y \in Groups : EncodeCallsign(call) = <<x, y>>
  <2>1. PICK a \in Nat, b \in Nat : f[10] = <<a, b>> /\ b < Group /\ a * Group + b < 40 * CallLimit
    BY <1>1, Zenon DEF Fits
  <2>2. a \in Groups /\ b \in Groups
    <3>1. a * 16777216 < 40 * 6553600000000
      BY <2>1, SMT DEF Group, CallLimit
    <3>2. a < Group /\ Group \in Int
      BY <3>1, SMT DEF Group
    <3>3. QED
      BY <2>1, <3>2, SMT DEF Groups
  <2>3. QED
    BY <1>1, <2>1, <2>2, Zenon
<1>3. /\ n \in 0..9 /\ call \in [1..10 -> 0..40]
      /\ \A i \in 1..10 : call[i] = 0 <=> i > n
      /\ n > 0 => call[n] # 40
  BY DEF Callsign, Nul, Other
<1>4. \A i \in 1..10 : /\ NotZero(f[11-i]) <=> NotZero(f[10-i]) \/ Digit(call[i]) # 0
                       /\ ByForty(f[11-i]) = f[10-i] /\ ModForty(f[11-i]) = Digit(call[i])
  <2>1. \A i \in 1..10 : 11 - i \in 1..10 /\ (11 - i) - 1 = 10 - i /\ 11 - (11 - i) = i
    OBVIOUS
  <2>2. QED
    BY <1>1, <2>1
<1>5. /\ \A i \in 1..10 : call[i] \in 0..40
      /\ \A c \in 0..40 : Digit(c) = IF c = 40 THEN 0 ELSE c
  BY <1>3 DEF Digit, Other
\* From the last character on there is nothing left ...
<1>6. \A i \in 0..10 : i >= n => ~NotZero(f[10-i])
  <2> DEFINE T == {k \in 0..10 : 10 - k >= n => ~NotZero(f[k])}
  <2>1. 0 \in T
    BY <1>1 DEF NotZero
  <2>2. ASSUME NEW k \in 0..10-1, k \in T PROVE k + 1 \in T
    <3>1. SUFFICES ASSUME 10 - (k + 1) >= n PROVE ~NotZero(f[k+1])
      OBVIOUS
    <3>2. PICK i \in 1..10 : i = 10 - k /\ 11 - i = k + 1 /\ 10 - i = k /\ i > n
      BY <1>3, <3>1
    <3>3. ~NotZero(f[k])
      BY <1>3, <2>2, <3>1
    <3>4. Digit(call[i]) = 0
      BY <1>3, <1>5, <3>2
    <3>5. QED
      BY <1>4, <3>2, <3>3, <3>4
  <2> HIDE DEF T
  <2>3. 0..10 \subseteq T
    BY <2>1, <2>2, BoundedInduction
  <2>4. SUFFICES ASSUME NEW i \in 0..10, i >= n PROVE ~NotZero(f[10-i])
    OBVIOUS
  <2>5. PICK k \in 0..10 : k = 10 - i /\ 10 - k >= n
    BY <1>3, <2>4
  <2>6. QED
    BY <2>3, <2>5 DEF T
\* ... and before it something.
<1>7. \A i \in 0..9 : i < n => NotZero(f[10-i])
  <2> DEFINE T == {k \in 0..10 : k > 10 - n => NotZero(f[k])}
  <2>1. 0 \in T
    BY <1>3
  <2>2. ASSUME NEW k \in 0..10-1, k \in T PROVE k + 1 \in T
    <3>1. SUFFICES ASSUME k + 1 > 10 - n PROVE NotZero(f[k+1])
      OBVIOUS
    <3>2. PICK i \in 1..10 : i = 10 - k /\ 11 - i = k + 1 /\ 10 - i = k /\ i <= n
      BY <1>3, <3>1
    <3>3. CASE k > 10 - n
      <4>1. NotZero(f[k])
        BY <2>2, <3>3
      <4>2. QED
        BY <1>4, <3>2, <4>1
    <3>4. CASE ~ (k > 10 - n)
      <4>1. i = n /\ n > 0
        BY <1>3, <3>2, <3>4
      <4>2. Digit(call[i]) # 0
        BY <1>3, <1>5, <4>1
      <4>3. QED
        BY <1>4, <3>2, <4>2
    <3>5. QED
      BY <3>3, <3>4
  <2> HIDE DEF T
  <2>3. 0..10 \subseteq T
    BY <2>1, <2>2, BoundedInduction
  <2>4. SUFFICES ASSUME NEW i \in 0..9, i < n PROVE NotZero(f[10-i])
    OBVIOUS
  <2>5. PICK k \in 0..10 : k = 10 - i /\ k > 10 - n
    BY <1>3, <2>4
  <2>6. QED
    BY <2>3, <2>5 DEF T
<1> DEFINE Body(g) == [m \in 0..10 |-> IF m = 0 THEN f[10] ELSE ByForty(g[m-1])]
           r == [m \in 0..10 |-> f[10-m]]
           D == CHOOSE g : g = Body(g)
<1>8. Digits(f[10]) = [m \in 1..10 |-> IF ~NotZero(D[m-1]) THEN Nul
                                       ELSE IF ModForty(D[m-1]) = 0 THEN Other ELSE ModForty(D[m-1])]
  BY Zenon DEF Digits, CallLength
<1>9. r = Body(r)
  <2>1. ASSUME NEW m \in 0..10 PROVE f[10-m] = IF m = 0 THEN f[10] ELSE ByForty(r[m-1])
    <3>1. CASE m = 0
      BY <3>1
    <3>2. CASE m # 0
      <4>1. m \in 1..10 /\ m - 1 \in 0..10 /\ 10 - (m - 1) = 11 - m
        BY <3>2
      <4>2. r[m-1] = f[11-m]
        BY <4>1
      <4>3. QED
        BY <1>4, <3>2, <4>1, <4>2, Zenon
    <3>3. QED
      BY <3>1, <3>2
  <2> HIDE DEF D
  <2>2. QED
    BY <2>1
<1>10. D = Body(D)
  <2> HIDE DEF Body, r
  <2>1. QED
    BY <1>9, Zenon
<1> HIDE DEF D
<1>11. D[0] = f[10] /\ \A m \in 1..10 : D[m] = ByForty(D[m-1])
  <2>1. 0 \in 0..10 /\ \A m \in 1..10 : m \in 0..10 /\ m # 0
    OBVIOUS
  <2>2. QED
    BY <1>10, <2>1, Zenon
<1>12. \A m \in 0..10 : D[m] = f[10-m]
  <2> DEFINE T == {m \in 0..10 : D[m] = f[10-m]}
  <2>1. 0 \in T
    BY <1>11
  <2>2. ASSUME NEW m \in 0..10-1, m \in T PROVE m + 1 \in T
    <3>1. m + 1 \in 1..10 /\ (m + 1) - 1 = m /\ 11 - (m + 1) = 10 - m /\ m + 1 \in 0..10
      OBVIOUS
    <3>2. D[m+1] = ByForty(D[m]) /\ D[m] = f[10-m]
      BY <1>11, <2>2, <3>1
    <3>3. f[10-(m+1)] = ByForty(f[10-m])
      BY <1>4, <3>1
    <3>4. QED
      BY <3>1, <3>2, <3>3, Zenon
  <2> HIDE DEF T
  <2>3. 0..10 \subseteq T
    BY <2>1, <2>2, BoundedInduction
  <2>4. QED
    BY <2>3 DEF T
<1>13. ASSUME NEW m \in 1..10
       PROVE  call[m] = IF ~NotZero(D[m-1]) THEN Nul
                        ELSE IF ModForty(D[m-1]) = 0 THEN Other ELSE ModForty(D[m-1])
  <2>1. D[m-1] = f[11-m] /\ m - 1 \in 0..9 /\ 10 - (m - 1) = 11 - m
    <3>1. m - 1 \in 0..10 /\ m - 1 \in 0..9 /\ 10 - (m - 1) = 11 - m
      OBVIOUS
    <3>2. QED
      BY <1>12, <3>1
  <2>2. ModForty(f[11-m]) = Digit(call[m])
    BY <1>4
  <2>3. CASE m > n
    <3>1. m - 1 \in 0..10 /\ m - 1 >= n
      BY <1>3, <2>3
    <3>2. ~NotZero(f[11-m])
      BY <1>6, <2>1, <3>1
    <3>3. call[m] = 0
      BY <1>3, <2>3
    <3>4. QED
      BY <2>1, <3>2, <3>3 DEF Nul
  <2>4. CASE ~ (m > n)
    <3>1. m - 1 < n
      BY <1>3, <2>4
    <3>2. NotZero(f[11-m])
      BY <1>7, <2>1, <3>1
    <3>3. call[m] # 0
      BY <1>3, <2>4
    <3>4. QED
      BY <1>5, <2>1, <2>2, <3>2, <3>3 DEF Other
  <2>5. QED
    BY <2>3, <2>4
<1>14. Digits(f[10]) = call
  <2>1. call = [m \in 1..10 |-> call[m]]
    BY <1>3
  <2>2. QED
    BY <1>8, <1>13, <2>1, Zenon
<1>15. CASE NotZero(f[10])
  BY <1>1, <1>2, <1>14, <1>15, Zenon DEF DecodeCallsign
<1>16. CASE ~NotZero(f[10])
  <2>1. n = 0
    <3>1. 0 \in 0..9 /\ 10 - 0 = 10
      OBVIOUS
    <3>2. ~ (0 < n)
      BY <1>7, <1>16, <3>1
    <3>3. QED
      BY <1>3, <3>2
  <2>2. \A m \in 1..10 : call[m] = Nul
    BY <1>3, <2>1 DEF Nul
  <2>3. call = NoCall
    BY <1>3, <2>2 DEF NoCall, CallLength
  <2>4. QED
    BY <1>1, <1>2, <1>16, <2>3, Zenon DEF DecodeCallsign
<1>17. QED
  BY <1>15, <1>16

-----------------------------------------------------------------------------
\* The two words of a group, and the group they are put together to.
LEMMA HalvesOfGroup ==
  ASSUME NEW x \in Groups
  PROVE  x \div 4096 \in Halves /\ x % 4096 \in Halves /\ 4096 * (x \div 4096) + (x % 4096) = x
<1>1. x \in Nat /\ x < 16777216
  <2>1. Group \in Int
    BY SMT DEF Group
  <2>2. x \in Int /\ 0 <= x /\ x <= Group - 1
    BY <2>1, SMT DEF Groups
  <2>3. QED
    BY <2>2, SMT DEF Group
<1>2. x \div 4096 \in Nat /\ x \div 4096 < 4096 /\ x % 4096 \in Nat /\ x % 4096 < 4096
  BY <1>1, SMT
<1>3. \A y \in Nat : y < 4096 => y \in Halves
  BY SMT DEF Halves
<1>4. 4096 * (x \div 4096) + (x % 4096) = x
  BY <1>1, SMT
<1>5. QED
  BY <1>2, <1>3, <1>4, SMT

\* A header whose words have each few errors comes back; one with four in some word is refused.
THEOREM HeaderComesBack ==
  ASSUME NEW raw \in [1..4 -> Groups], NEW E \in [1..8 -> Words24],
         NEW words, words = [w \in 1..8 |-> SymDiff(EncodeHeader(raw)[w], E[w])]
  PROVE  /\ (\A w \in 1..8 : Cardinality(E[w]) <= 3 /\ (0 \notin E[w] \/ E[w] = { 0 })) =>
              DecodeHeader(words).ok /\ DecodeHeader(words).raw = raw
         /\ (\E w \in 1..8 : Cardinality(E[w]) = 4) => ~DecodeHeader(words).ok
<1> DEFINE decoded == [w \in 1..8 |-> Decode24(words[w])]
           half(w) == NumberOf(DataOf(decoded[w].word))
<1>1. PICK k \in BOOLEAN : k = (\A w \in 1..8 : decoded[w].ok)
  OBVIOUS
<1>2. PICK a : a = [g \in 1..4 |-> 4096 * half(2*g - 1) + half(2*g)]
  OBVIOUS
<1>3. DecodeHeader(words) = [ok |-> k, raw |-> a]
  BY <1>1, <1>2, Zenon DEF DecodeHeader
<1>4. DecodeHeader(words).ok = k /\ DecodeHeader(words).raw = a
  BY <1>3, SMT
<1>5. ASSUME NEW w \in 1..8
      PROVE  HalfOf(raw, w) \in Halves
  <2>1. CASE w % 2 = 1
    <3>1. (w + 1) \div 2 \in 1..4
      BY <2>1
    <3>2. raw[(w + 1) \div 2] \in Groups
      BY <3>1
    <3>3. HalfOf(raw, w) = raw[(w + 1) \div 2] \div 4096
      BY <2>1, SMT DEF HalfOf
    <3>4. QED
      BY <3>2, <3>3, HalvesOfGroup, SMT
  <2>2. CASE w % 2 # 1
    <3>1. w \div 2 \in 1..4
      BY <2>2
    <3>2. raw[w \div 2] \in Groups
      BY <3>1
    <3>3. HalfOf(raw, w) = raw[w \div 2] % 4096
      BY <2>2, SMT DEF HalfOf
    <3>4. QED
      BY <3>2, <3>3, HalvesOfGroup, SMT
  <2>3. QED
    BY <2>1, <2>2
<1>6. ASSUME NEW w \in 1..8
      PROVE  /\ BitsOf(HalfOf(raw, w)) \in SUBSET (0..11)
             /\ NumberOf(BitsOf(HalfOf(raw, w))) = HalfOf(raw, w)
             /\ decoded[w] = Decode24(SymDiff(Encode24(BitsOf(HalfOf(raw, w))), E[w]))
  <2>1. words[w] = SymDiff(Encode24(BitsOf(HalfOf(raw, w))), E[w])
    BY Zenon DEF EncodeHeader
  <2>2. QED
    BY <1>5, <2>1, NumberOfBits, Zenon
<1>7. ASSUME \A w \in 1..8 : Cardinality(E[w]) <= 3 /\ (0 \notin E[w] \/ E[w] = {0})
      PROVE  k /\ a = raw
  <2>1. ASSUME NEW w \in 1..8 PROVE decoded[w].ok /\ half(w) = HalfOf(raw, w)
    <3>1. PICK data \in SUBSET (0..11) : data = BitsOf(HalfOf(raw, w))
      BY <1>6
    <3>2. PICK e \in Words24 : e = E[w]
      OBVIOUS
    <3>3. PICK D : D = Decode24(SymDiff(Encode24(data), e))
      OBVIOUS
    <3>4. Cardinality(e) <= 3 /\ (0 \notin e \/ e = {0})
      BY <1>7, <3>2
    <3>5. DataOf(D.word) = data /\ D.ok
      BY <3>3, <3>4, GolayCorrects
    <3>6. decoded[w] = D
      BY <1>6, <3>1, <3>2, <3>3, Zenon
    <3>7. NumberOf(data) = HalfOf(raw, w)
      BY <1>6, <3>1, Zenon
    <3> HIDE DEF decoded
    <3>8. QED
      BY <3>5, <3>6, <3>7, Zenon
  <2> HIDE DEF half, decoded
  <2>2. ASSUME NEW g \in 1..4 PROVE a[g] = raw[g]
    <3>1. /\ 2*g - 1 \in 1..8 /\ 2*g \in 1..8 /\ (2*g - 1) % 2 = 1 /\ (2*g) % 2 # 1
          /\ ((2*g - 1) + 1) \div 2 = g /\ (2*g) \div 2 = g
      OBVIOUS
    <3>2. HalfOf(raw, 2*g - 1) = raw[g] \div 4096
      BY <3>1, SMT DEF HalfOf
    <3>3. HalfOf(raw, 2*g) = raw[g] % 4096
      BY <3>1, SMT DEF HalfOf
    <3>4. half(2*g - 1) = raw[g] \div 4096 /\ half(2*g) = raw[g] % 4096
      BY <2>1, <3>1, <3>2, <3>3
    <3>5. raw[g] \in Groups
      OBVIOUS
    <3>6. a[g] = 4096 * half(2*g - 1) + half(2*g)
      BY <1>2, SMT
    <3>7. QED
      BY <3>4, <3>5, <3>6, HalvesOfGroup, SMT
  <2>3. a = raw
    <3>1. a = [g \in 1..4 |-> a[g]]
      BY <1>2
    <3>2. raw = [g \in 1..4 |-> raw[g]]
      OBVIOUS
    <3>3. QED
      BY <2>2, <3>1, <3>2, Zenon
  <2>4. QED
    BY <1>1, <2>1, <2>3, Zenon
<1>8. ASSUME NEW w \in 1..8, Cardinality(E[w]) = 4 PROVE ~k
  <2>1. PICK data \in SUBSET (0..11) : data = BitsOf(HalfOf(raw, w))
    BY <1>6
  <2>2. PICK e \in Words24 : e = E[w]
    OBVIOUS
  <2>3. ~Decode24(SymDiff(Encode24(data), e)).ok
    <3>1. Cardinality(e) = 4
      BY <1>8, <2>2
    <3>2. QED
      BY <3>1, GolayNotices
  <2>4. decoded[w] = Decode24(SymDiff(Encode24(data), e))
    BY <1>6, <2>1, <2>2, Zenon
  <2> HIDE DEF decoded
  <2>5. QED
    BY <1>1, <2>3, <2>4, Zenon
<1>9. QED
  BY <1>4, <1>7, <1>8, Zenon

\* The bits of the flags.
LEMMA FlagsComeBack ==
  ASSUME NEW bert \in BOOLEAN, NEW last \in BOOLEAN,
         NEW flags, flags = (IF bert THEN BertMode ELSE 0) + (IF last THEN LastFrame ELSE 0)
  PROVE  flags \in Groups /\ (IsBert(flags) <=> bert) /\ (IsLast(flags) <=> last)
<1>1. flags \in Nat /\ flags < Group /\ Group \in Int
  BY SMT DEF BertMode, LastFrame, Group
<1>2. flags \in Groups
  BY <1>1, SMT DEF Groups
<1>3. /\ flags \div 4194304 = (IF bert THEN 1 ELSE 0) + (IF last THEN 2 ELSE 0)
      /\ flags \div 8388608 = (IF last THEN 1 ELSE 0)
  BY SMT DEF BertMode, LastFrame
<1>4. IsBert(flags) <=> bert
  BY <1>3, SMT DEF IsBert, BertMode
<1>5. IsLast(flags) <=> last
  BY <1>3, SMT DEF IsLast, LastFrame
<1>6. QED
  BY <1>2, <1>4, <1>5
=============================================================================
