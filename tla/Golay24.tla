------------------------------ MODULE Golay24 ------------------------------
(***************************************************************************)
(* include/opvcxx/Golay24.h: the extended Golay code of the frame header.   *)
(* A word is the set of the positions of its one bits, 0 the least          *)
(* significant.  Data are 12 bits (0..11); a [23,12] word has the data in   *)
(* 11..22 above 11 check bits; a [24,12] word has a parity bit below these. *)
(***************************************************************************)
EXTENDS Integers, FiniteSets, FiniteSetsExt

Poly == {0, 2, 4, 5, 6, 10, 11}        \* POLY = 0xC75

Up(word, n) == {b + n : b \in word}
Down(word, n) == {b - n : b \in {c \in word : c >= n}}

\* The loop of syndrome() and of encode23(): twelve times, POLY is taken away from
\* an odd word and the word shifted down.
Divided(word) == Down(IF 0 \in word THEN SymDiff(word, Poly) ELSE word, 1)
Reduced(word) ==
  LET after[i \in 0..12] == IF i = 0 THEN word ELSE Divided(after[i-1])
  IN  after[12]

\* The 11 bits that syndrome() returns (in bits 22..12 of its result).
Syndrome(word23) == Reduced(word23)

Parity(word) == Cardinality(word) % 2

Encode23(data) == Reduced(data) \cup Up(data, 11)

Encode24(data) ==
  LET word23 == Encode23(data)
  IN  Up(word23, 1) \cup (IF Parity(word23) = 1 THEN {0} ELSE {})

\* make_lut: every pattern of at most three errors under its syndrome.  The 2048
\* syndromes are those of these patterns, so that decode always finds an entry.
UpToTwoErrors == {{i, j} : i, j \in 0..22} \cup {{}}
Corrections == {{i, j, k} : i, j, k \in 0..22} \cup {{}}
SyndromeOf == [e \in Corrections |-> Syndrome(e)]
Lut == [s \in {SyndromeOf[e] : e \in Corrections} |->
          CHOOSE e \in Corrections : SyndromeOf[e] = s]

\* Whether the corrected word must have even parity: the code asks how many bits
\* of the syndrome are set, not how many bits were corrected.
NeverTested(syndrome) == FALSE
ParityTested(syndrome) == Cardinality(syndrome) >= 3

\* decode: whether it succeeds, and the corrected word.
Decode24(input) ==
  LET s == Syndrome(Down(input, 1))
      found == s \in DOMAIN Lut
      output == SymDiff(input, Up(Lut[s], 1))
  IN  IF found
      THEN [ok |-> ParityTested(s) => Parity(output) = 0, word |-> output]
      ELSE [ok |-> FALSE, word |-> input]

\* What the callers take from a word: decoded >> 12.
DataOf(word) == Down(word, 12)
=============================================================================
