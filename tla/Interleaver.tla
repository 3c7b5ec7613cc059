---------------------------- MODULE Interleaver ----------------------------
(***************************************************************************)
(* include/opvcxx/PolynomialInterleaver.h and OPVRandomizer.h: the last     *)
(* steps of a frame before it is sent, and the first after it is received.  *)
(* A frame is a function on the positions 0..FrameBits-1, to bits where it  *)
(* is sent and to soft bits where it is received.                           *)
(***************************************************************************)
EXTENDS Integers

CONSTANTS FrameBits,   \* K, stream_type4_size
          F1, F2       \* PolynomialInterleaverX, PolynomialInterleaverX2

ASSUME InterleaverAssumption == FrameBits \in Nat \ {0} /\ F1 \in Nat /\ F2 \in Nat

Positions == 0..FrameBits-1

\* index(): in the code a 64-bit product is reduced at the end; it is reduced earlier
\* here, which gives the same remainder.
IndexIn32Bits(i) ==
  (F1 * i + F2 * ((i * i) % FrameBits) - (IF i >= 1998 THEN 1392 ELSE 0)) % FrameBits
Index(i) == (F1 * i + F2 * ((i * i) % FrameBits)) % FrameBits

\* interleave: buffer_[index(i)] = data[i], into a buffer filled with zeros.  Source
\* is where the bit at a position comes from, -1 if from nowhere.
Source ==
  [p \in Positions |->
     IF \E i \in Positions : Index(i) = p
     THEN CHOOSE i \in Positions : Index(i) = p
     ELSE -1]
InterleaveFrame(data) == [p \in Positions |-> IF Source[p] = -1 THEN 0 ELSE data[Source[p]]]

\* deinterleave: buffer_[i] = frame[index(i)].
DeinterleaveFrame(frame) == [i \in Positions |-> frame[Index(i)]]

\* randomize exchanges the bits where the sequence dc_ is -1; operator() changes the
\* sign of the soft bits there.
Randomize(bits, dc) ==
  [p \in Positions |-> IF dc[p] = -1 THEN 1 - bits[p] ELSE bits[p]]
Derandomize(soft, dc) == [p \in Positions |-> soft[p] * dc[p]]

\* The soft bits of a frame received without errors, and the hard decision
\* soft > 0 of update_frame_header.
SoftFrame(bits, strength) ==
  [p \in Positions |-> IF bits[p] = 1 THEN strength[p] ELSE -strength[p]]
HardBit(soft) == IF soft > 0 THEN 1 ELSE 0
=============================================================================
