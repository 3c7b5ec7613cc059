------------------------- MODULE ConvolutionalCode -------------------------
(***************************************************************************)
(* The rate 1/2 convolutional code of the payload: its encoder,             *)
(* encode_stream_frame of apps/opv-mod.cpp, and the soft decision decoder   *)
(* of include/opvcxx/Viterbi.h.  A payload is a sequence of bits; what is   *)
(* received a sequence of soft bits in -LlrLimit..LlrLimit, positive for 1  *)
(* and 0 for an erasure.                                                    *)
(***************************************************************************)
EXTENDS Integers, FiniteSets, Sequences

K == 4                     \* memory depth: four flush bits, 2^K states
NumStates == 2^K
States == 0..NumStates-1
PolyA == {0, 3, 4}         \* ConvolutionPolyA = 031, octal
PolyB == {0, 1, 2, 4}      \* ConvolutionPolyB = 027
LlrLimit == 7              \* detail::llr_limit<4>()
MaxMetric == 2^30 - 1      \* MAX_METRIC: half the largest int32_t

Abs(x) == IF x < 0 THEN -x ELSE x

ConvolveBit(poly, memory) ==
  Cardinality({b \in poly : (memory \div 2^b) % 2 = 1}) % 2
UpdateMemory(memory, input) == (2 * memory + input) % 2^(K+1)

\* Every payload bit and K flush bits, two coded bits for each.
Flush == [i \in 1..K |-> 0]
EncodeBit(sent, bit) ==
  LET memory == UpdateMemory(sent.memory, bit)
  IN  [memory |-> memory,
       code |-> sent.code \o <<ConvolveBit(PolyA, memory), ConvolveBit(PolyB, memory)>>]
EncodeBits(bits) ==
  LET after[n \in 0..Len(bits)] ==
        IF n = 0 THEN [memory |-> 0, code |-> <<>>] ELSE EncodeBit(after[n-1], bits[n])
  IN  after[Len(bits)].code
EncodeStream(payload) == EncodeBits(payload \o Flush)

-----------------------------------------------------------------------------
\* makeCost: the soft value of a state's coded bits when a 0 comes in.
Ideal(bit) == (2 * bit - 1) * LlrLimit
Cost == [j \in States |-> <<Ideal(ConvolveBit(PolyA, 2 * j)), Ideal(ConvolveBit(PolyB, 2 * j))>>]

\* What it costs to come out of state j with the received pair, when the coded bits
\* are those of a 0 (cost0) and when they are the inverse (cost1).  Both polynomials
\* have their first and last taps, so that these are the only two cases.
SoftCost(ideal, soft) == IF soft = 0 THEN 0 ELSE Abs(ideal - soft)
Cost0(j, pair) == SoftCost(Cost[j][1], pair[1]) + SoftCost(Cost[j][2], pair[2])
Cost1(j, pair) == SoftCost(-Cost[j][1], pair[1]) + SoftCost(-Cost[j][2], pair[2])

\* calculate_path_metric, from the point of view of the state it leads to: state i is
\* reached from i/2 and from i/2 + NumStates/2 with input bit i%2.  The history bit
\* says that the second was cheaper.
FromLower(i, metrics, pair) ==
  metrics[i \div 2] + (IF i % 2 = 0 THEN Cost0(i \div 2, pair) ELSE Cost1(i \div 2, pair))
FromUpper(i, metrics, pair) ==
  metrics[i \div 2 + NumStates \div 2]
    + (IF i % 2 = 0 THEN Cost1(i \div 2, pair) ELSE Cost0(i \div 2, pair))

AlwaysLower(lower, upper) == FALSE
TakesUpper(lower, upper) == lower > upper

AddPair(trellis, pair) ==
  LET lower == [i \in States |-> FromLower(i, trellis.metrics, pair)]
      upper == [i \in States |-> FromUpper(i, trellis.metrics, pair)]
      takesUpper == [i \in States |-> TakesUpper(lower[i], upper[i])]
  IN  [metrics |-> [i \in States |-> IF takesUpper[i] THEN upper[i] ELSE lower[i]],
       history |-> Append(trellis.history, takesUpper)]

StartTrellis ==
  [metrics |-> [i \in States |-> IF i = 0 THEN 0 ELSE MaxMetric], history |-> <<>>]

\* The state with the least metric, the first of these: not necessarily 0, in which
\* the encoder ends.
EndState(metrics) ==
  CHOOSE i \in States :
    \A k \in States : metrics[i] <= metrics[k] /\ (metrics[i] = metrics[k] => i <= k)

\* The chainback: from the end state through the history; the bit of a step is the
\* last bit of the state it leads to, and those after the outLen-th are not written.
Chainback(trellis, outLen) ==
  LET n == Len(trellis.history)
      end == EndState(trellis.metrics)
      before(state, t) ==
        state \div 2 + (IF trellis.history[t][state] THEN NumStates \div 2 ELSE 0)
      stateAt[t \in 1..n] == IF t = n THEN end ELSE before(stateAt[t+1], t+1)
  IN  [bits |-> [t \in 1..outLen |-> stateAt[t] % 2],
       metric |-> trellis.metrics[end],
       \* std::round(min_cost / llr_limit)
       cost |-> (2 * trellis.metrics[end] + LlrLimit) \div (2 * LlrLimit)]
=============================================================================
