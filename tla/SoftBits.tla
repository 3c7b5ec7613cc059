------------------------------ MODULE SoftBits ------------------------------
(***************************************************************************)
(* Symbols and soft bits: bits_to_symbol of apps/opv-mod.cpp, and the map   *)
(* llr<float, 4> of include/opvcxx/Util.h that the demodulator applies to   *)
(* each sample.  A sample is measured in fourteenths of the distance        *)
(* between +1 and 0, the thresholds of the map in sevenths.                 *)
(***************************************************************************)
EXTENDS Integers

Limit == 7                     \* llr_limit<4>()
MapSize == 6 * Limit + 1       \* llr_size<4>()

\* Dibits are pairs of bits; symbols are +3, +1, -1, -3.
Dibits == {<<0, 0>>, <<0, 1>>, <<1, 0>>, <<1, 1>>}
SymbolOf(dibit) ==
  CASE dibit = <<0, 0>> -> 1 [] dibit = <<0, 1>> -> 3
    [] dibit = <<1, 0>> -> -1 [] dibit = <<1, 1>> -> -3

\* One step down (never 0, at least -Limit) and one up (never 0, at most Limit).
DownThroughZero(v) == IF v <= -Limit THEN -Limit ELSE v - 1
StepDown(v) == IF v = 1 THEN -1 ELSE IF v = -Limit THEN -Limit ELSE v - 1
StepUp(v) == IF v = -1 THEN 1 ELSE IF v = Limit THEN Limit ELSE v + 1

\* make_llr_map.  Entry n has the threshold (n - 20)/7.  k is the sum of n+1
\* increments in single precision, which is a hair less than that at -1 and at +1:
\* k + 1 < 0 also holds for entry 13, and k - 1 < 0 for entry 27.
Threshold(n) == n - 3 * Limit + 1
LlrMap ==
  LET entry[n \in 0..MapSize-1] ==
        IF n = 0 THEN <<Limit, Limit>>
        ELSE LET e == entry[n-1]
             IN  CASE Threshold(n-1) <= -Limit -> <<e[1], StepDown(e[2])>>
                   [] Threshold(n-1) \in (1-Limit)..Limit -> <<StepDown(e[1]), e[2]>>
                   [] OTHER -> <<e[1], StepUp(e[2])>>
  IN  entry

\* llr: the entry of the first threshold that is not below the sample, which is
\* limited to -3..3; the last entry for a sample above all of them.
Clamped(sample) == IF sample > 42 THEN 42 ELSE IF sample < -42 THEN -42 ELSE sample
Llr(sample) ==
  LET s == Clamped(sample)
      above == {n \in 0..MapSize-1 : 2 * Threshold(n) > s}
  IN  IF above = {} THEN LlrMap[MapSize-1]
      ELSE LlrMap[CHOOSE n \in above : \A m \in above : n <= m]
=============================================================================
