----------------------------- MODULE MCOpvDemod -----------------------------
(* OpvDemod for TLC: a test and a voice transmission by two stations, whose
   callsigns differ in the first character only. *)
EXTENDS OpvDemod

Call(s) == [n \in 1..CallLength |-> IF n <= Len(s) THEN s[n] ELSE Nul]

MCTransmissions ==
  {[bert |-> TRUE, call |-> Call(<<23, 24, 36, 15>>), token |-> 1],
   [bert |-> FALSE, call |-> Call(<<11, 24, 36, 15>>), token |-> 2]}

MCVoicePayloads == {[i \in 1..PayloadBits |-> 0], [i \in 1..PayloadBits |-> i % 2]}
=============================================================================
