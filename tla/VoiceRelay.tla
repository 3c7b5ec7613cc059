----------------------------- MODULE VoiceRelay -----------------------------
(***************************************************************************)
(* What opv-mod promises in voice mode, whatever its threads, its queue and *)
(* its buffers are: samples are taken while it is open, no more than two    *)
(* frames of them are on their way, and they are put out in the order they  *)
(* came in, in full frames, until the rest of them and a last frame without *)
(* samples end the transmission.  OpvMod implements it.                     *)
(***************************************************************************)
EXTENDS Integers, Sequences

CONSTANT FrameSize

VARIABLES given,     \* samples taken so far; they are numbered from 1
          inFlight,  \* samples on their way
          out,       \* frames put out: their samples, and whether they are marked last
          open,      \* samples are being taken
          over,      \* the last frame has been put out
          stalled    \* there was a pause in the input that was too long

relayVars == <<given, inFlight, out, open, over, stalled>>

Frame(samples, isLast) == [samples |-> samples, last |-> isLast]

Init ==
  /\ given = 0 /\ inFlight = <<>> /\ out = <<>>
  /\ open = TRUE /\ over = FALSE /\ stalled = FALSE

Take ==
  /\ open
  /\ Len(inFlight) < 2 * FrameSize
  /\ given' = given + 1
  /\ inFlight' = Append(inFlight, given + 1)
  /\ UNCHANGED <<out, open, over, stalled>>

\* A sample finds no room for so long that no more are taken; there may be room again
\* by the time it is given up.
Refuse ==
  /\ open /\ open' = FALSE
  /\ stalled
  /\ given' = given + 1
  /\ UNCHANGED <<inFlight, out, over, stalled>>

Close ==
  /\ open /\ open' = FALSE
  /\ UNCHANGED <<given, inFlight, out, over, stalled>>

PutOut ==
  /\ ~over
  /\ Len(inFlight) >= FrameSize
  /\ out' = Append(out, Frame(SubSeq(inFlight, 1, FrameSize), FALSE))
  /\ inFlight' = SubSeq(inFlight, FrameSize + 1, Len(inFlight))
  /\ UNCHANGED <<given, open, over, stalled>>

\* All that is left, which is less than a frame; after a pause, the samples that came
\* in since may be left behind.
Finish ==
  /\ ~over /\ over' = TRUE
  /\ \E n \in 0..FrameSize-1 :
       /\ n <= Len(inFlight)
       /\ stalled \/ (~open /\ n = Len(inFlight))
       /\ out' = out \o (IF n = 0 THEN <<>> ELSE <<Frame(SubSeq(inFlight, 1, n), FALSE)>>)
                     \o <<Frame(<<>>, TRUE)>>
       /\ inFlight' = SubSeq(inFlight, n + 1, Len(inFlight))
  /\ UNCHANGED <<given, open, stalled>>

Pause ==
  /\ ~stalled /\ stalled' = TRUE
  /\ UNCHANGED <<given, inFlight, out, open, over>>

Next == Take \/ Refuse \/ Close \/ PutOut \/ Finish \/ Pause
Spec == Init /\ [][Next]_relayVars
=============================================================================
