----------------------------- MODULE DemodLink -----------------------------
(***************************************************************************)
(* The demodulator on a transmission: a preamble of one frame, then frames  *)
(* that follow one another, received with a steady clock and no noise but   *)
(* what makes a sync word be missed.  The demodulator knows nothing of      *)
(* `pos`, where in the frame the transmitter is; the correlations and the   *)
(* clock estimate are what the signal at pos can give.                      *)
(***************************************************************************)
EXTENDS Demodulator

CONSTANT Phases     \* where in the correlator's index the symbols may have their centre

ASSUME LinkAssumption ==
  /\ Phases \subseteq Indexes
  /\ 2 * SPS < SamplesPerFrame

VARIABLES
  segment,        \* what is being transmitted: "preamble", then "stream"
  pos,            \* the sample of that frame: symbol j has its centre at j * SPS
  heard,          \* this frame's sync word is above the threshold
  missed,         \* sync words in a row that were not, counted up to MaxMissing
  fakes           \* frames in a row received on an old sync word, up to MaxMissing

linkVars == <<segment, pos, heard, missed, fakes>>
allVars == <<vars, linkVars>>

FirstPayload == SyncSymbols                     \* the symbol after the sync word
LastSync == SyncSymbols - 1

\* Sample q is at the centre of symbol j or next to it.
At(q, j) == q - j * SPS \in -1..1

\* Where in the correlator's index the centres are.
Phase == (index - pos) % SPS

\* The correlator has just been switched on by dcd_on, somewhere in the preamble and
\* with its index wherever it was left.  What was received before may have left a
\* trigger of preamble_sync, a request to the clock and any sample index; not, however,
\* a trigger or a timing index of stream_sync, with which Aligned does not hold.
LinkInit ==
  /\ index \in Indexes /\ clockPhase = (index + 1) % SPS
  /\ preTrig \in {{}} \cup {{i} : i \in Indexes}
  /\ strTrig = {} /\ strTiming = 0
  /\ demodState = "UNLOCKED"
  /\ sampleIndex \in Indexes /\ syncSampleIndex = sampleIndex
  /\ syncCount = 0 /\ missing = 0
  /\ needClockReset = TRUE /\ needClockUpdate \in BOOLEAN
  /\ dcd = TRUE /\ carrier = TRUE /\ count = 0
  /\ framer = 0 /\ costCount = 0
  /\ cobsFresh = FALSE
  /\ segment = "preamble" /\ pos \in 0..SPS-1 /\ Phase \in Phases
  /\ heard = TRUE /\ missed = 0 /\ fakes = 0

-----------------------------------------------------------------------------
\* The signal at the next sample.
nextPos == (pos + 1) % SamplesPerFrame
nextSegment == IF nextPos = 0 THEN "stream" ELSE segment

\* The preamble's symbols alternate: every second one correlates positively, once
\* the correlator is full of them.
PreambleHeard ==
  /\ nextSegment = "preamble"
  /\ \E j \in LastSync..PeriodSymbols-1 : j % 2 = LastSync % 2 /\ At(nextPos, j)

SyncHeard == nextSegment = "stream" /\ heard /\ At(nextPos, LastSync)

\* The clock's estimate is a sample off at most.
Estimates == {(Phase + d) % SPS : d \in {-1, 0, 1}}
LinkIndexes ==
  IF ClockUpdates THEN {Adjusted(k) : k \in Estimates} ELSE {sampleIndex}

\* A frame's sync word is heard or not; the first one is heard.
NextFrame ==
  IF nextPos # 0 THEN UNCHANGED <<heard, missed>>
  ELSE \/ heard' = TRUE /\ missed' = 0
       \/ /\ segment = "stream"
          /\ heard' = FALSE
          /\ missed' = IF missed < MaxMissing THEN missed + 1 ELSE missed

\* A frame begins on a detected sync word, or on an old one.
CountFakes ==
  fakes' =
    IF demodState = "FRAME" \/ demodState' # "FRAME" THEN fakes
    ELSE IF demodState # "STREAM_SYNC" \/ missing' = 0 THEN 0
    ELSE IF fakes < MaxMissing THEN fakes + 1 ELSE fakes

LinkNext ==
  /\ segment' = nextSegment
  /\ pos' = nextPos
  /\ \E si \in LinkIndexes : Sample(PreambleHeard, SyncHeard, si)
  /\ carrier' = TRUE
  /\ NextFrame
  /\ CountFakes

LinkSpec == LinkInit /\ [][LinkNext]_allVars
FairLinkSpec == LinkSpec /\ WF_allVars(LinkNext)

-----------------------------------------------------------------------------
\* Every symbol the framer takes is the symbol of the frame it is taken for, with
\* the sync word just heard as well as several frames after the last one that was:
\* "We have frame timing, thanks to the STREAM syncword." (OPVDemodulator.h:430).
Aligned ==
  [][framer' # framer => At(nextPos, FirstPayload + framer)]_allVars

\* Frames are given up only when MaxMissing sync words in a row were not above the
\* threshold, never because the window, the trigger or the counters were in the
\* wrong state for one that was.
KeepsTracking ==
  [][demodState = "STREAM_SYNC" /\ demodState' = "FIRST_SYNC"
       => missed >= MaxMissing]_allVars

\* At most MaxMissing-1 frames in a row are received on an old sync word: "if that
\* happens too many times, we assume that we've lost synchronization with the
\* signal" (OPVDemodulator.h:385-386).
FreewheelingBounded == demodState = "FRAME" => fakes < MaxMissing

\* As long as sync words keep being heard now and then, frames keep being received:
\* no state of the search (a preamble awaited that will not come, a window missed,
\* an end of stream with nothing after it) is one the demodulator stays in.
ReachesFrames == []<>heard => []<>(demodState = "FRAME" /\ framer # 0)
=============================================================================
