---------------------------- MODULE Demodulator ----------------------------
(***************************************************************************)
(* OPVDemodulator.h: acquisition and tracking of frames, one action per     *)
(* sample handed to operator().  The signal processing is abstracted to     *)
(* what the control depends on: whether each sync word's correlation is     *)
(* above its threshold at this sample, which index the clock recovery       *)
(* estimates, whether the carrier detector sees a carrier, and what the     *)
(* frame decoder answers.  The model starts when `initializing` has run out. *)
(***************************************************************************)
EXTENDS Integers, FiniteSets

CONSTANTS
  SPS,            \* samples per symbol (10)
  SyncSymbols,    \* symbols in a sync word (8)
  FrameSymbols,   \* symbols in a frame after the sync word (1076)
  MaxMissing,     \* MAX_MISSING_SYNC (8)
  CostLimit,      \* cost_count above which the signal is given up (75)
  IdlePeriod,     \* samples between carrier checks without a carrier (2168)
  ActivePeriod,   \* samples between carrier checks with one (5420)
  Width,          \* bound: indexes a correlation is above its threshold at
  Results,        \* answers of the frame decoder that occur: OK, EOS
  CostSteps       \* what a frame adds to cost_count; 0 resets it

ASSUME DemodAssumption ==
  /\ SPS \in Nat /\ SPS >= 4
  /\ MaxMissing <= SyncSymbols + FrameSymbols
  /\ {SyncSymbols, FrameSymbols, MaxMissing, IdlePeriod, ActivePeriod, Width} \subseteq Nat \ {0}
  /\ CostLimit \in Nat
  /\ Results \subseteq {"OK", "EOS"}
  /\ CostSteps \subseteq 0..3

Indexes == 0..SPS-1
PeriodSymbols == SyncSymbols + FrameSymbols       \* baseband_frame_symbols
SamplesPerFrame == PeriodSymbols * SPS

\* The window of do_stream_sync, in samples since the last symbol of the frame:
\* a detection counts after WindowOpens (70) and is given up after WindowCloses (87).
WindowOpens == (SyncSymbols - 1) * SPS
WindowClosesLate == (SyncSymbols + 2) * SPS - 3
WindowCloses == (SyncSymbols + 1) * SPS - 3

VARIABLES
  index,          \* correlator.index()
  preTrig,        \* preamble_sync: the indexes triggered since it last was not,
  strTrig,        \*   none when triggered_ is false; the same of stream_sync
  strTiming,      \* timing_index_ of stream_sync
  demodState, sampleIndex, syncSampleIndex,
  syncCount, missing,
  needClockReset, needClockUpdate,
  dcd,            \* dcd_: what the demodulator last took over from the detector
  carrier,        \* dcd.dcd(): what the detector last decided
  count,          \* count_
  framer,         \* symbols in the framer
  costCount,      \* the static cost_count of do_frame
  clockPhase,     \* clock_recovery.index_
  cobsFresh       \* history: cobs_decoder.reset() was called since frames are tracked

vars == <<index, preTrig, strTrig, strTiming, demodState, sampleIndex,
          syncSampleIndex, syncCount, missing, needClockReset, needClockUpdate, dcd,
          carrier, count, framer, costCount, clockPhase, cobsFresh>>

Init ==
  /\ index = SPS - 1
  /\ preTrig = {} /\ strTrig = {} /\ strTiming = 0
  /\ demodState = "UNLOCKED" /\ sampleIndex = 0 /\ syncSampleIndex = 0
  /\ syncCount = 0 /\ missing = 0
  /\ needClockReset = FALSE /\ needClockUpdate = FALSE
  /\ dcd = FALSE /\ carrier = FALSE /\ count = 0
  /\ framer = 0 /\ costCount = 0
  /\ clockPhase = 0
  /\ cobsFresh = FALSE

-----------------------------------------------------------------------------
(***************************************************************************)
(* Without a carrier only the detector runs, and now and then is consulted; *)
(* the correlator, the clock and the framer stand still.                    *)
(***************************************************************************)
KeepsFramer == framer' = framer
ResetsFramer == framer' = 0

\* dcd_on, and the clock reset update_dcd asks for with it.
CarrierFound ==
  /\ dcd' = TRUE
  /\ syncCount' = 0 /\ missing' = 0
  /\ ResetsFramer
  /\ needClockReset' = TRUE

IdleSample ==
  /\ ~dcd
  /\ IF (count + 1) % IdlePeriod = 0
     THEN /\ count' = 0
          /\ carrier' \in BOOLEAN
          /\ IF carrier
             THEN CarrierFound
             ELSE UNCHANGED <<dcd, syncCount, missing, framer, needClockReset>>
     ELSE /\ count' = count + 1
          /\ UNCHANGED <<carrier, dcd, syncCount, missing, framer, needClockReset>>
  /\ UNCHANGED <<index, preTrig, strTrig, strTiming, demodState, sampleIndex,
                 syncSampleIndex, needClockUpdate, costCount, clockPhase, cobsFresh>>

-----------------------------------------------------------------------------
(***************************************************************************)
(* With a carrier: the correlator and the clock first.                      *)
(***************************************************************************)
now == (index + 1) % SPS               \* correlator.index() after this sample

ClockUpdates == now = 0 /\ ~needClockReset /\ needClockUpdate

\* What update() leaves as the sample index when the clock estimate is k: one step
\* away at most, around the circle, or the sync word's own index, or no change.
NextTo(i, k) == (i - k) \in {-1, 0, 1, SPS-1, 1-SPS}
Adjusted(k) ==
  IF NextTo(sampleIndex, k) THEN k
  ELSE IF NextTo(sampleIndex, syncSampleIndex) THEN syncSampleIndex
  ELSE sampleIndex

SampleIndexes ==
  IF ClockUpdates THEN {Adjusted(k) : k \in Indexes} ELSE {sampleIndex}

\* At index 0 the clock recovery is reset or updated; then it takes the sample.
ResetsAfterSample ==
  clockPhase' = IF now = 0 /\ needClockReset THEN 0 ELSE (clockPhase + 1) % SPS
ClockStep ==
  clockPhase' = IF now = 0 /\ needClockReset THEN 1 ELSE (clockPhase + 1) % SPS

\* The carrier is found lost at the end of this sample's processing.
Checks == (count + 1) % ActivePeriod = 0
CarrierLost == Checks /\ ~carrier

CarrierStep ==
  /\ IF Checks THEN count' = 0 /\ carrier' \in BOOLEAN
     ELSE count' = count + 1 /\ UNCHANGED carrier
  /\ dcd' = ~CarrierLost

\* The state the handlers leave is overruled by dcd_off.
Goto(state) == demodState' = IF CarrierLost THEN "UNLOCKED" ELSE state

\* cobs_decoder.reset(), and not; what it leaves counts while frames are tracked.
Tracking == {"FRAME", "STREAM_SYNC"}
KeepsCobs == cobsFresh' = (cobsFresh /\ demodState' \in Tracking)
CobsReset == cobsFresh' = (demodState' \in Tracking)

\* SyncWord::operator(): a trigger is an edge up; the edge down makes an update,
\* with the index at which the correlation was largest.
Triggers(trig, hit) == IF hit THEN trig \cup {now} ELSE {}
Updated(trig, hit) == ~hit /\ trig # {}
Narrow(trig, hit) == Cardinality(Triggers(trig, hit)) <= Width

StreamSyncCall(hit) ==
  /\ Narrow(strTrig, hit)
  /\ strTrig' = Triggers(strTrig, hit)
  /\ IF Updated(strTrig, hit) THEN strTiming' \in strTrig ELSE UNCHANGED strTiming

-----------------------------------------------------------------------------
(***************************************************************************)
(* The handlers.  p and s say the preamble's and the sync word's correlation *)
(* is above its threshold, si is the sample index after the clock step, and *)
(* ResetLeft and UpdateLeft what that step left of the requests to the clock. *)
(***************************************************************************)
ResetLeft == needClockReset /\ now # 0
UpdateLeft == needClockUpdate /\ ~ClockUpdates

LockOnKeepsMissing(i) ==
  /\ sampleIndex' = i
  /\ syncSampleIndex' = i
  /\ syncCount' = 0 /\ missing' = missing
  /\ needClockReset' = TRUE

\* What a sync word just accepted at index i sets, with the demodulator unlocked.
LockOn(i) ==
  /\ sampleIndex' = i
  /\ syncSampleIndex' = i
  /\ syncCount' = 0 /\ missing' = 0
  /\ needClockReset' = TRUE

StaysUnlocked(si) ==
  /\ sampleIndex' = si
  /\ needClockReset' = ResetLeft
  /\ UNCHANGED <<syncSampleIndex, syncCount>>

SampleNotCounted == missing' = missing
CountsSample == missing' = missing + 1

\* do_unlocked for the first frame's time, when a preamble is expected.
SeekPreamble(p, si) ==
  /\ demodState = "UNLOCKED"
  /\ missing < SamplesPerFrame
  /\ Narrow(preTrig, p)
  /\ preTrig' = Triggers(preTrig, p)
  /\ \/ /\ Updated(preTrig, p)
        /\ \E i \in preTrig : LockOn(i)
        /\ Goto("FIRST_SYNC")
     \/ /\ ~Updated(preTrig, p)
        /\ StaysUnlocked(si)
        /\ CountsSample
        /\ Goto("UNLOCKED")
  /\ needClockUpdate' = UpdateLeft
  /\ KeepsCobs
  /\ UNCHANGED <<strTrig, strTiming, framer, costCount>>

\* do_unlocked from then on.
SeekStream(s, si) ==
  /\ demodState = "UNLOCKED"
  /\ missing >= SamplesPerFrame
  /\ StreamSyncCall(s)
  /\ \/ /\ Updated(strTrig, s)
        /\ LockOn(strTiming')
        /\ Goto("FRAME")
        /\ CobsReset
     \/ /\ ~Updated(strTrig, s)
        /\ StaysUnlocked(si)
        /\ Goto("UNLOCKED")
        /\ KeepsCobs
        /\ UNCHANGED <<missing>>
  /\ needClockUpdate' = UpdateLeft
  /\ UNCHANGED <<preTrig, framer, costCount>>

\* do_first_sync.  It only asks whether the correlations are above threshold now:
\* the triggers do not move.
FindsFirstSync(p, s, si) ==
  /\ now = si /\ ~p /\ s
  /\ missing' = 0
  /\ needClockUpdate' = TRUE
  /\ syncSampleIndex' = si
  /\ Goto("FRAME")
  /\ CobsReset

MissesFirstSync(p, s, si) ==
  /\ now = si /\ ~p /\ ~s
  /\ IF missing + 1 > PeriodSymbols
     THEN missing' = 0 /\ Goto("UNLOCKED") /\ UNCHANGED syncSampleIndex
     ELSE missing' = missing + 1 /\ Goto("FIRST_SYNC") /\ syncSampleIndex' = si
  /\ needClockUpdate' = UpdateLeft
  /\ KeepsCobs

\* Between symbols, or while the preamble lasts.
WaitsForFirstSync(p, si) ==
  /\ now # si \/ p
  /\ Goto("FIRST_SYNC")
  /\ needClockUpdate' = UpdateLeft
  /\ KeepsCobs
  /\ UNCHANGED <<missing, syncSampleIndex>>

SeekFirstSync(p, s, si) ==
  /\ demodState = "FIRST_SYNC"
  /\ \/ FindsFirstSync(p, s, si)
     \/ MissesFirstSync(p, s, si)
     \/ WaitsForFirstSync(p, si)
  /\ sampleIndex' = si
  /\ needClockReset' = ResetLeft
  /\ UNCHANGED <<preTrig, strTrig, strTiming, syncCount, framer, costCount>>

-----------------------------------------------------------------------------
\* do_stream_sync: a detection in the window, one too early to be the sync word,
\* and none by the end of the window.
Detects(s) ==
  /\ Updated(strTrig, s)
  /\ missing' = 0
  /\ IF syncCount' > WindowOpens
     THEN syncSampleIndex' = strTiming' /\ Goto("FRAME")
     ELSE Goto("STREAM_SYNC") /\ UNCHANGED <<syncSampleIndex>>

GivesUpEarly == missing' >= MaxMissing - 1
GivesUpLate == missing' > MaxMissing
GivesUp == missing' >= MaxMissing

MissesSync(s) ==
  /\ ~Updated(strTrig, s)
  /\ syncCount' > WindowCloses
  /\ missing' = missing + 1
  /\ syncSampleIndex' = strTiming'
  /\ IF GivesUp
     THEN Goto("FIRST_SYNC")
     ELSE Goto("FRAME")

StillAwaits(s) ==
  /\ ~Updated(strTrig, s)
  /\ syncCount' <= WindowCloses
  /\ Goto("STREAM_SYNC")
  /\ UNCHANGED <<missing, syncSampleIndex>>

AwaitStreamSync(s, si) ==
  /\ demodState = "STREAM_SYNC"
  /\ StreamSyncCall(s)
  /\ syncCount' = syncCount + 1
  /\ Detects(s) \/ MissesSync(s) \/ StillAwaits(s)
  /\ KeepsCobs
  /\ sampleIndex' = si
  /\ needClockReset' = ResetLeft /\ needClockUpdate' = UpdateLeft
  /\ UNCHANGED <<preTrig, framer, costCount>>

-----------------------------------------------------------------------------
\* do_frame: the symbol at the sample index goes to the framer, and the last one
\* has the frame decoded.
BetweenSymbols(si) ==
  /\ now # si
  /\ Goto("FRAME")
  /\ needClockUpdate' = UpdateLeft
  /\ UNCHANGED <<framer, costCount, syncCount>>

TakesSymbol(si) ==
  /\ now = si
  /\ framer + 1 < FrameSymbols
  /\ framer' = framer + 1
  /\ Goto("FRAME")
  /\ needClockUpdate' = UpdateLeft
  /\ UNCHANGED <<costCount, syncCount>>

KeepsSyncCount == syncCount' = syncCount
ClearsSyncCount == syncCount' = 0

CostAfter(step) == IF step = 0 THEN 0 ELSE costCount + step

\* cost > CostLimit gives the signal up, without touching the sync counters;
\* otherwise the end of a stream or the next sync word is awaited.
CompletesFrame(si) ==
  /\ now = si
  /\ framer + 1 = FrameSymbols
  /\ framer' = 0
  /\ needClockUpdate' = TRUE
  /\ \E step \in CostSteps, result \in Results :
       IF CostAfter(step) > CostLimit
       THEN /\ costCount' = 0
            /\ Goto("UNLOCKED")
            /\ UNCHANGED syncCount
       ELSE /\ costCount' = CostAfter(step)
            /\ ClearsSyncCount
            /\ Goto(IF result = "EOS" THEN "FIRST_SYNC" ELSE "STREAM_SYNC")

ReceiveFrame(si) ==
  /\ demodState = "FRAME"
  /\ BetweenSymbols(si) \/ TakesSymbol(si) \/ CompletesFrame(si)
  /\ KeepsCobs
  /\ sampleIndex' = si
  /\ needClockReset' = ResetLeft
  /\ UNCHANGED <<preTrig, strTrig, strTiming, syncSampleIndex, missing>>

-----------------------------------------------------------------------------
\* operator() with a carrier: one sample.
Sample(p, s, si) ==
  /\ dcd
  /\ index' = now
  /\ ClockStep
  /\ CarrierStep
  /\ \/ SeekPreamble(p, si)
     \/ SeekStream(s, si)
     \/ SeekFirstSync(p, s, si)
     \/ AwaitStreamSync(s, si)
     \/ ReceiveFrame(si)

Next ==
  \/ IdleSample
  \/ \E p, s \in BOOLEAN, si \in SampleIndexes : Sample(p, s, si)

Spec == Init /\ [][Next]_vars

-----------------------------------------------------------------------------
(***************************************************************************)
(* Properties                                                               *)
(***************************************************************************)

\* Every variable holds a value of its kind: the two indexes stay indexes, and no
\* counter passes the bound at which the code acts on it.
TypeOK ==
  /\ index \in Indexes /\ clockPhase \in Indexes /\ strTiming \in Indexes
  /\ sampleIndex \in Indexes /\ syncSampleIndex \in Indexes
  /\ preTrig \subseteq Indexes /\ strTrig \subseteq Indexes
  /\ demodState \in {"UNLOCKED", "FIRST_SYNC", "STREAM_SYNC", "FRAME"}
  /\ syncCount \in 0..WindowCloses+1
  /\ missing \in 0..SamplesPerFrame
  /\ needClockReset \in BOOLEAN /\ needClockUpdate \in BOOLEAN
  /\ dcd \in BOOLEAN /\ carrier \in BOOLEAN /\ cobsFresh \in BOOLEAN
  /\ count \in Nat
  /\ framer \in 0..FrameSymbols-1
  /\ costCount \in 0..CostLimit

\* Symbols wait in the framer only while a frame is received: whatever way a frame
\* was abandoned (the carrier lost in the middle of it), none of its symbols is in
\* front of the next frame's.
FramerCoherent ==
  /\ dcd /\ framer # 0 => demodState = "FRAME"
  /\ ~dcd => demodState = "UNLOCKED"

\* The precondition of ClockRecovery::update(), index_ = 0, holds whenever it is
\* called: the clock was never started at another place in the symbol than the
\* correlator, so an estimate is never silently skipped nor off by a phase.
ClockUpdatePrecondition == dcd /\ ClockUpdates => clockPhase = 0

\* However tracking began (a preamble and a sync word, a sync word alone, a second
\* stream after an end of stream), the COBS decoder was reset for it: bytes of the
\* transmission before never begin a packet of this one.
CobsResetBeforeFrames == demodState \in Tracking => cobsFresh

\* What missing_sync_count counts: samples in which a preamble is missed, symbols that are
\* neither preamble nor sync word, missed sync words while tracking.
Counted ==
  IF ~dcd THEN "nothing"
  ELSE IF demodState \in Tracking THEN "frames"
  ELSE IF demodState = "FIRST_SYNC" THEN "symbols" ELSE "samples"

\* The code does not clear missing_sync_count whenever what it counts changes: an end of
\* stream and sync words given up leave the missed frames to the search for a first sync word,
\* too high a cost leaves them to that for a preamble.  But only a count of frames is ever
\* carried over, and it is at most MaxMissing, so that these searches are that many symbols
\* or samples shorter at most; a search begun otherwise begins from 0.  Within a search
\* the count never goes back, and it goes on by ones.
OnlyMissedFramesCarriedOver ==
  [][/\ Counted' = Counted =>
          \/ missing' \in {missing, missing + 1}
          \/ Counted = "frames" /\ missing' = 0
     /\ Counted' # Counted =>
          \/ Counted' = "nothing" \/ missing' = 0
          \/ /\ Counted = "frames"
             /\ missing' <= IF Counted' = "samples" THEN MaxMissing - 1 ELSE MaxMissing]_vars

\* The search for a sync word is over when its window closes, whatever the
\* detections in it; no other state leaves sync_count where a search would go on.
WindowEndsSearch == demodState = "STREAM_SYNC" => syncCount <= WindowCloses
=============================================================================
