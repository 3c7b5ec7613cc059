------------------------- MODULE DemodulatorProofs -------------------------
(***************************************************************************)
(* Theorems about the demodulator.                                          *)
(*                                                                          *)
(* First about Demodulator: whatever the signal does, for every size of     *)
(* symbol, sync word and frame and every limit.  These rest on              *)
(* DemodAssumption alone.                                                   *)
(*                                                                          *)
(* Then about DemodLink, the demodulator on a transmission: every symbol    *)
(* taken is the symbol it is taken for, tracking is given up for missed     *)
(* sync words only, and no more than MaxMissing-1 frames are received on an *)
(* old one. All three follow from one inductive invariant, LinkInv, that    *)
(* says where in the frame the transmitter is in each state of the          *)
(* demodulator: the samples left to the next symbol while a frame is        *)
(* received, and the place of the window while a sync word is awaited.      *)
(*                                                                          *)
(* WellPhased gives the program's numbers of samples and sync symbols, on   *)
(* which the window's bounds depend, and the phases at which a sample off   *)
(* does not cross the end of the correlator's index, for which alone the    *)
(* properties hold.  The length of a frame, the limit on missed sync words  *)
(* and the limit on the cost are any numbers.                               *)
(***************************************************************************)
EXTENDS DemodLink, TLAPS

\* The clock was started at index 0 and has taken every sample since.
ClockInStep == clockPhase = (index + 1) % SPS

\* While frames are tracked missing_sync_count is below the limit on missed sync words, and
\* while a first sync word is looked for it is below the length of that search.
MissingInRange ==
  /\ demodState \in Tracking => missing < MaxMissing
  /\ demodState = "FIRST_SYNC" => missing <= PeriodSymbols

\* The inductive invariant.  The counters' bounds need to know which of the three
\* searches missing_sync_count counts for, the framer's needs that a lost carrier
\* leaves the demodulator unlocked, and the clock's precondition the phase it has
\* between two index zeros.
Control == FramerCoherent /\ CobsResetBeforeFrames /\ MissingInRange /\ WindowEndsSearch
IInv == TypeOK /\ Control /\ ClockInStep

-----------------------------------------------------------------------------
\* The bounds the code computes from its parameters, in the order it needs them.
LEMMA Sizes ==
  /\ PeriodSymbols \in Nat /\ SamplesPerFrame \in Nat
  /\ MaxMissing <= PeriodSymbols /\ PeriodSymbols <= SamplesPerFrame
  /\ WindowOpens \in Nat /\ WindowCloses \in Nat /\ WindowOpens <= WindowCloses
<1>1. SPS \in Nat /\ SPS >= 4 /\ SyncSymbols \in Nat \ {0} /\ FrameSymbols \in Nat \ {0}
      /\ MaxMissing \in Nat \ {0} /\ MaxMissing <= SyncSymbols + FrameSymbols
  BY DemodAssumption
<1>2. ASSUME NEW n \in Nat PROVE n * SPS \in Nat /\ n <= n * SPS
  BY <1>1
<1>3. PeriodSymbols \in Nat /\ SamplesPerFrame \in Nat
      /\ MaxMissing <= PeriodSymbols /\ PeriodSymbols <= SamplesPerFrame
  BY <1>1, <1>2 DEF PeriodSymbols, SamplesPerFrame
<1>4. (SyncSymbols + 1) * SPS = (SyncSymbols - 1) * SPS + 2 * SPS
  BY <1>1
<1>5. (SyncSymbols - 1) * SPS \in Nat
  BY <1>1, <1>2
<1>6. QED
  BY <1>1, <1>3, <1>4, <1>5 DEF WindowOpens, WindowCloses

\* The clock step leaves the sample index an index.
LEMMA IndexesOnly == IInv => SampleIndexes \subseteq Indexes
BY DEF IInv, TypeOK, SampleIndexes, Adjusted

\* Correlator and clock keep step: both advance by one, and a reset at index 0
\* puts the clock where it already is.
LEMMA ClockKeepsStep ==
  ASSUME IInv, index' = now, ClockStep
  PROVE  ClockInStep' /\ index' \in Indexes /\ clockPhase' \in Indexes
<1>1. SPS \in Nat /\ SPS >= 4 /\ index \in 0..SPS-1 /\ clockPhase = (index + 1) % SPS
  BY DemodAssumption DEF IInv, TypeOK, ClockInStep, Indexes
<1>2. now \in 0..SPS-1 /\ index' = now /\ clockPhase = now
  BY <1>1 DEF now
<1>3. clockPhase' = (now + 1) % SPS
  BY <1>1, <1>2 DEF ClockStep
<1>4. QED
  BY <1>1, <1>2, <1>3 DEF ClockInStep, Indexes

\* The carrier step keeps its types, and unlocks whatever the carrier is lost in.
LEMMA CarrierKeepsTypes ==
  ASSUME IInv, CarrierStep
  PROVE  dcd' \in BOOLEAN /\ carrier' \in BOOLEAN /\ count' \in Nat
BY DEF IInv, TypeOK, CarrierStep

-----------------------------------------------------------------------------
(***************************************************************************)
(* One lemma per handler.  Each gives the part of the invariant that is not *)
(* about the clock, the correlator and the carrier detector.                *)
(***************************************************************************)
HandlerTypes ==
  /\ preTrig \subseteq Indexes /\ strTrig \subseteq Indexes /\ strTiming \in Indexes
  /\ sampleIndex \in Indexes /\ syncSampleIndex \in Indexes
  /\ demodState \in {"UNLOCKED", "FIRST_SYNC", "STREAM_SYNC", "FRAME"}
  /\ syncCount \in 0..WindowCloses+1
  /\ missing \in 0..SamplesPerFrame
  /\ needClockReset \in BOOLEAN /\ needClockUpdate \in BOOLEAN /\ cobsFresh \in BOOLEAN
  /\ framer \in 0..FrameSymbols-1
  /\ costCount \in 0..CostLimit

\* What every handler starts from.
HandlerStarts(si) ==
  /\ HandlerTypes /\ Control
  /\ si \in Indexes /\ now \in Indexes
  /\ dcd = TRUE /\ dcd' = ~CarrierLost

LEMMA TriggersTyped ==
  ASSUME NEW trig \in SUBSET Indexes, NEW hit, now \in Indexes
  PROVE  Triggers(trig, hit) \subseteq Indexes
BY DEF Triggers

LEMMA StreamSyncTyped ==
  ASSUME NEW hit, StreamSyncCall(hit), HandlerTypes, now \in Indexes
  PROVE  strTrig' \subseteq Indexes /\ strTiming' \in Indexes
BY TriggersTyped DEF StreamSyncCall, Updated, HandlerTypes

\* A handler goes to the state it means to, or the carrier is lost and it is unlocked.
LEMMA Landing ==
  ASSUME NEW st, Goto(st), dcd' = ~CarrierLost
  PROVE  \/ demodState' = st /\ dcd' = TRUE
         \/ demodState' = "UNLOCKED" /\ dcd' = FALSE
BY DEF Goto, CarrierLost

\* What is left of the requests to the clock are truth values.
LEMMA RequestsTyped ==
  ASSUME HandlerTypes
  PROVE  ResetLeft \in BOOLEAN /\ UpdateLeft \in BOOLEAN
BY DEF HandlerTypes, ResetLeft, UpdateLeft

\* With or without a reset the history variable is a truth value.
LEMMA CobsTyped ==
  ASSUME cobsFresh \in BOOLEAN, KeepsCobs \/ CobsReset
  PROVE  cobsFresh' \in BOOLEAN
<1>1. CASE KeepsCobs
  BY <1>1 DEF KeepsCobs
<1>2. CASE CobsReset
  BY <1>2 DEF CobsReset
<1>3. QED BY <1>1, <1>2

\* Locking on to a sync word clears the counters.
LEMMA LockOnTyped ==
  ASSUME NEW i \in Indexes, LockOn(i)
  PROVE  /\ sampleIndex' \in Indexes /\ syncSampleIndex' \in Indexes
         /\ syncCount' \in 0..WindowCloses+1 /\ missing' \in 0..SamplesPerFrame
         /\ missing' = 0 /\ needClockReset' \in BOOLEAN
BY Sizes DEF LockOn

\* do_unlocked, the preamble.
LEMMA PreambleSearch ==
  ASSUME NEW p \in BOOLEAN, NEW si, HandlerStarts(si), SeekPreamble(p, si)
  PROVE  HandlerTypes' /\ Control'
<1>1. HandlerTypes /\ Control /\ si \in Indexes /\ now \in Indexes /\ dcd' = ~CarrierLost
  BY DEF HandlerStarts
<1>2. /\ preTrig' \subseteq Indexes /\ strTrig' \subseteq Indexes /\ strTiming' \in Indexes
      /\ framer' = 0 /\ costCount' \in 0..CostLimit
      /\ needClockUpdate' \in BOOLEAN /\ cobsFresh' \in BOOLEAN
  BY <1>1, TriggersTyped, RequestsTyped, CobsTyped
     DEF SeekPreamble, HandlerTypes, Control, FramerCoherent, HandlerStarts
<1>3. /\ sampleIndex' \in Indexes /\ syncSampleIndex' \in Indexes
      /\ syncCount' \in 0..WindowCloses+1 /\ missing' \in 0..SamplesPerFrame
      /\ needClockReset' \in BOOLEAN
  <2>1. CASE Updated(preTrig, p)
    <3>1. PICK i \in preTrig : LockOn(i)
      BY <2>1 DEF SeekPreamble
    <3>2. i \in Indexes
      BY <1>1 DEF HandlerTypes
    <3>3. QED BY <3>1, <3>2, LockOnTyped
  <2>2. CASE ~Updated(preTrig, p)
    <3>1. /\ sampleIndex' = si /\ syncSampleIndex' = syncSampleIndex
          /\ syncCount' = syncCount /\ missing' = missing + 1
          /\ missing < SamplesPerFrame
      BY <2>2 DEF SeekPreamble, StaysUnlocked, CountsSample
    <3>2. needClockReset' \in BOOLEAN
      BY <1>1, <2>2, RequestsTyped DEF SeekPreamble, StaysUnlocked
    <3>3. QED BY <1>1, <3>1, <3>2, Sizes DEF HandlerTypes
  <2>3. QED BY <2>1, <2>2
<1>4. /\ demodState' \in {"UNLOCKED", "FIRST_SYNC"}
      /\ dcd' # TRUE => demodState' = "UNLOCKED"
      /\ demodState' = "FIRST_SYNC" => missing' = 0
  BY <1>1, Landing DEF SeekPreamble, LockOn
<1>5. HandlerTypes'
  BY <1>2, <1>3, <1>4, DemodAssumption DEF HandlerTypes
<1>6. Control'
  <2>1. dcd' \in BOOLEAN /\ ~(demodState' \in Tracking) /\ demodState' # "STREAM_SYNC"
    BY <1>1, <1>4 DEF Tracking, CarrierLost
  <2>2. demodState' = "FIRST_SYNC" => missing' <= PeriodSymbols
    BY <1>4, Sizes
  <2>3. QED
    BY <1>2, <1>4, <2>1, <2>2
       DEF Control, FramerCoherent, CobsResetBeforeFrames, MissingInRange,
           WindowEndsSearch
<1>7. QED BY <1>5, <1>6

\* do_unlocked, the sync word.
LEMMA StreamSearch ==
  ASSUME NEW s \in BOOLEAN, NEW si, HandlerStarts(si), SeekStream(s, si)
  PROVE  HandlerTypes' /\ Control'
<1>1. HandlerTypes /\ Control /\ si \in Indexes /\ now \in Indexes /\ dcd' = ~CarrierLost
  BY DEF HandlerStarts
<1>2. /\ preTrig' \subseteq Indexes /\ strTrig' \subseteq Indexes /\ strTiming' \in Indexes
      /\ framer' = 0 /\ costCount' \in 0..CostLimit
      /\ needClockUpdate' \in BOOLEAN /\ cobsFresh' \in BOOLEAN
  BY <1>1, StreamSyncTyped, RequestsTyped, CobsTyped
     DEF SeekStream, HandlerTypes, Control, FramerCoherent, HandlerStarts
<1>3. CASE Updated(strTrig, s)
  <2>1. LockOn(strTiming') /\ Goto("FRAME") /\ CobsReset
    BY <1>3 DEF SeekStream
  <2>2. \/ demodState' = "FRAME" /\ dcd' = TRUE
        \/ demodState' = "UNLOCKED" /\ dcd' = FALSE
    BY <1>1, <2>1, Landing
  <2>3. HandlerTypes'
    BY <1>2, <2>1, <2>2, LockOnTyped, DemodAssumption DEF HandlerTypes
  <2>4. missing' < MaxMissing
    BY <1>2, <2>1, LockOnTyped, DemodAssumption
  <2>5. demodState' \in Tracking => cobsFresh'
    BY <2>1 DEF CobsReset
  <2>6. Control'
    BY <1>2, <2>2, <2>4, <2>5 DEF Control, FramerCoherent, CobsResetBeforeFrames,
       MissingInRange, WindowEndsSearch
  <2>7. QED BY <2>3, <2>6
<1>4. CASE ~Updated(strTrig, s)
  <2>1. StaysUnlocked(si) /\ Goto("UNLOCKED") /\ missing' = missing
    BY <1>4 DEF SeekStream
  <2>2. demodState' = "UNLOCKED" /\ dcd' \in BOOLEAN
    BY <1>1, <2>1, Landing
  <2>3. /\ sampleIndex' = si /\ syncSampleIndex' = syncSampleIndex
        /\ syncCount' = syncCount /\ needClockReset' \in BOOLEAN
    BY <1>1, <2>1, RequestsTyped DEF StaysUnlocked
  <2>4. HandlerTypes'
    BY <1>1, <1>2, <2>1, <2>2, <2>3, DemodAssumption DEF HandlerTypes
  <2>5. Control'
    BY <1>2, <2>2 DEF Control, FramerCoherent, CobsResetBeforeFrames,
       MissingInRange, WindowEndsSearch, Tracking
  <2>6. QED BY <2>4, <2>5
<1>5. QED BY <1>3, <1>4

\* do_first_sync.
LEMMA FirstSyncSearch ==
  ASSUME NEW p \in BOOLEAN, NEW s \in BOOLEAN, NEW si, HandlerStarts(si),
         SeekFirstSync(p, s, si)
  PROVE  HandlerTypes' /\ Control'
<1>1. HandlerTypes /\ Control /\ si \in Indexes /\ dcd' = ~CarrierLost
  BY DEF HandlerStarts
<1>2. /\ preTrig' = preTrig /\ strTrig' = strTrig /\ strTiming' = strTiming
      /\ framer' = 0 /\ costCount' = costCount /\ syncCount' = syncCount
      /\ sampleIndex' = si /\ needClockReset' \in BOOLEAN
      /\ missing <= PeriodSymbols
  BY <1>1, RequestsTyped
     DEF SeekFirstSync, Control, FramerCoherent, MissingInRange, HandlerStarts
<1>3. CASE FindsFirstSync(p, s, si)
  <2>1. /\ missing' = 0 /\ needClockUpdate' = TRUE /\ syncSampleIndex' = si
        /\ Goto("FRAME") /\ CobsReset
    BY <1>3 DEF FindsFirstSync
  <2>2. \/ demodState' = "FRAME" /\ dcd' = TRUE
        \/ demodState' = "UNLOCKED" /\ dcd' = FALSE
    BY <1>1, <2>1, Landing
  <2>3. /\ cobsFresh' \in BOOLEAN
        /\ demodState' \in Tracking => cobsFresh'
    <3>1. demodState' \in Tracking => cobsFresh'
      BY <2>1 DEF CobsReset
    <3>2. QED BY <1>1, <2>1, <3>1, CobsTyped DEF HandlerTypes
  <2>4. HandlerTypes'
    BY <1>1, <1>2, <2>1, <2>2, <2>3, Sizes, DemodAssumption DEF HandlerTypes
  <2>5. missing' < MaxMissing
    BY <2>1, DemodAssumption
  <2>6. Control'
    BY <1>2, <2>2, <2>3, <2>5 DEF Control, FramerCoherent, CobsResetBeforeFrames,
       MissingInRange, WindowEndsSearch
  <2>7. QED BY <2>4, <2>6
<1>4. CASE MissesFirstSync(p, s, si) \/ WaitsForFirstSync(p, si)
  <2>1. /\ needClockUpdate' \in BOOLEAN /\ cobsFresh' \in BOOLEAN
        /\ syncSampleIndex' \in Indexes
    BY <1>1, <1>4, RequestsTyped, CobsTyped
       DEF MissesFirstSync, WaitsForFirstSync, HandlerTypes
  <2>2. /\ Goto("UNLOCKED") \/ Goto("FIRST_SYNC")
        /\ missing' \in {0, missing, missing + 1}
        /\ missing' <= PeriodSymbols
    BY <1>1, <1>2, <1>4, Sizes DEF MissesFirstSync, WaitsForFirstSync, HandlerTypes
  <2>3. \/ demodState' = "FIRST_SYNC" /\ dcd' = TRUE
        \/ demodState' = "UNLOCKED" /\ dcd' \in BOOLEAN
    BY <1>1, <2>2, Landing
  <2>4. missing' \in 0..SamplesPerFrame
    BY <1>1, <2>2, Sizes DEF HandlerTypes
  <2>5. HandlerTypes'
    BY <1>1, <1>2, <2>1, <2>3, <2>4, DemodAssumption DEF HandlerTypes
  <2>6. Control'
    BY <1>2, <2>2, <2>3 DEF Control, FramerCoherent, CobsResetBeforeFrames,
       MissingInRange, WindowEndsSearch, Tracking
  <2>7. QED BY <2>5, <2>6
<1>5. QED BY <1>3, <1>4 DEF SeekFirstSync

\* do_stream_sync.
LEMMA SyncWindow ==
  ASSUME NEW s \in BOOLEAN, NEW si, HandlerStarts(si), AwaitStreamSync(s, si)
  PROVE  HandlerTypes' /\ Control'
<1>1. /\ HandlerTypes /\ Control /\ si \in Indexes /\ now \in Indexes
      /\ dcd' = ~CarrierLost /\ dcd = TRUE /\ demodState = "STREAM_SYNC"
  BY DEF HandlerStarts, AwaitStreamSync
<1>2. /\ framer = 0 /\ cobsFresh = TRUE /\ missing < MaxMissing
      /\ syncCount <= WindowCloses
  BY <1>1 DEF Control, FramerCoherent, CobsResetBeforeFrames, MissingInRange,
              WindowEndsSearch, Tracking, HandlerTypes
<1>3. /\ preTrig' \subseteq Indexes /\ strTrig' \subseteq Indexes /\ strTiming' \in Indexes
      /\ sampleIndex' \in Indexes
      /\ framer' = 0 /\ costCount' \in 0..CostLimit
      /\ needClockReset' \in BOOLEAN /\ needClockUpdate' \in BOOLEAN
  BY <1>1, <1>2, StreamSyncTyped, RequestsTyped DEF AwaitStreamSync, HandlerTypes
<1>4. syncCount' = syncCount + 1 /\ syncCount' \in 0..WindowCloses+1
  BY <1>1, <1>2, Sizes DEF AwaitStreamSync, HandlerTypes
<1>5. /\ cobsFresh' \in BOOLEAN
      /\ demodState' \in Tracking => cobsFresh'
  <2>1. KeepsCobs
    BY DEF AwaitStreamSync
  <2>2. QED BY <1>2, <2>1, CobsTyped DEF KeepsCobs
<1>6. /\ syncSampleIndex' \in Indexes
      /\ missing' \in Nat /\ missing' <= MaxMissing
      /\ \/ Goto("FRAME") /\ missing' < MaxMissing
         \/ Goto("STREAM_SYNC") /\ missing' < MaxMissing /\ syncCount' <= WindowCloses
         \/ Goto("FIRST_SYNC")
  <2>1. missing \in Nat /\ MaxMissing \in Nat \ {0} /\ syncSampleIndex \in Indexes
    BY <1>1, DemodAssumption DEF HandlerTypes
  <2>2. CASE Detects(s)
    <3>1. syncCount' <= WindowOpens => syncCount' <= WindowCloses
      BY <1>4, Sizes
    <3>2. ~(syncCount' > WindowOpens) => syncCount' <= WindowOpens
      BY <1>4, Sizes
    <3>3. QED BY <1>3, <2>1, <2>2, <3>1, <3>2 DEF Detects
  <2>3. CASE MissesSync(s)
    <3>1. missing' = missing + 1 /\ syncSampleIndex' = strTiming'
          /\ \/ GivesUp /\ Goto("FIRST_SYNC")
             \/ ~GivesUp /\ Goto("FRAME")
      BY <2>3 DEF MissesSync
    <3>2. QED BY <1>2, <1>3, <2>1, <3>1 DEF GivesUp
  <2>4. CASE StillAwaits(s)
    BY <1>2, <2>1, <2>4 DEF StillAwaits
  <2>5. QED BY <2>2, <2>3, <2>4 DEF AwaitStreamSync
<1>7. /\ demodState' \in {"UNLOCKED", "FIRST_SYNC", "STREAM_SYNC", "FRAME"}
      /\ demodState' = "UNLOCKED" \/ dcd' = TRUE
      /\ dcd' \in BOOLEAN
      /\ demodState' \in Tracking => missing' < MaxMissing
      /\ demodState' = "STREAM_SYNC" => syncCount' <= WindowCloses
  BY <1>1, <1>6, Landing DEF Tracking
<1>8. missing' \in 0..SamplesPerFrame /\ missing' <= PeriodSymbols
  BY <1>6, Sizes, DemodAssumption
<1>9. HandlerTypes'
  BY <1>3, <1>4, <1>5, <1>6, <1>7, <1>8, DemodAssumption DEF HandlerTypes
<1>10. Control'
  BY <1>3, <1>5, <1>7, <1>8 DEF Control, FramerCoherent, CobsResetBeforeFrames,
     MissingInRange, WindowEndsSearch
<1>11. QED BY <1>9, <1>10

\* do_frame.
LEMMA FrameReception ==
  ASSUME NEW si, HandlerStarts(si), ReceiveFrame(si)
  PROVE  HandlerTypes' /\ Control'
<1>1. /\ HandlerTypes /\ Control /\ si \in Indexes
      /\ dcd' = ~CarrierLost /\ demodState = "FRAME"
  BY DEF HandlerStarts, ReceiveFrame
<1>2. /\ cobsFresh = TRUE /\ missing < MaxMissing
  BY <1>1 DEF Control, CobsResetBeforeFrames, MissingInRange, Tracking, HandlerTypes
<1>3. /\ preTrig' = preTrig /\ strTrig' = strTrig /\ strTiming' = strTiming
      /\ sampleIndex' = si /\ syncSampleIndex' = syncSampleIndex /\ missing' = missing
      /\ needClockReset' \in BOOLEAN
  BY <1>1, RequestsTyped DEF ReceiveFrame
<1>4. /\ cobsFresh' \in BOOLEAN
      /\ demodState' \in Tracking => cobsFresh'
  <2>1. KeepsCobs
    BY DEF ReceiveFrame
  <2>2. QED BY <1>2, <2>1, CobsTyped DEF KeepsCobs
<1>5. /\ needClockUpdate' \in BOOLEAN
      /\ framer' \in 0..FrameSymbols-1
      /\ costCount' \in 0..CostLimit
      /\ syncCount' \in 0..WindowCloses+1
      /\ \/ Goto("FRAME")
         \/ Goto("UNLOCKED") /\ framer' = 0
         \/ Goto("FIRST_SYNC") /\ framer' = 0
         \/ Goto("STREAM_SYNC") /\ framer' = 0 /\ syncCount' = 0
  <2>1. /\ FrameSymbols \in Nat \ {0} /\ CostLimit \in Nat /\ CostSteps \subseteq 0..3
        /\ framer \in 0..FrameSymbols-1 /\ costCount \in 0..CostLimit
        /\ syncCount \in 0..WindowCloses+1
    BY <1>1, DemodAssumption DEF HandlerTypes
  <2>2. CASE BetweenSymbols(si) \/ TakesSymbol(si)
    <3>1. Goto("FRAME") /\ needClockUpdate' = UpdateLeft
          /\ costCount' = costCount /\ syncCount' = syncCount
      BY <2>2 DEF BetweenSymbols, TakesSymbol
    <3>2. framer' \in 0..FrameSymbols-1
      BY <2>1, <2>2 DEF BetweenSymbols, TakesSymbol
    <3>3. QED BY <1>1, <2>1, <3>1, <3>2, RequestsTyped
  <2>3. CASE CompletesFrame(si)
    <3>1. framer' = 0 /\ needClockUpdate' = TRUE
      BY <2>3 DEF CompletesFrame
    <3>2. PICK step \in CostSteps, result \in Results :
            IF CostAfter(step) > CostLimit
            THEN /\ costCount' = 0 /\ Goto("UNLOCKED") /\ syncCount' = syncCount
            ELSE /\ costCount' = CostAfter(step) /\ syncCount' = 0
                 /\ Goto(IF result = "EOS" THEN "FIRST_SYNC" ELSE "STREAM_SYNC")
      BY <2>3 DEF CompletesFrame, ClearsSyncCount
    <3>3. CostAfter(step) \in Nat
      BY <2>1 DEF CostAfter
    <3>4. costCount' \in 0..CostLimit /\ syncCount' \in 0..WindowCloses+1
      BY <2>1, <3>2, <3>3, Sizes
    <3>5. \/ Goto("UNLOCKED")
          \/ Goto("FIRST_SYNC")
          \/ Goto("STREAM_SYNC") /\ syncCount' = 0
      BY <3>2
    <3>6. QED BY <2>1, <3>1, <3>4, <3>5
  <2>4. QED BY <2>2, <2>3 DEF ReceiveFrame
<1>6. /\ demodState' \in {"UNLOCKED", "FIRST_SYNC", "STREAM_SYNC", "FRAME"}
      /\ demodState' = "UNLOCKED" \/ dcd' = TRUE
      /\ dcd' \in BOOLEAN
      /\ dcd' /\ framer' # 0 => demodState' = "FRAME"
      /\ demodState' = "STREAM_SYNC" => syncCount' <= WindowCloses
  <2>1. CASE Goto("FRAME")
    BY <1>1, <2>1, Landing
  <2>2. CASE Goto("UNLOCKED") /\ framer' = 0
    BY <1>1, <2>2, Landing
  <2>3. CASE Goto("FIRST_SYNC") /\ framer' = 0
    BY <1>1, <2>3, Landing
  <2>4. CASE Goto("STREAM_SYNC") /\ framer' = 0 /\ syncCount' = 0
    <3>1. syncCount' <= WindowCloses
      BY <2>4, Sizes
    <3>2. \/ demodState' = "STREAM_SYNC" /\ dcd' = TRUE
          \/ demodState' = "UNLOCKED" /\ dcd' = FALSE
      BY <1>1, <2>4, Landing
    <3>3. QED BY <2>4, <3>1, <3>2
  <2>5. QED BY <1>5, <2>1, <2>2, <2>3, <2>4
<1>7. /\ HandlerTypes'
  BY <1>1, <1>3, <1>4, <1>5, <1>6, DemodAssumption DEF HandlerTypes
<1>8. missing' <= PeriodSymbols
  BY <1>1, <1>2, <1>3, Sizes, DemodAssumption DEF HandlerTypes
<1>9. Control'
  BY <1>2, <1>3, <1>4, <1>6, <1>8 DEF Control, FramerCoherent, CobsResetBeforeFrames,
     MissingInRange, WindowEndsSearch
<1>10. QED BY <1>7, <1>9

-----------------------------------------------------------------------------
\* Without a carrier the demodulator stays unlocked, and a carrier found clears the
\* framer and the counters.
LEMMA IdleKeepsIInv ==
  ASSUME IInv, IdleSample
  PROVE  IInv'
<1>1. /\ TypeOK /\ Control /\ ClockInStep /\ ~dcd /\ demodState = "UNLOCKED"
  BY DEF IInv, Control, FramerCoherent, IdleSample
<1>2. /\ index' = index /\ clockPhase' = clockPhase /\ preTrig' = preTrig
      /\ strTrig' = strTrig /\ strTiming' = strTiming /\ demodState' = "UNLOCKED"
      /\ sampleIndex' = sampleIndex /\ syncSampleIndex' = syncSampleIndex
      /\ needClockUpdate' = needClockUpdate /\ costCount' = costCount
      /\ cobsFresh' = cobsFresh
  BY <1>1 DEF IdleSample
<1>3. /\ count' \in Nat /\ carrier' \in BOOLEAN
      /\ \/ /\ dcd' = TRUE /\ syncCount' = 0 /\ missing' = 0 /\ framer' = 0
            /\ needClockReset' = TRUE
         \/ /\ dcd' = dcd /\ syncCount' = syncCount /\ missing' = missing
            /\ framer' = framer /\ needClockReset' = needClockReset
  BY <1>1 DEF IdleSample, CarrierFound, ResetsFramer, TypeOK
<1>4. TypeOK'
  <2>1. /\ syncCount' \in 0..WindowCloses+1 /\ missing' \in 0..SamplesPerFrame
        /\ framer' \in 0..FrameSymbols-1
    BY <1>1, <1>3, Sizes, DemodAssumption DEF TypeOK
  <2>2. dcd' \in BOOLEAN /\ needClockReset' \in BOOLEAN
    BY <1>1, <1>3 DEF TypeOK
  <2>3. QED BY <1>1, <1>2, <1>3, <2>1, <2>2 DEF TypeOK
<1>5. Control'
  BY <1>1, <1>2, <1>3 DEF Control, FramerCoherent, CobsResetBeforeFrames,
     MissingInRange, WindowEndsSearch, Tracking
<1>6. ClockInStep'
  BY <1>1, <1>2 DEF ClockInStep
<1>7. QED BY <1>4, <1>5, <1>6 DEF IInv

\* A sample with a carrier: the clock, the carrier and one of the handlers.
LEMMA SampleKeepsIInv ==
  ASSUME IInv, NEW p \in BOOLEAN, NEW s \in BOOLEAN, NEW si \in SampleIndexes,
         Sample(p, s, si)
  PROVE  IInv'
<1>1. ClockInStep' /\ index' \in Indexes /\ clockPhase' \in Indexes /\ now \in Indexes
  BY ClockKeepsStep DEF Sample
<1>2. dcd' \in BOOLEAN /\ carrier' \in BOOLEAN /\ count' \in Nat
  BY CarrierKeepsTypes DEF Sample
<1>3. HandlerStarts(si)
  BY <1>1, IndexesOnly DEF HandlerStarts, HandlerTypes, IInv, TypeOK, Sample, CarrierStep
<1>4. HandlerTypes' /\ Control'
  BY <1>3, PreambleSearch, StreamSearch, FirstSyncSearch, SyncWindow, FrameReception
     DEF Sample
<1>5. TypeOK'
  BY <1>1, <1>2, <1>4 DEF TypeOK, HandlerTypes
<1>6. QED BY <1>1, <1>4, <1>5 DEF IInv

\* The invariant holds in every reachable state, whatever is received.
THEOREM InvariantHolds == Spec => []IInv
<1>1. Init => IInv
  <2> SUFFICES ASSUME Init PROVE IInv
    OBVIOUS
  <2>1. TypeOK
    <3>1. SPS-1 \in Indexes /\ 0 \in Indexes
      BY DemodAssumption DEF Indexes
    <3>2. /\ 0 \in 0..WindowCloses+1 /\ 0 \in 0..SamplesPerFrame
          /\ 0 \in 0..FrameSymbols-1 /\ 0 \in 0..CostLimit
      BY Sizes, DemodAssumption
    <3>3. QED BY <3>1, <3>2 DEF Init, TypeOK
  <2>2. Control
    BY DEF Init, Control, FramerCoherent, CobsResetBeforeFrames, MissingInRange,
           WindowEndsSearch, Tracking
  <2>3. ClockInStep
    BY DemodAssumption DEF Init, ClockInStep
  <2>4. QED BY <2>1, <2>2, <2>3 DEF IInv
<1>2. IInv /\ [Next]_vars => IInv'
  <2> SUFFICES ASSUME IInv, [Next]_vars PROVE IInv'
    OBVIOUS
  <2>1. CASE IdleSample
    BY <2>1, IdleKeepsIInv
  <2>2. CASE \E p, s \in BOOLEAN, si \in SampleIndexes : Sample(p, s, si)
    BY <2>2, SampleKeepsIInv
  <2>3. CASE UNCHANGED vars
    BY <2>3 DEF vars, IInv, TypeOK, Control, FramerCoherent, CobsResetBeforeFrames,
       MissingInRange, WindowEndsSearch, ClockInStep
  <2>4. QED BY <2>1, <2>2, <2>3 DEF Next
<1>3. QED BY <1>1, <1>2, PTL DEF Spec

-----------------------------------------------------------------------------
\* The members of OPVDemodulator keep their types and their bounds.
THEOREM TypeCorrect == Spec => []TypeOK
<1>1. IInv => TypeOK
  BY DEF IInv
<1>2. QED BY <1>1, InvariantHolds, PTL

\* No symbol of an abandoned frame is left in front of the next frame's.
THEOREM FramerIsCoherent == Spec => []FramerCoherent
<1>1. IInv => FramerCoherent
  BY DEF IInv, Control
<1>2. QED BY <1>1, InvariantHolds, PTL

\* The precondition of ClockRecovery::update() holds at every call.
THEOREM ClockUpdateAllowed == Spec => []ClockUpdatePrecondition
<1>1. IInv => ClockUpdatePrecondition
  BY DEF IInv, ClockInStep, ClockUpdatePrecondition, ClockUpdates, now
<1>2. QED BY <1>1, InvariantHolds, PTL

\* The COBS decoder is reset for every run of frames.
THEOREM CobsIsReset == Spec => []CobsResetBeforeFrames
<1>1. IInv => CobsResetBeforeFrames
  BY DEF IInv, Control
<1>2. QED BY <1>1, InvariantHolds, PTL

\* What a step may make of missing_sync_count.
CarriesOver ==
  /\ Counted' = Counted =>
       \/ missing' \in {missing, missing + 1}
       \/ Counted = "frames" /\ missing' = 0
  /\ Counted' # Counted =>
       \/ Counted' = "nothing" \/ missing' = 0
       \/ /\ Counted = "frames"
          /\ missing' <= IF Counted' = "samples" THEN MaxMissing - 1 ELSE MaxMissing

\* Without a carrier nothing is counted, and a carrier starts the count at 0.
LEMMA IdleCarriesOver ==
  ASSUME IdleSample
  PROVE  CarriesOver
<1>1. ~dcd /\ Counted = "nothing"
  BY DEF IdleSample, Counted
<1>2. CASE missing' = 0 /\ dcd'
  <2>1. Counted' # "nothing"
    BY <1>2 DEF Counted
  <2>2. QED
    BY <1>1, <1>2, <2>1 DEF CarriesOver
<1>3. CASE missing' = missing /\ dcd' = dcd
  BY <1>1, <1>3 DEF Counted, CarriesOver
<1>4. QED
  BY <1>2, <1>3 DEF IdleSample, CarrierFound

\* With one, every handler leaves the count as it says.
LEMMA SampleCarriesOver ==
  ASSUME IInv, NEW p \in BOOLEAN, NEW s \in BOOLEAN, NEW si \in SampleIndexes, Sample(p, s, si)
  PROVE  CarriesOver
<1>1. dcd /\ dcd' = ~CarrierLost /\ Counted # "nothing"
  BY DEF Sample, CarrierStep, Counted
<1>2. /\ missing \in Nat /\ MaxMissing \in Nat \ {0}
      /\ demodState \in Tracking => missing < MaxMissing
  BY Sizes, DemodAssumption DEF IInv, TypeOK, Control, MissingInRange
<1>3. CASE CarrierLost
  <2>1. Counted' = "nothing"
    BY <1>1, <1>3 DEF Counted
  <2>2. QED
    BY <1>1, <2>1 DEF CarriesOver
<1>4. CASE ~CarrierLost
  <2>1. dcd'
    BY <1>1, <1>4
  <2>2. CASE SeekPreamble(p, si)
    <3>1. Counted = "samples"
      BY <1>1, <2>2 DEF SeekPreamble, Counted, Tracking
    <3>2. \/ missing' = 0 /\ demodState' = "FIRST_SYNC"
          \/ missing' = missing + 1 /\ demodState' = "UNLOCKED"
      BY <1>4, <2>2 DEF SeekPreamble, LockOn, CountsSample, Goto
    <3>3. QED
      BY <2>1, <3>1, <3>2 DEF Counted, CarriesOver, Tracking
  <2>3. CASE SeekStream(s, si)
    <3>1. Counted = "samples"
      BY <1>1, <2>3 DEF SeekStream, Counted, Tracking
    <3>2. \/ missing' = 0 /\ demodState' = "FRAME"
          \/ missing' = missing /\ demodState' = "UNLOCKED"
      BY <1>4, <2>3 DEF SeekStream, LockOn, Goto
    <3>3. QED
      BY <2>1, <3>1, <3>2 DEF Counted, CarriesOver, Tracking
  <2>4. CASE SeekFirstSync(p, s, si)
    <3>1. Counted = "symbols"
      BY <1>1, <2>4 DEF SeekFirstSync, Counted, Tracking
    <3>2. \/ missing' = 0 /\ demodState' \in {"FRAME", "UNLOCKED"}
          \/ missing' \in {missing, missing + 1} /\ demodState' = "FIRST_SYNC"
      BY <1>4, <2>4 DEF SeekFirstSync, FindsFirstSync, MissesFirstSync, WaitsForFirstSync, Goto
    <3>3. QED
      BY <2>1, <3>1, <3>2 DEF Counted, CarriesOver, Tracking
  <2>5. CASE AwaitStreamSync(s, si)
    <3>1. Counted = "frames" /\ missing < MaxMissing
      BY <1>1, <1>2, <2>5 DEF AwaitStreamSync, Counted, Tracking
    <3>2. \/ missing' \in {0, missing, missing + 1} /\ demodState' \in Tracking
          \/ missing' = missing + 1 /\ demodState' = "FIRST_SYNC"
      BY <1>4, <2>5 DEF AwaitStreamSync, Detects, MissesSync, StillAwaits, Goto, Tracking
    <3>3. QED
      BY <1>2, <2>1, <3>1, <3>2 DEF Counted, CarriesOver, Tracking
  <2>6. CASE ReceiveFrame(si)
    <3>1. Counted = "frames" /\ missing < MaxMissing
      BY <1>1, <1>2, <2>6 DEF ReceiveFrame, Counted, Tracking
    <3>2. missing' = missing
      BY <2>6 DEF ReceiveFrame
    <3>3. demodState' \in Tracking \cup {"UNLOCKED", "FIRST_SYNC"}
      BY <1>4, <2>6 DEF ReceiveFrame, BetweenSymbols, TakesSymbol, CompletesFrame, Goto, Tracking
    <3>4. QED
      BY <1>2, <2>1, <3>1, <3>2, <3>3 DEF Counted, CarriesOver, Tracking
  <2>7. QED
    BY <2>2, <2>3, <2>4, <2>5, <2>6 DEF Sample
<1>5. QED
  BY <1>3, <1>4

\* Of the three counts that missing_sync_count keeps, only that of missed sync words is ever
\* carried over into another, and then it is at most MaxMissing: the search that it is carried into
\* is shorter by no more than that, and none is prolonged.
THEOREM FewAreCarriedOver == Spec => OnlyMissedFramesCarriedOver
<1>1. ASSUME IInv, [Next]_vars
      PROVE  [CarriesOver]_vars
  <2>1. CASE IdleSample
    BY <2>1, IdleCarriesOver
  <2>2. CASE \E p, s \in BOOLEAN, si \in SampleIndexes : Sample(p, s, si)
    BY <1>1, <2>2, SampleCarriesOver
  <2>3. QED
    BY <1>1, <2>1, <2>2 DEF Next
<1>2. QED
  BY <1>1, InvariantHolds, PTL DEF Spec, OnlyMissedFramesCarriedOver, CarriesOver

\* The search for a sync word ends with its window.
THEOREM SearchEnds == Spec => []WindowEndsSearch
<1>1. IInv => WindowEndsSearch
  BY DEF IInv, Control
<1>2. QED BY <1>1, InvariantHolds, PTL

-----------------------------------------------------------------------------
(***************************************************************************)
(* DemodLink: the inductive invariant                                       *)
(***************************************************************************)
WellPhased == SPS = 10 /\ SyncSymbols = 8 /\ Phases \subseteq 3..7

\* Index i is at a symbol's centre or next to it.
Near(i) == i - Phase \in -1..1

\* The kinds of the transmission's variables, with a carrier and at a steady phase.
LinkTypes ==
  /\ segment \in {"preamble", "stream"} /\ pos \in 0..SamplesPerFrame-1
  /\ heard \in BOOLEAN /\ missed \in 0..MaxMissing /\ fakes \in Nat
  /\ dcd = TRUE /\ carrier = TRUE
  /\ Phase \in Phases

\* stream_sync triggers only at the end of a sync word that is heard, and only where it
\* is called; whatever it leaves as timing index is near the symbols' centres.
TriggersOK ==
  /\ \A i \in strTrig : Near(i)
  /\ strTiming = 0 \/ Near(strTiming)
  /\ strTrig # {} => /\ pos \in 69..71 /\ heard /\ segment = "stream"
                     /\ \/ demodState = "STREAM_SYNC"
                        \/ demodState = "UNLOCKED" /\ missing >= SamplesPerFrame

\* While frames are tracked both sample indexes are near the centres, and no more
\* frames began on an old sync word than missing counts.
TrackingOK ==
  demodState \in Tracking =>
    /\ segment = "stream" /\ Near(sampleIndex)
    /\ syncSampleIndex = 0 \/ Near(syncSampleIndex)
    /\ fakes <= missing

\* While a frame is received, pos is between the symbol last taken and the next one.
FrameOK ==
  demodState = "FRAME" =>
    /\ missing <= missed
    /\ pos - (sampleIndex - Phase) \in (7 + framer) * 10 .. (8 + framer) * 10 - 1

\* While a sync word is awaited: the last symbol was taken e samples off, sync_count
\* counts from there, and the sample index is a step away from there at most, none
\* before the one update of the clock.
Drift(e) ==
  IF needClockUpdate THEN sampleIndex = Phase + e ELSE sampleIndex - Phase - e \in -1..1

\* Before the sync word's frame begins missing is at most missed.
Before(e) ==
  /\ syncCount < 10 - e /\ pos = SamplesPerFrame - 10 + e + syncCount
  /\ missing <= missed

\* From then on it is less unless the word is heard, and a word that is heard cannot be
\* past its end unnoticed.
After(e) ==
  /\ syncCount >= 10 - e /\ pos = syncCount - 10 + e
  /\ ~heard => missing < missed
  /\ heard => pos <= 71 /\ (pos >= 69 => strTrig # {})

WindowOK ==
  demodState = "STREAM_SYNC" => \E e \in -1..1 : Drift(e) /\ (Before(e) \/ After(e))

LinkInv == WellPhased /\ IInv /\ LinkTypes /\ TriggersOK /\ TrackingOK /\ FrameOK /\ WindowOK

-----------------------------------------------------------------------------
(***************************************************************************)
(* Arithmetic of samples and symbols                                        *)
(***************************************************************************)
\* The frame in samples, with the numbers of the program in it.
LEMMA FrameLength ==
  ASSUME WellPhased
  PROVE  /\ SamplesPerFrame = 80 + 10 * FrameSymbols
         /\ FrameSymbols \in Nat \ {0} /\ SamplesPerFrame \in Nat /\ SamplesPerFrame >= 90
         /\ WindowOpens = 70 /\ WindowCloses = 87
         /\ Indexes = 0..9 /\ FirstPayload = 8 /\ LastSync = 7
<1>1. SPS = 10 /\ SyncSymbols = 8 /\ FrameSymbols \in Nat \ {0}
  BY DemodAssumption DEF WellPhased
<1>2. SamplesPerFrame = (8 + FrameSymbols) * 10
  BY <1>1 DEF SamplesPerFrame, PeriodSymbols
<1>3. QED
  BY <1>1, <1>2 DEF WindowOpens, WindowCloses, Indexes, FirstPayload, LastSync

\* Remainders by 10.
LEMMA Remainder ==
  ASSUME NEW a \in Int
  PROVE  a % 10 \in 0..9 /\ \E m \in Int : a = 10 * m + (a % 10)
  OBVIOUS
LEMMA SameRemainder ==
  ASSUME NEW a \in Int, NEW b \in Int, NEW m \in Int, a = b + 10 * m
  PROVE  a % 10 = b % 10
  OBVIOUS

\* The next sample: index and position advance together.
LEMMA NextSample ==
  ASSUME WellPhased, index \in Indexes, pos \in 0..SamplesPerFrame-1, Phase \in Phases
  PROVE  /\ Phase \in 3..7 /\ now \in 0..9
         /\ nextPos = IF pos = SamplesPerFrame - 1 THEN 0 ELSE pos + 1
         /\ nextPos \in 0..SamplesPerFrame-1
         /\ (now - nextPos) % SPS = Phase
         /\ \E m \in Int : now + 10 * m = Phase + nextPos
<1>1. /\ SPS = 10 /\ Phases \subseteq 3..7 /\ index \in 0..9
      /\ SamplesPerFrame = 80 + 10 * FrameSymbols /\ FrameSymbols \in Nat \ {0}
  BY FrameLength DEF WellPhased
<1>2. now = IF index = 9 THEN 0 ELSE index + 1
  BY <1>1 DEF now
<1>3. nextPos = IF pos = SamplesPerFrame - 1 THEN 0 ELSE pos + 1
  <2>1. CASE pos = SamplesPerFrame - 1
    <3>1. pos + 1 = SamplesPerFrame /\ SamplesPerFrame \in Nat \ {0}
      BY <1>1, <2>1
    <3>2. SamplesPerFrame % SamplesPerFrame = 0
      BY <3>1
    <3>3. QED
      BY <2>1, <3>1, <3>2 DEF nextPos
  <2>2. CASE pos # SamplesPerFrame - 1
    <3>1. pos + 1 \in 0..SamplesPerFrame-1 /\ SamplesPerFrame \in Nat \ {0}
      BY <1>1, <2>2
    <3>2. (pos + 1) % SamplesPerFrame = pos + 1
      BY <3>1
    <3>3. QED
      BY <2>2, <3>2 DEF nextPos
  <2>3. QED
    BY <2>1, <2>2
<1>4. nextPos \in 0..SamplesPerFrame-1
  BY <1>1, <1>3
<1>5. \E m \in Int : now - nextPos = (index - pos) + 10 * m
  <2>1. PICK c \in Int : now = index + 1 + 10 * c
    <3>1. \/ now = index + 1 + 10 * 0
          \/ now = index + 1 + 10 * (-1)
      BY <1>1, <1>2
    <3>2. QED
      BY <3>1
  <2>2. PICK f \in Int : nextPos = pos + 1 - 10 * f
    <3>1. \/ nextPos = pos + 1 - 10 * 0
          \/ nextPos = pos + 1 - 10 * (8 + FrameSymbols)
      BY <1>1, <1>3
    <3>2. 8 + FrameSymbols \in Int
      BY <1>1
    <3>3. QED
      BY <3>1, <3>2
  <2>3. now - nextPos = (index - pos) + 10 * (c + f) /\ c + f \in Int
    BY <1>1, <2>1, <2>2
  <2>4. QED
    BY <2>3
<1>6. now \in Int /\ nextPos \in Int /\ index \in Int /\ pos \in Int
  BY <1>1, <1>2, <1>4
<1>7. (now - nextPos) % 10 = (index - pos) % 10
  BY <1>5, <1>6, SameRemainder
<1>8. Phase = (now - nextPos) % 10
  BY <1>1, <1>7 DEF Phase
<1>9. \E m \in Int : now - nextPos = 10 * m + Phase
  BY <1>6, <1>8, Remainder
<1>10. \E m \in Int : now + 10 * m = Phase + nextPos
  <2>1. PICK m \in Int : now - nextPos = 10 * m + Phase
    BY <1>9
  <2>2. now + 10 * (-m) = Phase + nextPos /\ -m \in Int
    BY <1>1, <1>6, <2>1
  <2>3. QED
    BY <2>2
<1>11. QED
  BY <1>1, <1>2, <1>3, <1>4, <1>8, <1>10

-----------------------------------------------------------------------------
(***************************************************************************)
(* What every step does                                                     *)
(***************************************************************************)
\* A step of LinkNext with the sample index si after the clock step.
LinkStep(si) ==
  /\ LinkInv /\ si \in LinkIndexes
  /\ Sample(PreambleHeard, SyncHeard, si)
  /\ segment' = nextSegment /\ pos' = nextPos /\ carrier' = TRUE
  /\ NextFrame /\ CountFakes

\* What every such step does, and starts from.
LEMMA StepFacts ==
  ASSUME NEW si, LinkStep(si)
  PROVE  /\ LinkTypes' /\ IInv' /\ Phase' = Phase /\ index' = now /\ pos' = nextPos
         /\ ~CarrierLost /\ \A st : Goto(st) => demodState' = st
         /\ pos # SamplesPerFrame - 1 =>
               heard' = heard /\ missed' = missed /\ segment' = segment
         /\ pos = SamplesPerFrame - 1 =>
               /\ segment' = "stream"
               /\ \/ missed' = 0 /\ heard'
                  \/ missed' = (IF missed < MaxMissing THEN missed + 1 ELSE missed)
         /\ segment = "stream" => segment' = "stream"
<1>1. /\ WellPhased /\ IInv /\ LinkTypes /\ index \in Indexes
      /\ index' = now /\ pos' = nextPos /\ segment' = nextSegment
      /\ carrier' = TRUE /\ dcd' = ~CarrierLost /\ carrier = TRUE
  BY DEF LinkStep, LinkInv, LinkTypes, IInv, TypeOK, Sample, CarrierStep
<1>2. ~CarrierLost
  BY <1>1 DEF CarrierLost
<1>3. \A st : Goto(st) => demodState' = st
  BY <1>2 DEF Goto
<1>4. /\ nextPos = IF pos = SamplesPerFrame - 1 THEN 0 ELSE pos + 1
      /\ nextPos \in 0..SamplesPerFrame-1 /\ (now - nextPos) % SPS = Phase
      /\ pos \in 0..SamplesPerFrame-1 /\ Phase \in Phases /\ missed \in 0..MaxMissing
  BY <1>1, NextSample DEF LinkTypes
<1>5. Phase' = Phase
  BY <1>1, <1>4 DEF Phase
<1>6. SamplesPerFrame \in Nat /\ SamplesPerFrame >= 90 /\ MaxMissing \in Nat
  BY <1>1, FrameLength, DemodAssumption
<1>7. (nextPos = 0) <=> (pos = SamplesPerFrame - 1)
  BY <1>4, <1>6
<1>8. pos # SamplesPerFrame - 1 => heard' = heard /\ missed' = missed /\ segment' = segment
  BY <1>1, <1>7 DEF LinkStep, NextFrame, nextSegment
<1>9. pos = SamplesPerFrame - 1 =>
               /\ segment' = "stream"
               /\ \/ missed' = 0 /\ heard'
                  \/ missed' = (IF missed < MaxMissing THEN missed + 1 ELSE missed)
  BY <1>1, <1>7 DEF LinkStep, NextFrame, nextSegment
<1>10. heard' \in BOOLEAN /\ missed' \in 0..MaxMissing
  <2>1. \/ heard' = heard /\ missed' = missed
        \/ heard' = TRUE /\ missed' = 0
        \/ heard' = FALSE /\ missed' = (IF missed < MaxMissing THEN missed + 1 ELSE missed)
    BY DEF LinkStep, NextFrame
  <2>2. /\ (IF missed < MaxMissing THEN missed + 1 ELSE missed) \in 0..MaxMissing
        /\ 0 \in 0..MaxMissing
    BY <1>4, <1>6
  <2>3. heard \in BOOLEAN
    BY <1>1 DEF LinkTypes
  <2>4. QED
    BY <1>4, <2>1, <2>2, <2>3, Zenon
<1>11. fakes' \in Nat
  BY <1>1 DEF LinkStep, CountFakes, LinkTypes
<1>12. segment' \in {"preamble", "stream"} /\ (segment = "stream" => segment' = "stream")
  BY <1>1 DEF nextSegment, LinkTypes
<1>13. LinkTypes'
  BY <1>1, <1>2, <1>4, <1>5, <1>10, <1>11, <1>12 DEF LinkTypes
<1>14. IInv'
  <2>1. si \in SampleIndexes
    <3>1. Estimates \subseteq Indexes
      <4>1. \A a \in Int : a % 10 \in 0..9
        BY Remainder
      <4>2. Phase \in Int /\ SPS = 10 /\ Indexes = 0..9
        BY <1>1, FrameLength DEF WellPhased, LinkTypes
      <4>3. QED
        BY <4>1, <4>2 DEF Estimates
    <3>2. QED
      BY <3>1 DEF LinkStep, LinkIndexes, SampleIndexes
  <2>2. PreambleHeard \in BOOLEAN /\ SyncHeard \in BOOLEAN
    BY <1>1 DEF PreambleHeard, SyncHeard, LinkTypes
  <2>3. QED
    BY <1>1, <2>1, <2>2, SampleKeepsIInv DEF LinkStep
<1>15. QED
  BY <1>1, <1>2, <1>3, <1>5, <1>8, <1>9, <1>12, <1>13, <1>14

\* While frames are tracked the clock moves the sample index by one at most, at index
\* 0, and never away from the symbols' centres.
LEMMA ClockStaysNear ==
  ASSUME NEW si, LinkStep(si), demodState \in Tracking
  PROVE  /\ Near(si)
         /\ si = sampleIndex \/
             (now = 0 /\ ~UpdateLeft /\ needClockUpdate /\ si - sampleIndex \in -1..1)
<1>1. /\ Near(sampleIndex) /\ (syncSampleIndex = 0 \/ Near(syncSampleIndex))
      /\ Phase \in 3..7 /\ SPS = 10 /\ sampleIndex \in 0..9 /\ syncSampleIndex \in 0..9
  <2>1. /\ WellPhased /\ LinkTypes /\ TypeOK /\ TrackingOK
    BY DEF LinkStep, LinkInv, IInv
  <2>2. Phase \in 3..7
    BY <2>1 DEF WellPhased, LinkTypes
  <2>3. sampleIndex \in 0..9 /\ syncSampleIndex \in 0..9
    BY <2>1, FrameLength DEF TypeOK
  <2>4. QED
    BY <2>1, <2>2, <2>3 DEF WellPhased, TrackingOK
<1>2. CASE ~ClockUpdates
  BY <1>1, <1>2 DEF LinkStep, LinkIndexes
<1>3. CASE ClockUpdates
  <2>1. PICK k \in Estimates : si = Adjusted(k)
    BY <1>3 DEF LinkStep, LinkIndexes
  <2>2. k - Phase \in -1..1
    <3>1. PICK d \in {-1, 0, 1} : k = (Phase + d) % 10
      BY <1>1, <2>1 DEF Estimates
    <3>2. (Phase + d) % 10 = Phase + d
      BY <1>1
    <3>3. QED
      BY <1>1, <3>1, <3>2
  <2>3. k \in Int
    <3>1. PICK d \in {-1, 0, 1} : k = (Phase + d) % 10
      BY <1>1, <2>1 DEF Estimates
    <3>2. QED
      BY <1>1, <3>1
  <2>4. Near(si) /\ si - sampleIndex \in -1..1
    BY <1>1, <2>1, <2>2, <2>3 DEF Adjusted, NextTo, Near
  <2>5. QED
    BY <1>3, <2>4 DEF ClockUpdates, UpdateLeft
<1>4. QED
  BY <1>2, <1>3

\* What a handler has to keep; the types and the component's own invariant are kept
\* by every step (StepFacts).
Rest == TriggersOK /\ TrackingOK /\ FrameOK /\ WindowOK

\* The numbers of a step.
LEMMA StepNumbers ==
  ASSUME NEW si, LinkStep(si)
  PROVE  /\ Phase \in 3..7 /\ now \in 0..9 /\ pos \in 0..SamplesPerFrame-1
         /\ nextPos = IF pos = SamplesPerFrame - 1 THEN 0 ELSE pos + 1
         /\ \E m \in Int : now + 10 * m = Phase + nextPos
         /\ SamplesPerFrame = 80 + 10 * FrameSymbols /\ FrameSymbols \in Nat \ {0}
         /\ WindowOpens = 70 /\ WindowCloses = 87 /\ FirstPayload = 8
         /\ SPS = 10 /\ MaxMissing \in Nat \ {0} /\ missed \in 0..MaxMissing /\ fakes \in Nat
         /\ sampleIndex \in 0..9 /\ strTiming \in 0..9 /\ missing \in 0..SamplesPerFrame
         /\ strTrig \subseteq 0..9 /\ syncCount \in Nat /\ framer \in 0..FrameSymbols-1
<1>1. WellPhased /\ LinkTypes /\ TypeOK
  BY DEF LinkStep, LinkInv, IInv
<1>2. index \in Indexes /\ pos \in 0..SamplesPerFrame-1 /\ Phase \in Phases
  BY <1>1 DEF LinkTypes, TypeOK
<1>3. Phase \in 3..7 /\ now \in 0..9
      /\ nextPos = (IF pos = SamplesPerFrame - 1 THEN 0 ELSE pos + 1)
      /\ \E m \in Int : now + 10 * m = Phase + nextPos
  BY <1>1, <1>2, NextSample
<1>4. /\ sampleIndex \in 0..9 /\ strTiming \in 0..9 /\ missing \in 0..SamplesPerFrame
      /\ strTrig \subseteq 0..9 /\ syncCount \in Nat /\ framer \in 0..FrameSymbols-1
  BY <1>1, FrameLength DEF TypeOK
<1>5. QED
  BY <1>1, <1>2, <1>3, <1>4, FrameLength, DemodAssumption DEF LinkTypes, WellPhased

\* A sync word is heard at its last symbol and the samples next to it.
LEMMA HeardWhere ==
  ASSUME NEW si, LinkStep(si)
  PROVE  /\ SyncHeard <=> nextSegment = "stream" /\ heard /\ nextPos \in 69..71
         /\ SyncHeard => now = Phase + (nextPos - 70) /\ heard' /\ segment' = "stream"
<1>1. SyncHeard <=> nextSegment = "stream" /\ heard /\ nextPos \in 69..71
  <2>1. WellPhased /\ nextPos \in Int
    <3>1. WellPhased
      BY DEF LinkStep, LinkInv
    <3>2. QED
      BY <3>1, StepNumbers
  <2>2. LastSync * SPS = 70
    BY <2>1, FrameLength DEF WellPhased
  <2>3. At(nextPos, LastSync) <=> nextPos \in 69..71
    BY <2>1, <2>2 DEF At
  <2>4. QED
    BY <2>3 DEF SyncHeard
<1>2. ASSUME SyncHeard PROVE now = Phase + (nextPos - 70) /\ heard' /\ segment' = "stream"
  <2>1. nextPos \in 69..71 /\ heard /\ nextSegment = "stream"
    BY <1>1, <1>2
  <2>2. pos # SamplesPerFrame - 1
    BY <2>1, StepNumbers
  <2>3. heard' = heard /\ segment' = nextSegment
    BY <2>2, StepFacts DEF LinkStep
  <2>4. now = Phase + (nextPos - 70)
    BY <2>1, StepNumbers
  <2>5. QED
    BY <2>1, <2>3, <2>4
<1>3. QED
  BY <1>1, <1>2

\* What a call of stream_sync does: it triggers around the last symbol of a sync word
\* that is heard, and updates at the sample after.
LEMMA StreamSyncFacts ==
  ASSUME NEW si, LinkStep(si), StreamSyncCall(SyncHeard)
  PROVE  /\ \A i \in strTrig' : Near(i)
         /\ strTiming' \in 0..9 /\ (strTiming' = 0 \/ Near(strTiming'))
         /\ strTrig' # {} => SyncHeard
         /\ SyncHeard => strTrig' # {}
         /\ Updated(strTrig, SyncHeard) =>
              /\ strTrig' = {} /\ strTiming' \in strTrig /\ Near(strTiming')
              /\ pos = 71 /\ nextPos = 72 /\ segment = "stream"
<1>1. TriggersOK /\ strTrig' = (IF SyncHeard THEN strTrig \cup {now} ELSE {})
  BY DEF LinkStep, LinkInv, StreamSyncCall, Triggers
<1>2. \A i \in strTrig' : Near(i)
  <2>1. SyncHeard => Near(now)
    BY HeardWhere, StepNumbers DEF Near
  <2>2. QED
    BY <1>1, <2>1 DEF TriggersOK
<1>3. CASE Updated(strTrig, SyncHeard)
  <2>1. strTiming' \in strTrig /\ ~SyncHeard /\ strTrig # {}
    BY <1>3 DEF StreamSyncCall, Updated
  <2>2. pos \in 69..71 /\ heard /\ segment = "stream" /\ Near(strTiming')
    BY <1>1, <2>1 DEF TriggersOK
  <2>3. nextSegment = "stream"
    BY <2>2 DEF nextSegment
  <2>4. pos # SamplesPerFrame - 1 /\ nextPos = pos + 1
    BY <2>2, StepNumbers
  <2>5. pos = 71
    BY <2>1, <2>2, <2>3, <2>4, HeardWhere
  <2>6. QED
    BY <1>1, <1>2, <2>1, <2>2, <2>4, <2>5, StepNumbers
<1>4. CASE ~Updated(strTrig, SyncHeard)
  <2>1. strTiming' = strTiming
    BY <1>4 DEF StreamSyncCall
  <2>2. QED
    BY <1>1, <1>2, <1>4, <2>1, StepNumbers DEF TriggersOK
<1>5. QED
  BY <1>3, <1>4

-----------------------------------------------------------------------------
(***************************************************************************)
(* The handlers                                                             *)
(***************************************************************************)
\* What the conjuncts say where no frame is tracked and no trigger is left.
LEMMA Searching ==
  ASSUME NEW si, LinkStep(si), demodState' \in {"UNLOCKED", "FIRST_SYNC"},
         strTrig' = {}, strTiming' = strTiming
  PROVE  Rest'
<1>1. TriggersOK'
  BY StepFacts DEF LinkStep, LinkInv, TriggersOK, Near
<1>2. TrackingOK' /\ FrameOK' /\ WindowOK'
  BY DEF TrackingOK, FrameOK, WindowOK, Tracking
<1>3. QED
  BY <1>1, <1>2 DEF Rest

\* Missed sync words are counted from 0.
LEMMA MissedNat ==
  ASSUME NEW si, LinkStep(si)
  PROVE  missed' \in Nat
<1>1. LinkTypes'
  BY StepFacts
<1>2. missed' \in 0..MaxMissing /\ MaxMissing \in Nat
  BY <1>1, StepNumbers DEF LinkTypes
<1>3. QED
  BY <1>2

\* The preamble awaited: no trigger of stream_sync is left.
LEMMA SeekPreambleKeepsRest ==
  ASSUME NEW si, LinkStep(si), SeekPreamble(PreambleHeard, si)
  PROVE  Rest'
<1>1. demodState' \in {"UNLOCKED", "FIRST_SYNC"}
  BY StepFacts DEF SeekPreamble
<1>2. strTrig = {} /\ strTrig' = strTrig /\ strTiming' = strTiming
  BY StepNumbers DEF SeekPreamble, LinkStep, LinkInv, TriggersOK
<1>3. QED
  BY <1>1, <1>2, Searching

\* A frame begins on a sync word that was detected, or just now heard.
LEMMA FrameBegins ==
  ASSUME NEW si, LinkStep(si), demodState # "FRAME", demodState' = "FRAME",
         framer' = 0, segment' = "stream", strTrig' = {},
         strTiming' = 0 \/ Near(strTiming'),
         Near(sampleIndex'), syncSampleIndex' = 0 \/ Near(syncSampleIndex'),
         pos' - (sampleIndex' - Phase) \in 70..79,
         missing' <= missed', fakes' <= missing'
  PROVE  Rest'
<1>1. Phase' = Phase
  BY StepFacts
<1>2. TriggersOK' /\ TrackingOK'
  BY <1>1 DEF TriggersOK, TrackingOK, Near
<1>3. FrameOK'
  BY <1>1 DEF FrameOK
<1>4. WindowOK'
  BY DEF WindowOK
<1>5. QED
  BY <1>2, <1>3, <1>4 DEF Rest

\* A stream awaited: its sync word is accepted at the sample after its end.
LEMMA SeekStreamKeepsRest ==
  ASSUME NEW si, LinkStep(si), SeekStream(SyncHeard, si)
  PROVE  Rest'
<1>1. StreamSyncCall(SyncHeard) /\ demodState = "UNLOCKED" /\ framer' = framer
  BY DEF SeekStream
<1>2. CASE Updated(strTrig, SyncHeard)
  <2>1. /\ LockOn(strTiming') /\ demodState' = "FRAME"
    BY <1>2, StepFacts DEF SeekStream
  <2>2. /\ sampleIndex' = strTiming' /\ syncSampleIndex' = strTiming' /\ missing' = 0
    BY <2>1 DEF LockOn
  <2>3. /\ strTrig' = {} /\ Near(strTiming') /\ nextPos = 72 /\ segment = "stream"
        /\ strTiming' \in 0..9
    BY <1>1, <1>2, StreamSyncFacts
  <2>4. pos' - (sampleIndex' - Phase) \in 70..79
    BY <2>2, <2>3, StepFacts, StepNumbers DEF Near
  <2>5. fakes' = 0
    BY <1>1, <2>1 DEF LinkStep, CountFakes
  <2>6. missing' <= missed' /\ fakes' <= missing'
    BY <2>2, <2>5, MissedNat
  <2>7. framer' = 0
    BY <1>1 DEF LinkStep, LinkInv, LinkTypes, IInv, Control, FramerCoherent
  <2>8. Near(sampleIndex') /\ Near(syncSampleIndex')
    BY <2>2, <2>3
  <2>9. segment' = "stream"
    BY <2>3, StepFacts
  <2>10. QED
    BY <1>1, <2>1, <2>3, <2>4, <2>6, <2>7, <2>8, <2>9, FrameBegins
<1>3. CASE ~Updated(strTrig, SyncHeard)
  <2>1. demodState' = "UNLOCKED" /\ missing' = missing /\ missing >= SamplesPerFrame
    BY <1>3, StepFacts DEF SeekStream
  <2>2. TriggersOK'
    <3>1. \A i \in strTrig' : Near(i)
      BY <1>1, StreamSyncFacts
    <3>2. strTiming' = 0 \/ Near(strTiming')
      BY <1>1, StreamSyncFacts
    <3>3. strTrig' # {} => pos' \in 69..71 /\ heard' /\ segment' = "stream"
      BY <1>1, StreamSyncFacts, HeardWhere, StepFacts
    <3>4. Phase' = Phase
      BY StepFacts
    <3>5. QED
      BY <2>1, <3>1, <3>2, <3>3, <3>4 DEF TriggersOK, Near
  <2>3. TrackingOK' /\ FrameOK' /\ WindowOK'
    BY <2>1 DEF TrackingOK, FrameOK, WindowOK, Tracking
  <2>4. QED
    BY <2>2, <2>3 DEF Rest
<1>4. QED
  BY <1>2, <1>3

\* The first sync word awaited: it is accepted while it is heard.
LEMMA SeekFirstSyncKeepsRest ==
  ASSUME NEW si, LinkStep(si), SeekFirstSync(PreambleHeard, SyncHeard, si)
  PROVE  Rest'
<1>1. /\ strTrig' = strTrig /\ strTiming' = strTiming /\ demodState = "FIRST_SYNC"
      /\ framer' = framer /\ sampleIndex' = si
  BY DEF SeekFirstSync
<1>2. strTrig = {} /\ (strTiming = 0 \/ Near(strTiming))
  BY <1>1 DEF LinkStep, LinkInv, TriggersOK
<1>3. CASE FindsFirstSync(PreambleHeard, SyncHeard, si)
  <2>1. /\ now = si /\ SyncHeard /\ missing' = 0 /\ syncSampleIndex' = si
        /\ demodState' = "FRAME"
    BY <1>3, StepFacts DEF FindsFirstSync
  <2>2. /\ nextPos \in 69..71 /\ si = Phase + (nextPos - 70) /\ segment' = "stream"
    BY <2>1, HeardWhere
  <2>3. pos' - (sampleIndex' - Phase) \in 70..79 /\ Near(si)
    BY <1>1, <2>2, StepFacts, StepNumbers DEF Near
  <2>4. fakes' = 0
    BY <1>1, <2>1 DEF LinkStep, CountFakes
  <2>5. missing' <= missed' /\ fakes' <= missing'
    BY <2>1, <2>4, MissedNat
  <2>6. framer' = 0
    BY <1>1 DEF LinkStep, LinkInv, LinkTypes, IInv, Control, FramerCoherent
  <2>7. strTrig' = {} /\ (strTiming' = 0 \/ Near(strTiming'))
    BY <1>1, <1>2
  <2>8. QED
    BY <1>1, <2>1, <2>2, <2>3, <2>5, <2>6, <2>7, FrameBegins
<1>4. CASE MissesFirstSync(PreambleHeard, SyncHeard, si)
  <2>1. demodState' \in {"UNLOCKED", "FIRST_SYNC"}
    BY <1>4, StepFacts DEF MissesFirstSync
  <2>2. QED
    BY <1>1, <1>2, <2>1, Searching
<1>5. CASE WaitsForFirstSync(PreambleHeard, si)
  <2>1. demodState' \in {"UNLOCKED", "FIRST_SYNC"}
    BY <1>5, StepFacts DEF WaitsForFirstSync
  <2>2. QED
    BY <1>1, <1>2, <2>1, Searching
<1>6. QED
  BY <1>3, <1>4, <1>5 DEF SeekFirstSync

\* The clock drifts from the entry by one at most.
LEMMA DriftKept ==
  ASSUME NEW si, LinkStep(si), demodState = "STREAM_SYNC", NEW e \in -1..1, Drift(e),
         sampleIndex' = si, needClockUpdate' = UpdateLeft
  PROVE  Drift(e)' /\ Near(si) /\ si - Phase - e \in -1..1 /\ si \in Int
<1>1. /\ Near(si)
      /\ si = sampleIndex \/
             (now = 0 /\ ~UpdateLeft /\ needClockUpdate /\ si - sampleIndex \in -1..1)
  BY ClockStaysNear DEF Tracking
<1>2. Phase \in 3..7 /\ Phase' = Phase /\ sampleIndex \in 0..9
  BY StepNumbers, StepFacts
<1>3. si \in Int
  <2>1. si \in Indexes
    <3>1. TypeOK'
      BY StepFacts DEF IInv
    <3>2. QED
      BY <3>1 DEF TypeOK
  <2>2. Indexes \subseteq Int
    BY FrameLength DEF LinkStep, LinkInv
  <2>3. QED
    BY <2>1, <2>2, Zenon
<1>4. CASE needClockUpdate
  <2>1. sampleIndex = Phase + e
    BY <1>4 DEF Drift
  <2>2. si - Phase - e \in -1..1
    BY <1>1, <1>2, <1>3, <2>1
  <2>3. UpdateLeft => si = Phase + e
    BY <1>1, <2>1
  <2>4. QED
    BY <1>1, <1>2, <1>3, <2>2, <2>3 DEF Drift
<1>5. CASE ~needClockUpdate
  <2>1. si = sampleIndex /\ sampleIndex - Phase - e \in -1..1
    BY <1>1, <1>5 DEF Drift
  <2>2. ~UpdateLeft
    BY <1>5 DEF UpdateLeft
  <2>3. QED
    BY <1>1, <1>2, <1>3, <2>1, <2>2 DEF Drift
<1>6. QED
  BY <1>4, <1>5

\* The step's place relative to the end of the frame.
LEMMA WindowSteps ==
  ASSUME NEW si, LinkStep(si), demodState = "STREAM_SYNC", NEW e \in -1..1,
         Before(e) \/ After(e), syncCount' = syncCount + 1
  PROVE  \/ /\ syncCount' < 10 - e /\ nextPos = SamplesPerFrame - 10 + e + syncCount'
            /\ missing <= missed' /\ missed' = missed
         \/ /\ syncCount' >= 10 - e /\ nextPos = syncCount' - 10 + e /\ nextPos <= 78 + e
            /\ ~heard' => missing < missed'
            /\ \/ nextPos = 0
               \/ heard' = heard /\ missed' = missed /\ pos >= 0 /\ pos = nextPos - 1
                  /\ After(e)
<1>1. missing < MaxMissing /\ syncCount <= 87
  BY StepNumbers DEF LinkStep, LinkInv, IInv, Control, MissingInRange, WindowEndsSearch,
     Tracking
<1>2. /\ pos \in 0..SamplesPerFrame-1
      /\ nextPos = IF pos = SamplesPerFrame - 1 THEN 0 ELSE pos + 1
      /\ SamplesPerFrame \in Nat /\ SamplesPerFrame >= 90
      /\ MaxMissing \in Nat \ {0} /\ missed \in 0..MaxMissing
      /\ missing \in Nat /\ syncCount \in Nat
  BY StepNumbers
<1>3. /\ pos # SamplesPerFrame - 1 => heard' = heard /\ missed' = missed
      /\ pos = SamplesPerFrame - 1 =>
            \/ missed' = 0 /\ heard'
            \/ missed' = (IF missed < MaxMissing THEN missed + 1 ELSE missed)
  BY StepFacts
<1>4. CASE Before(e)
  <2>1. syncCount < 10 - e /\ pos = SamplesPerFrame - 10 + e + syncCount /\ missing <= missed
    BY <1>4 DEF Before
  <2>2. CASE pos = SamplesPerFrame - 1
    <3>1. syncCount' = 10 - e /\ nextPos = 0
      BY <1>2, <2>1, <2>2
    <3>2. ~heard' => missing < missed'
      BY <1>1, <1>2, <1>3, <2>1, <2>2
    <3>3. QED
      BY <3>1, <3>2
  <2>3. CASE pos # SamplesPerFrame - 1
    <3>1. nextPos = pos + 1 /\ syncCount' < 10 - e
      BY <1>2, <2>1, <2>3
    <3>2. QED
      BY <1>2, <1>3, <2>1, <2>3, <3>1
  <2>4. QED
    BY <2>2, <2>3
<1>5. CASE After(e)
  <2>1. syncCount >= 10 - e /\ pos = syncCount - 10 + e /\ (~heard => missing < missed)
    BY <1>5 DEF After
  <2>2. pos # SamplesPerFrame - 1
    BY <1>1, <1>2, <2>1
  <2>3. nextPos = pos + 1 /\ heard' = heard /\ missed' = missed
    BY <1>2, <1>3, <2>2
  <2>4. QED
    BY <1>1, <1>2, <1>5, <2>1, <2>3
<1>6. QED
  BY <1>4, <1>5

\* The window: a sync word that is heard is detected in it; one that is not has been
\* counted by missed, so that missing stays at most missed.
LEMMA AwaitStreamSyncKeepsRest ==
  ASSUME NEW si, LinkStep(si), AwaitStreamSync(SyncHeard, si)
  PROVE  Rest' /\ (demodState' = "FIRST_SYNC" => missed >= MaxMissing)
<1>1. /\ StreamSyncCall(SyncHeard) /\ demodState = "STREAM_SYNC" /\ framer' = framer
      /\ sampleIndex' = si /\ needClockUpdate' = UpdateLeft /\ syncCount' = syncCount + 1
  BY DEF AwaitStreamSync
<1>2. PICK e \in -1..1 : Drift(e) /\ (Before(e) \/ After(e))
  BY <1>1 DEF LinkStep, LinkInv, WindowOK
<1>3. Drift(e)' /\ Near(si) /\ si - Phase - e \in -1..1 /\ si \in Int
  BY <1>1, <1>2, DriftKept
<1>4. \/ /\ syncCount' < 10 - e /\ nextPos = SamplesPerFrame - 10 + e + syncCount'
         /\ missing <= missed' /\ missed' = missed
      \/ /\ syncCount' >= 10 - e /\ nextPos = syncCount' - 10 + e /\ nextPos <= 78 + e
         /\ ~heard' => missing < missed'
         /\ \/ nextPos = 0
            \/ heard' = heard /\ missed' = missed /\ pos >= 0 /\ pos = nextPos - 1 /\ After(e)
  BY <1>1, <1>2, WindowSteps
<1>5. /\ \A i \in strTrig' : Near(i)
      /\ strTiming' \in 0..9 /\ (strTiming' = 0 \/ Near(strTiming'))
      /\ strTrig' # {} => SyncHeard
      /\ SyncHeard => strTrig' # {}
      /\ Updated(strTrig, SyncHeard) =>
           /\ strTrig' = {} /\ Near(strTiming') /\ pos = 71 /\ nextPos = 72
  BY <1>1, StreamSyncFacts
<1>6. /\ Phase \in 3..7 /\ SamplesPerFrame \in Nat /\ SamplesPerFrame >= 90
      /\ missing \in Nat /\ fakes \in Nat /\ syncCount \in Nat /\ nextPos \in Nat
      /\ MaxMissing \in Nat \ {0} /\ WindowOpens = 70 /\ WindowCloses = 87
      /\ missed \in Nat /\ pos \in Nat
  BY StepNumbers
<1>7. missed' \in Nat
  BY MissedNat
<1>8. /\ segment = "stream" /\ segment' = "stream" /\ fakes <= missing /\ framer = 0
      /\ missing < MaxMissing /\ syncCount <= 87 /\ pos' = nextPos /\ Phase' = Phase
      /\ syncSampleIndex = 0 \/ Near(syncSampleIndex)
  <2>1. TrackingOK /\ Control /\ LinkTypes
    BY DEF LinkStep, LinkInv, IInv
  <2>2. /\ segment = "stream" /\ fakes <= missing
        /\ (syncSampleIndex = 0 \/ Near(syncSampleIndex))
    BY <1>1, <2>1 DEF TrackingOK, Tracking
  <2>3. framer = 0 /\ missing < MaxMissing /\ syncCount <= 87
    BY <1>1, <1>6, <2>1 DEF Control, FramerCoherent, MissingInRange, WindowEndsSearch,
       LinkTypes, Tracking
  <2>4. QED
    BY <2>2, <2>3, StepFacts
<1>9. /\ demodState' = "FRAME" =>
           fakes' = (IF missing' = 0 THEN 0
                     ELSE IF fakes < MaxMissing THEN fakes + 1 ELSE fakes)
      /\ demodState' # "FRAME" => fakes' = fakes
  BY <1>1 DEF LinkStep, CountFakes
<1>10. CASE Detects(SyncHeard)
  <2>1. /\ Updated(strTrig, SyncHeard) /\ missing' = 0
        /\ IF syncCount' > 70
           THEN syncSampleIndex' = strTiming' /\ demodState' = "FRAME"
           ELSE demodState' = "STREAM_SYNC"
    BY <1>6, <1>10, StepFacts DEF Detects
  <2>2. strTrig' = {} /\ Near(strTiming') /\ nextPos = 72
    BY <1>5, <2>1
  <2>3. syncCount' = 82 - e
    BY <1>1, <1>4, <1>6, <2>2
  <2>4. syncSampleIndex' = strTiming' /\ demodState' = "FRAME"
    BY <2>1, <2>3
  <2>5. pos' - (sampleIndex' - Phase) \in 70..79
    BY <1>1, <1>3, <1>6, <1>8, <2>2 DEF Near
  <2>6. fakes' = 0
    BY <1>9, <2>1, <2>4
  <2>7. missing' <= missed' /\ fakes' <= missing'
    BY <1>7, <2>1, <2>6
  <2>8. Near(sampleIndex') /\ Near(syncSampleIndex')
    BY <1>1, <1>3, <2>2, <2>4
  <2>9. Rest'
    BY <1>1, <1>5, <1>8, <2>2, <2>4, <2>5, <2>7, <2>8, FrameBegins
  <2>10. QED
    BY <2>4, <2>9
<1>11. CASE MissesSync(SyncHeard)
  <2>1. /\ syncCount' > 87 /\ missing' = missing + 1
        /\ syncSampleIndex' = strTiming'
        /\ IF missing' >= MaxMissing THEN demodState' = "FIRST_SYNC"
           ELSE demodState' = "FRAME"
        /\ ~Updated(strTrig, SyncHeard)
    BY <1>6, <1>11, StepFacts DEF MissesSync, GivesUp
  <2>2. /\ syncCount' = 88 /\ nextPos = 78 + e /\ ~heard'
        /\ missed' = missed /\ missing < missed'
    <3>1. syncCount' = 88
      BY <1>1, <1>6, <1>8, <2>1
    <3>2. /\ nextPos = 78 + e /\ heard' = heard /\ missed' = missed
          /\ pos = nextPos - 1 /\ After(e)
          /\ ~heard' => missing < missed'
      BY <1>4, <1>6, <3>1
    <3>3. heard => pos <= 71
      BY <3>2 DEF After
    <3>4. QED
      BY <1>6, <3>1, <3>2, <3>3
  <2>3. ~SyncHeard /\ strTrig' = {}
    BY <1>5, <1>6, <2>2, HeardWhere
  <2>4. missing' <= missed'
    BY <1>6, <1>7, <2>1, <2>2
  <2>5. fakes' <= missing'
    BY <1>6, <1>8, <1>9, <2>1
  <2>6. Near(sampleIndex') /\ (syncSampleIndex' = 0 \/ Near(syncSampleIndex'))
    BY <1>1, <1>3, <1>5, <2>1
  <2>7. pos' - (sampleIndex' - Phase) \in 70..79
    BY <1>1, <1>3, <1>6, <1>8, <2>2
  <2>8. CASE demodState' = "FRAME"
    BY <1>1, <1>5, <1>8, <2>3, <2>4, <2>5, <2>6, <2>7, <2>8, FrameBegins
  <2>9. CASE demodState' = "FIRST_SYNC"
    <3>1. TriggersOK'
      BY <1>5, <1>8, <2>3 DEF TriggersOK, Near
    <3>2. TrackingOK' /\ FrameOK' /\ WindowOK'
      BY <2>9 DEF TrackingOK, FrameOK, WindowOK, Tracking
    <3>3. missing' >= MaxMissing
      BY <2>1, <2>9
    <3>4. missed >= MaxMissing
      <4>1. missing + 1 >= MaxMissing /\ missing + 1 <= missed
        BY <2>1, <2>2, <2>4, <3>3
      <4>2. QED
        BY <1>6, <4>1
    <3>5. QED
      BY <3>1, <3>2, <3>4 DEF Rest
  <2>10. QED
    BY <2>1, <2>8, <2>9
<1>12. CASE StillAwaits(SyncHeard)
  <2>1. /\ demodState' = "STREAM_SYNC" /\ missing' = missing
        /\ syncSampleIndex' = syncSampleIndex
        /\ ~Updated(strTrig, SyncHeard) /\ syncCount' <= 87
    BY <1>6, <1>12, StepFacts DEF StillAwaits
  <2>2. TriggersOK'
    <3>1. strTrig' # {} => pos' \in 69..71 /\ heard' /\ segment' = "stream"
      BY <1>5, <1>8, HeardWhere
    <3>2. QED
      BY <1>5, <1>8, <2>1, <3>1 DEF TriggersOK, Near
  <2>3. TrackingOK'
    <3>1. fakes' = fakes
      BY <1>9, <2>1
    <3>2. QED
      BY <1>1, <1>3, <1>8, <2>1, <3>1 DEF TrackingOK, Near
  <2>4. FrameOK'
    BY <2>1 DEF FrameOK
  <2>5. Before(e)' \/ After(e)'
    <3>1. CASE /\ syncCount' < 10 - e
               /\ nextPos = SamplesPerFrame - 10 + e + syncCount'
               /\ missing <= missed'
      BY <1>8, <2>1, <3>1 DEF Before
    <3>2. CASE /\ syncCount' >= 10 - e /\ nextPos = syncCount' - 10 + e
               /\ ~heard' => missing < missed'
               /\ \/ nextPos = 0
                  \/ heard' = heard /\ pos >= 0 /\ pos = nextPos - 1 /\ After(e)
      <4>1. nextPos >= 69 => pos = nextPos - 1 /\ heard' = heard /\ After(e)
        BY <3>2
      <4>2. heard' /\ nextPos \in 69..71 => strTrig' # {}
        <5>1. nextSegment = "stream"
          BY <1>8 DEF nextSegment
        <5>2. pos = nextPos - 1 /\ heard' = heard
                => (heard' /\ nextPos \in 69..71 => SyncHeard)
          BY <5>1, HeardWhere
        <5>3. nextPos \in 69..71 => nextPos >= 69
          OBVIOUS
        <5>4. QED
          BY <1>5, <4>1, <5>2, <5>3, Zenon
      <4>3. heard' => nextPos <= 71
        <5>1. SUFFICES ASSUME heard', nextPos >= 72 PROVE FALSE
          BY <1>6
        <5>2. heard /\ pos = nextPos - 1 /\ pos <= 71 /\ (pos >= 69 => strTrig # {})
          <6>1. nextPos >= 69
            BY <1>6, <5>1
          <6>2. pos = nextPos - 1 /\ heard /\ After(e)
            BY <4>1, <5>1, <6>1, Zenon
          <6>3. QED
            BY <6>2, Zenon DEF After
        <5>3. nextPos = 72 /\ pos = 71 /\ strTrig # {}
          BY <1>6, <5>1, <5>2
        <5>4. ~SyncHeard
          BY <5>3, HeardWhere
        <5>5. QED
          BY <2>1, <5>3, <5>4 DEF Updated
      <4>4. heard' => pos' <= 71 /\ (pos' >= 69 => strTrig' # {})
        BY <1>6, <1>8, <4>2, <4>3
      <4>5. /\ syncCount' >= 10 - e /\ pos' = syncCount' - 10 + e
            /\ (~heard' => missing' < missed')
        BY <1>8, <2>1, <3>2
      <4>6. QED
        BY <4>4, <4>5 DEF After
    <3>3. QED
      BY <1>4, <3>1, <3>2
  <2>6. WindowOK'
    BY <1>2, <1>3, <2>5 DEF WindowOK
  <2>7. QED
    BY <2>1, <2>2, <2>3, <2>4, <2>6 DEF Rest
<1>13. QED
  BY <1>10, <1>11, <1>12 DEF AwaitStreamSync

\* Where the next sample is in the symbol that is taken next, and that the sample index
\* is reached exactly at its end.
LEMMA NextSymbol ==
  ASSUME NEW si, LinkStep(si), demodState = "FRAME", sampleIndex' = si
  PROVE  /\ pos # SamplesPerFrame - 1 /\ nextPos = pos + 1
         /\ Near(si) /\ si \in 2..8
         /\ now = si => nextPos = (8 + framer) * 10 + (si - Phase)
         /\ now # si => nextPos - (si - Phase) \in (7 + framer) * 10 .. (8 + framer) * 10 - 1
<1>1. /\ Near(si)
      /\ si = sampleIndex \/ (now = 0 /\ si - sampleIndex \in -1..1)
      /\ Near(sampleIndex)
      /\ pos - (sampleIndex - Phase) \in (7 + framer) * 10 .. (8 + framer) * 10 - 1
  <2>1. demodState \in Tracking
    BY DEF Tracking
  <2>2. TrackingOK /\ FrameOK
    BY DEF LinkStep, LinkInv
  <2>3. QED
    BY <2>1, <2>2, ClockStaysNear DEF TrackingOK, FrameOK
<1>2. /\ Phase \in 3..7 /\ sampleIndex \in 0..9 /\ now \in 0..9
      /\ framer \in 0..FrameSymbols-1
      /\ pos \in 0..SamplesPerFrame-1 /\ SamplesPerFrame = 80 + 10 * FrameSymbols
      /\ FrameSymbols \in Nat
      /\ nextPos = IF pos = SamplesPerFrame - 1 THEN 0 ELSE pos + 1
  BY StepNumbers
<1>3. si \in Int
  <2>1. si \in Indexes
    <3>1. TypeOK'
      BY StepFacts DEF IInv
    <3>2. QED
      BY <3>1 DEF TypeOK
  <2>2. Indexes \subseteq Int
    BY FrameLength DEF LinkStep, LinkInv
  <2>3. QED
    BY <2>1, <2>2, Zenon
<1>4. /\ si - Phase \in -1..1 /\ si \in 2..8
      /\ sampleIndex - Phase \in -1..1 /\ sampleIndex \in 2..8
  BY <1>1, <1>2, <1>3 DEF Near
<1>5. pos # SamplesPerFrame - 1 /\ nextPos = pos + 1
  BY <1>1, <1>2, <1>4
<1>6. PICK m \in Int : now + 10 * m = Phase + nextPos
  BY StepNumbers
<1>7. CASE si = sampleIndex
  <2>1. nextPos - (si - Phase) \in (7 + framer) * 10 + 1 .. (8 + framer) * 10
    BY <1>1, <1>2, <1>4, <1>5, <1>7
  <2>2. now = si => nextPos - (si - Phase) = 10 * m
    BY <1>2, <1>4, <1>5, <1>6
  <2>3. now = si => m = 8 + framer
    BY <1>2, <1>4, <1>6, <2>1, <2>2
  <2>4. nextPos - (si - Phase) = (8 + framer) * 10 => now = si
    <3>1. SUFFICES ASSUME nextPos - (si - Phase) = (8 + framer) * 10 PROVE now = si
      OBVIOUS
    <3>2. now - si = 10 * (8 + framer - m)
      BY <1>2, <1>4, <1>5, <1>6, <3>1
    <3>3. now - si \in -8..7
      BY <1>2, <1>4
    <3>4. QED
      BY <1>2, <1>4, <3>2, <3>3
  <2>5. QED
    BY <1>1, <1>2, <1>4, <1>5, <2>1, <2>2, <2>3, <2>4
<1>8. CASE now = 0 /\ si - sampleIndex \in -1..1
  <2>1. now # si
    BY <1>4, <1>8
  <2>2. nextPos - (sampleIndex - Phase) = 10 * m - sampleIndex
    BY <1>2, <1>4, <1>5, <1>6, <1>8
  <2>3. nextPos - (sampleIndex - Phase) \in (7 + framer) * 10 + 1 .. (8 + framer) * 10
    BY <1>1, <1>2, <1>4, <1>5
  <2>4. m = 8 + framer
    BY <1>2, <1>4, <2>2, <2>3
  <2>5. nextPos - (si - Phase) = (8 + framer) * 10 - si
    BY <1>2, <1>4, <1>5, <2>2, <2>4
  <2>6. nextPos - (si - Phase) \in (7 + framer) * 10 .. (8 + framer) * 10 - 1
    BY <1>2, <1>4, <2>5
  <2>7. QED
    BY <1>1, <1>4, <1>5, <2>1, <2>6
<1>9. QED
  BY <1>1, <1>7, <1>8

\* A frame received: each symbol is taken in its place, and the window is entered where
\* the last one was taken.
LEMMA ReceiveFrameKeepsRest ==
  ASSUME NEW si, LinkStep(si), ReceiveFrame(si)
  PROVE  Rest'
<1>1. /\ demodState = "FRAME" /\ sampleIndex' = si /\ missing' = missing
      /\ strTrig' = strTrig /\ strTiming' = strTiming /\ syncSampleIndex' = syncSampleIndex
  BY DEF ReceiveFrame
<1>2. /\ nextPos = pos + 1 /\ pos # SamplesPerFrame - 1
      /\ Near(si) /\ si \in 2..8
      /\ now = si => nextPos = (8 + framer) * 10 + (si - Phase)
      /\ now # si => nextPos - (si - Phase) \in (7 + framer) * 10 .. (8 + framer) * 10 - 1
  BY <1>1, NextSymbol
<1>3. /\ Phase' = Phase /\ pos' = nextPos /\ missed' = missed /\ segment' = segment
  BY <1>2, StepFacts
<1>4. /\ strTrig = {} /\ (strTiming = 0 \/ Near(strTiming)) /\ segment = "stream"
      /\ syncSampleIndex = 0 \/ Near(syncSampleIndex)
      /\ fakes <= missing /\ missing <= missed
  BY <1>1 DEF LinkStep, LinkInv, TriggersOK, TrackingOK, FrameOK, Tracking
<1>5. fakes' = fakes
  BY <1>1 DEF LinkStep, CountFakes
<1>6. TriggersOK' /\ TrackingOK'
  <2>1. TriggersOK'
    BY <1>1, <1>3, <1>4 DEF TriggersOK, Near
  <2>2. TrackingOK'
    BY <1>1, <1>2, <1>3, <1>4, <1>5 DEF TrackingOK, Near
  <2>3. QED
    BY <2>1, <2>2
<1>7. /\ Phase \in 3..7 /\ framer \in Nat /\ pos \in Nat
      /\ SamplesPerFrame = 80 + 10 * FrameSymbols
      /\ FrameSymbols \in Nat
  BY StepNumbers
<1>8. CASE BetweenSymbols(si)
  <2>1. now # si /\ demodState' = "FRAME" /\ framer' = framer
    BY <1>8, StepFacts DEF BetweenSymbols
  <2>2. FrameOK'
    BY <1>1, <1>2, <1>3, <1>4, <2>1 DEF FrameOK
  <2>3. WindowOK'
    BY <2>1 DEF WindowOK
  <2>4. QED
    BY <1>6, <2>2, <2>3 DEF Rest
<1>9. CASE TakesSymbol(si)
  <2>1. now = si /\ demodState' = "FRAME" /\ framer' = framer + 1
    BY <1>9, StepFacts DEF TakesSymbol
  <2>2. pos' - (sampleIndex' - Phase) \in (7 + framer') * 10 .. (8 + framer') * 10 - 1
    BY <1>1, <1>2, <1>3, <1>7, <2>1
  <2>3. FrameOK'
    BY <1>1, <1>3, <1>4, <2>2 DEF FrameOK
  <2>4. WindowOK'
    BY <2>1 DEF WindowOK
  <2>5. QED
    BY <1>6, <2>3, <2>4 DEF Rest
<1>10. CASE CompletesFrame(si)
  <2>1. now = si /\ framer + 1 = FrameSymbols /\ needClockUpdate' = TRUE
    BY <1>10 DEF CompletesFrame
  <2>2. \/ demodState' \in {"UNLOCKED", "FIRST_SYNC"}
        \/ demodState' = "STREAM_SYNC" /\ syncCount' = 0
    BY <1>10, StepFacts DEF CompletesFrame, ClearsSyncCount
  <2>3. CASE demodState' \in {"UNLOCKED", "FIRST_SYNC"}
    <3>1. FrameOK' /\ WindowOK'
      BY <2>3 DEF FrameOK, WindowOK
    <3>2. QED
      BY <1>6, <3>1 DEF Rest
  <2>4. CASE demodState' = "STREAM_SYNC" /\ syncCount' = 0
    <3>1. FrameOK'
      BY <2>4 DEF FrameOK
    <3>2. /\ si - Phase \in -1..1
          /\ sampleIndex' = Phase + (si - Phase)
          /\ syncCount' < 10 - (si - Phase)
          /\ pos' = SamplesPerFrame - 10 + (si - Phase) + syncCount'
      BY <1>1, <1>2, <1>3, <1>7, <2>1, <2>4 DEF Near
    <3>3. WindowOK'
      BY <1>1, <1>3, <1>4, <2>1, <2>4, <3>2 DEF WindowOK, Drift, Before
    <3>4. QED
      BY <1>6, <3>1, <3>3 DEF Rest
  <2>5. QED
    BY <2>2, <2>3, <2>4
<1>11. QED
  BY <1>8, <1>9, <1>10 DEF ReceiveFrame

-----------------------------------------------------------------------------
(***************************************************************************)
(* The theorems                                                             *)
(***************************************************************************)
\* The carrier was just found, with whatever the transmission before left.
LEMMA LinkInvHoldsAtFirst ==
  ASSUME WellPhased, LinkInit
  PROVE  LinkInv
<1>1. IInv
  <2>1. TypeOK
    <3>1. Indexes = 0..9 /\ SPS = 10 /\ WindowCloses = 87 /\ SamplesPerFrame \in Nat
      BY FrameLength DEF WellPhased
    <3>2. index \in Indexes /\ clockPhase \in Indexes /\ strTiming \in Indexes
      BY <3>1 DEF LinkInit
    <3>3. preTrig \subseteq Indexes /\ strTrig \subseteq Indexes
      BY DEF LinkInit
    <3>4. framer \in 0..FrameSymbols-1 /\ costCount \in 0..CostLimit
      BY DemodAssumption DEF LinkInit
    <3>5. sampleIndex \in Indexes /\ syncSampleIndex \in Indexes
      BY DEF LinkInit
    <3>6. syncCount \in 0..WindowCloses+1 /\ missing \in 0..SamplesPerFrame
      BY <3>1 DEF LinkInit
    <3>7. /\ needClockReset \in BOOLEAN /\ needClockUpdate \in BOOLEAN
          /\ dcd \in BOOLEAN /\ carrier \in BOOLEAN /\ cobsFresh \in BOOLEAN
          /\ count \in Nat
          /\ demodState \in {"UNLOCKED", "FIRST_SYNC", "STREAM_SYNC", "FRAME"}
      BY DEF LinkInit
    <3>8. QED
      BY <3>2, <3>3, <3>4, <3>5, <3>6, <3>7, Zenon DEF TypeOK
  <2>2. Control
    BY DEF LinkInit, Control, FramerCoherent, CobsResetBeforeFrames, MissingInRange,
           WindowEndsSearch, Tracking
  <2>3. ClockInStep
    BY DEF LinkInit, ClockInStep
  <2>4. QED
    BY <2>1, <2>2, <2>3 DEF IInv
<1>2. LinkTypes
  <2>1. SPS = 10 /\ SamplesPerFrame \in Nat /\ SamplesPerFrame >= 90 /\ MaxMissing \in Nat
    BY FrameLength, DemodAssumption DEF WellPhased
  <2>2. pos \in 0..SamplesPerFrame-1
    BY <2>1 DEF LinkInit
  <2>3. QED
    BY <2>1, <2>2 DEF LinkInit, LinkTypes
<1>3. TriggersOK /\ TrackingOK /\ FrameOK /\ WindowOK
  BY DEF LinkInit, TriggersOK, TrackingOK, FrameOK, WindowOK, Tracking
<1>4. QED
  BY <1>1, <1>2, <1>3 DEF LinkInv

\* Each handler keeps the invariant.
LEMMA LinkStepKeepsRest ==
  ASSUME NEW si, LinkStep(si)
  PROVE  Rest'
<1>1. \/ SeekPreamble(PreambleHeard, si)
      \/ SeekStream(SyncHeard, si)
      \/ SeekFirstSync(PreambleHeard, SyncHeard, si)
      \/ AwaitStreamSync(SyncHeard, si)
      \/ ReceiveFrame(si)
  BY DEF LinkStep, Sample
<1>2. QED
  BY <1>1, SeekPreambleKeepsRest, SeekStreamKeepsRest, SeekFirstSyncKeepsRest,
     AwaitStreamSyncKeepsRest, ReceiveFrameKeepsRest

\* A step of the system on a transmission is one of LinkStep's.
LEMMA LinkNextSteps ==
  ASSUME LinkInv, LinkNext
  PROVE  \E si : LinkStep(si)
BY DEF LinkNext, LinkStep

\* So does every step.
LEMMA LinkNextKeepsLinkInv ==
  ASSUME LinkInv, [LinkNext]_allVars
  PROVE  LinkInv'
<1>1. CASE LinkNext
  <2>1. PICK si : LinkStep(si)
    BY <1>1, LinkNextSteps
  <2>2. LinkTypes' /\ IInv'
    BY <2>1, StepFacts
  <2>3. Rest'
    BY <2>1, LinkStepKeepsRest
  <2>4. WellPhased
    BY DEF LinkInv
  <2>5. QED
    BY <2>2, <2>3, <2>4 DEF LinkInv, Rest
<1>2. CASE UNCHANGED allVars
  <2>1. UNCHANGED vars /\ UNCHANGED linkVars
    BY <1>2 DEF allVars
  <2>2. Phase' = Phase
    BY <2>1 DEF Phase, vars, linkVars
  <2>3. IInv'
    BY <2>1 DEF LinkInv, IInv, TypeOK, Control, FramerCoherent, CobsResetBeforeFrames,
       MissingInRange, WindowEndsSearch, ClockInStep, Tracking, vars
  <2>4. LinkTypes'
    BY <2>1, <2>2 DEF LinkInv, LinkTypes, vars, linkVars
  <2>5. TriggersOK'
    BY <2>1, <2>2 DEF LinkInv, TriggersOK, Near, vars, linkVars
  <2>6. TrackingOK' /\ FrameOK'
    BY <2>1, <2>2 DEF LinkInv, TrackingOK, FrameOK, Near, Tracking, vars, linkVars
  <2>7. WindowOK'
    BY <2>1, <2>2 DEF LinkInv, WindowOK, Drift, Before, After, vars, linkVars
  <2>8. QED
    BY <2>3, <2>4, <2>5, <2>6, <2>7 DEF LinkInv
<1>3. QED
  BY <1>1, <1>2

\* In every state of the demodulator the transmitter is where LinkInv says.
THEOREM LinkInvariant == WellPhased /\ LinkSpec => []LinkInv
<1>1. WellPhased /\ LinkInit => LinkInv
  BY LinkInvHoldsAtFirst
<1>2. LinkInv /\ [LinkNext]_allVars => LinkInv'
  BY LinkNextKeepsLinkInv
<1>3. QED
  BY <1>1, <1>2, PTL DEF LinkSpec

\* The symbol the framer takes is the one the frame has at this place.
LEMMA TakenInPlace ==
  ASSUME LinkInv, [LinkNext]_allVars
  PROVE  framer' # framer => At(nextPos, FirstPayload + framer)
<1>1. SUFFICES ASSUME framer' # framer
               PROVE  At(nextPos, FirstPayload + framer)
  OBVIOUS
<1>2. LinkNext
  BY <1>1 DEF allVars, vars
<1>3. PICK si : LinkStep(si)
  BY <1>2, LinkNextSteps
<1>4. ReceiveFrame(si) /\ ~BetweenSymbols(si)
  BY <1>1, <1>3 DEF LinkStep, Sample, SeekPreamble, SeekStream, SeekFirstSync,
     AwaitStreamSync,
     ReceiveFrame, BetweenSymbols
<1>5. now = si /\ demodState = "FRAME" /\ sampleIndex' = si
  BY <1>4 DEF ReceiveFrame, TakesSymbol, CompletesFrame
<1>6. nextPos = (8 + framer) * 10 + (si - Phase) /\ si - Phase \in -1..1
  BY <1>3, <1>5, NextSymbol DEF Near
<1>7. SPS = 10 /\ FirstPayload = 8 /\ framer \in Nat /\ Phase \in 3..7 /\ now \in 0..9
  BY <1>3, StepNumbers
<1>8. QED
  BY <1>5, <1>6, <1>7 DEF At

\* Every symbol do_frame gives the framer is the symbol of the frame it is taken for,
\* however long sync words were missed.
THEOREM SymbolsAligned == WellPhased /\ LinkSpec => Aligned
<1>1. LinkInv /\ [LinkNext]_allVars
        => [framer' # framer => At(nextPos, FirstPayload + framer)]_allVars
  BY TakenInPlace
<1>2. QED
  BY <1>1, LinkInvariant, PTL DEF LinkSpec, Aligned

\* do_stream_sync gives up when MaxMissing words were missed.
LEMMA GivenUpOnlyMissing ==
  ASSUME LinkInv, [LinkNext]_allVars
  PROVE  demodState = "STREAM_SYNC" /\ demodState' = "FIRST_SYNC" => missed >= MaxMissing
<1>1. SUFFICES ASSUME demodState = "STREAM_SYNC", demodState' = "FIRST_SYNC"
               PROVE  missed >= MaxMissing
  OBVIOUS
<1>2. LinkNext
  BY <1>1 DEF allVars, vars
<1>3. PICK si : LinkStep(si)
  BY <1>2, LinkNextSteps
<1>4. AwaitStreamSync(SyncHeard, si)
  BY <1>1, <1>3 DEF LinkStep, Sample, SeekPreamble, SeekStream, SeekFirstSync, ReceiveFrame
<1>5. QED
  BY <1>1, <1>3, <1>4, AwaitStreamSyncKeepsRest

\* do_stream_sync never gives frames up while sync words are heard.
THEOREM TrackingKept == WellPhased /\ LinkSpec => KeepsTracking
<1>1. LinkInv /\ [LinkNext]_allVars
        => [demodState = "STREAM_SYNC" /\ demodState' = "FIRST_SYNC"
              => missed >= MaxMissing]_allVars
  BY GivenUpOnlyMissing
<1>2. QED
  BY <1>1, LinkInvariant, PTL DEF LinkSpec, KeepsTracking

\* Fewer than MaxMissing frames in a row are received on an old sync word.
THEOREM FreewheelingIsBounded == WellPhased /\ LinkSpec => []FreewheelingBounded
<1>1. LinkInv => FreewheelingBounded
  <2>1. SUFFICES ASSUME LinkInv, demodState = "FRAME" PROVE fakes < MaxMissing
    BY DEF FreewheelingBounded
  <2>2. fakes <= missing /\ missing < MaxMissing
    BY <2>1 DEF LinkInv, TrackingOK, Tracking, IInv, Control, MissingInRange
  <2>3. fakes \in Nat /\ missing \in Nat /\ MaxMissing \in Nat
    BY <2>1, FrameLength, DemodAssumption DEF LinkInv, LinkTypes, IInv, TypeOK
  <2>4. QED
    BY <2>2, <2>3
<1>2. QED
  BY <1>1, LinkInvariant, PTL
=============================================================================
