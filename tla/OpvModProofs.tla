---------------------------- MODULE OpvModProofs ----------------------------
(***************************************************************************)
(* Theorems about OpvMod, for every size of the queue and of a frame, every *)
(* number of samples and of BERT frames: type correctness, and that the     *)
(* waits of the two threads always have a reason, so that neither sleeps    *)
(* through what it waits for and the two never wait for each other.         *)
(***************************************************************************)
EXTENDS OpvMod, DataInduction

\* Only the transmit thread gets and only the main thread puts; what main puts is a
\* sample it has read.
WaitersOK == waitingEmpty \subseteq {"tx"} /\ waitingFull \subseteq {"main"}
SampleOK == main = "put" => sample \in Samples

ControlOK ==
  /\ mode \in Modes /\ network \in BOOLEAN /\ running \in BOOLEAN
  /\ main \in Modes \cup {"leadin", "begin", "loop", "read", "put", "finish", "close",
                          "join", "exited"}
  /\ tx \in {"none", "start", "first", "peek", "loop", "get", "flush", "done", "aborted"}
  /\ {stdinEnded, interrupted, stalled} \subseteq BOOLEAN
DataOK ==
  /\ nRead \in 0..MaxSamples /\ sample \in 0..MaxSamples
  /\ audio \in Audio /\ index \in 0..FrameSize-1
  /\ frameCount \in 0..BertFrames
QueueOK == QueueTypeOK(Threads, Samples)
AirOK == air \in Seq(Items)

QueueInv == QueueOK /\ WaitersOK /\ NoLostWakeup

\* The inductive invariant.
IInv == QueueInv /\ ControlOK /\ DataOK /\ AirOK /\ SampleOK

-----------------------------------------------------------------------------
LEMMA ConcatIsSeq ==
  ASSUME NEW S, NEW s \in Seq(S), NEW t \in Seq(S)
  PROVE  s \o t \in Seq(S)
  OBVIOUS

LEMMA SilentAudioIsAudio == SilentAudio \in Audio
  BY DEF SilentAudio, Audio

LEMMA MarkersAreItems ==
  /\ DeadCarrier \in Seq(Items) /\ Preamble \in Seq(Items) /\ Eot \in Seq(Items)
<1>1. Sink \in Sinks /\ "stdout" \in Sinks
  BY DEF Sink, Sinks
<1>2. /\ [what |-> "carrier", to |-> Sink] \in Items
      /\ [what |-> "preamble", to |-> Sink] \in Items
      /\ [what |-> "eot", to |-> "stdout"] \in Items
  BY <1>1 DEF Items, Markers
<1>3. QED
  BY <1>2 DEF DeadCarrier, Preamble, Eot

LEMMA BertFrameIsItem ==
  ASSUME NEW last \in BOOLEAN
  PROVE  BertFrame(last) \in Seq(Items)
<1>1. [what |-> "bert", to |-> Sink, last |-> last] \in Items
  BY DEF Items, BertItems, VoiceItems, Sink, Sinks
<1>2. QED
  BY <1>1 DEF BertFrame

LEMMA VoiceFrameIsItem ==
  ASSUME NEW a \in Audio, NEW last \in BOOLEAN
  PROVE  VoiceFrame(a, last) \in Seq(Items)
<1>1. [what |-> "voice", to |-> Sink, audio |-> a, last |-> last] \in Items
  BY DEF Items, BertItems, VoiceItems, Sink, Sinks
<1>2. QED
  BY <1>1 DEF VoiceFrame

LEMMA IInvImplies == IInv => TypeOK /\ NoLostWakeup
  BY DEF IInv, QueueInv, QueueOK, ControlOK, DataOK, AirOK, TypeOK

-----------------------------------------------------------------------------
LEMMA InitEstablishes == Init => IInv
<1>1. SUFFICES ASSUME Init PROVE IInv
  OBVIOUS
<1>2. QueueOK /\ WaitersOK /\ NoLostWakeup
  BY <1>1, SizeAssumption
  DEF Init, QueueInit, QueueOK, QueueTypeOK, WaitersOK, NoLostWakeup
<1>3. ControlOK /\ SampleOK
  BY <1>1 DEF Init, ControlOK, SampleOK
<1>4. DataOK
  BY <1>1, SizeAssumption, ModAssumption DEF Init, DataOK, Audio, FrameSize, Silence
<1>5. AirOK
  BY <1>1 DEF Init, AirOK
<1>6. QED
  BY <1>2, <1>3, <1>4, <1>5 DEF IInv, QueueInv

(***************************************************************************)
(* The queue's own steps, whatever else their caller does.                 *)
(***************************************************************************)
\* put wakes the thread that waits for an item: there is only one.
LEMMA PutKeeps ==
  ASSUME QueueInv, NEW v \in Samples, PutAppends("main", v)
  PROVE  QueueInv'
<1>1. waitingEmpty' = {}
  BY DEF QueueInv, WaitersOK, PutAppends, NotifyOne
<1>2. items' \in Seq(Samples) /\ Len(items') <= SIZE
  BY SizeAssumption DEF QueueInv, QueueOK, QueueTypeOK, PutAppends
<1>3. "main" \notin waitingFull'
  BY DEF PutAppends, Awake
<1>4. QED
  BY <1>1, <1>2, <1>3
  DEF QueueInv, QueueOK, QueueTypeOK, WaitersOK, NoLostWakeup, PutAppends

\* get wakes the thread that waits for room: there is only one.
LEMMA GetKeeps ==
  ASSUME QueueInv, NEW v \in Samples, GetTakes("tx", v)
  PROVE  QueueInv'
<1>1. waitingFull' = {}
  BY DEF QueueInv, WaitersOK, GetTakes, NotifyOne
<1>2. items' \in Seq(Samples) /\ Len(items') <= SIZE
  BY SizeAssumption DEF QueueInv, QueueOK, QueueTypeOK, GetTakes
<1>3. "tx" \notin waitingEmpty'
  BY DEF GetTakes, Awake
<1>4. QED
  BY <1>1, <1>2, <1>3
  DEF QueueInv, QueueOK, QueueTypeOK, WaitersOK, NoLostWakeup, GetTakes

\* A thread starts to wait only when it has a reason to.
LEMMA WaitKeeps ==
  ASSUME QueueInv, PutWaits("main") \/ GetWaits("tx")
  PROVE  QueueInv'
<1>1. CASE PutWaits("main")
  BY <1>1
  DEF QueueInv, QueueOK, QueueTypeOK, WaitersOK, NoLostWakeup, PutWaits, Threads
<1>2. CASE GetWaits("tx")
  BY <1>2
  DEF QueueInv, QueueOK, QueueTypeOK, WaitersOK, NoLostWakeup, GetWaits, Threads
<1>3. QED
  BY <1>1, <1>2

\* Waits that end leave the others as they were; close() ends them all.
LEMMA EndOfWaitKeeps ==
  ASSUME QueueInv, NEW t \in Threads,
         WaitExpires(t) \/ WaitEndsSpuriously(t) \/ CallTimesOut(t) \/ Close(t)
  PROVE  QueueInv'
<1>1. CASE WaitExpires(t)
  BY <1>1
  DEF QueueInv, QueueOK, QueueTypeOK, WaitersOK, NoLostWakeup, WaitExpires
<1>2. CASE WaitEndsSpuriously(t)
  BY <1>2
  DEF QueueInv, QueueOK, QueueTypeOK, WaitersOK, NoLostWakeup, WaitEndsSpuriously
<1>3. CASE CallTimesOut(t)
  BY <1>3
  DEF QueueInv, QueueOK, QueueTypeOK, WaitersOK, NoLostWakeup, CallTimesOut
<1>4. CASE Close(t)
  BY <1>4
  DEF QueueInv, QueueOK, QueueTypeOK, WaitersOK, NoLostWakeup, Close
<1>5. QED
  BY <1>1, <1>2, <1>3, <1>4

LEMMA QueueLeftAlone ==
  ASSUME QueueInv, UNCHANGED qvars
  PROVE  QueueInv'
  BY DEF QueueInv, QueueOK, QueueTypeOK, WaitersOK, NoLostWakeup, qvars

(***************************************************************************)
(* The steps of the program.                                               *)
(***************************************************************************)
LEMMA SigintKeeps == ASSUME IInv, Sigint PROVE IInv'
<1>1. QueueInv'
  BY QueueLeftAlone DEF IInv, Sigint, unchangedQueue
<1>2. (ControlOK /\ DataOK /\ AirOK /\ SampleOK)'
  BY DEF IInv, ControlOK, DataOK, AirOK, SampleOK, Sigint, unchangedConfig,
         unchangedInput, unchangedTx
<1>3. QED
  BY <1>1, <1>2 DEF IInv

\* What the steps of main have in common that leave the queue, the input and the
\* transmit thread alone.
MainOnly ==
  /\ unchangedConfig /\ unchangedQueue /\ unchangedInput /\ unchangedTx
  /\ unchangedNotes

LEMMA MainOnlyKeeps ==
  ASSUME IInv, MainOnly,
         main' \in {"begin", "loop", "read", "finish", "close", "exited"} \cup Modes,
         running' \in BOOLEAN, frameCount' \in 0..BertFrames, air' \in Seq(Items)
  PROVE  IInv'
<1>1. QueueInv'
  BY QueueLeftAlone DEF IInv, MainOnly, unchangedQueue
<1>2. ControlOK' /\ SampleOK'
  BY DEF IInv, ControlOK, SampleOK, Modes, MainOnly, unchangedConfig, unchangedInput,
         unchangedTx, unchangedNotes
<1>3. DataOK' /\ AirOK'
  BY DEF IInv, DataOK, AirOK, MainOnly, unchangedInput, unchangedTx
<1>4. QED
  BY <1>1, <1>2, <1>3 DEF IInv

LEMMA SendingKeeps ==
  ASSUME IInv, LeadIn \/ SendPreamble \/ SendBertFrame \/ EndBert
  PROVE  IInv'
<1>1. air \in Seq(Items) /\ running \in BOOLEAN /\ frameCount \in 0..BertFrames
  BY DEF IInv, AirOK, ControlOK, DataOK
<1>2. CASE LeadIn
  <2>1. DeadCarrier \o DeadCarrier \o Preamble \in Seq(Items)
    BY MarkersAreItems, ConcatIsSeq
  <2>2. air' \in Seq(Items)
    BY <1>2, <2>1 DEF LeadIn
  <2>3. QED
    BY <1>1, <1>2, <2>2, MainOnlyKeeps DEF LeadIn, MainStep, MainOnly
<1>3. CASE SendPreamble
  <2>1. air \o Preamble \in Seq(Items)
    BY <1>1, MarkersAreItems, ConcatIsSeq
  <2>2. air' = air \o Preamble \/ air' = air
    BY <1>3 DEF SendPreamble
  <2>3. air' \in Seq(Items)
    BY <1>1, <2>1, <2>2
  <2>4. QED
    BY <1>1, <1>3, <2>3, MainOnlyKeeps DEF SendPreamble, MainStep, MainOnly, Modes
<1>4. CASE SendBertFrame
  <2>1. LastBertFrame \in BOOLEAN
    BY DEF LastBertFrame
  <2>2. air' \in Seq(Items)
    BY <1>1, <1>4, <2>1, BertFrameIsItem DEF SendBertFrame
  <2>3. frameCount' \in 0..BertFrames
    BY <1>1, <1>4, ModAssumption DEF SendBertFrame
  <2>4. QED
    BY <1>1, <1>4, <2>2, <2>3, MainOnlyKeeps DEF SendBertFrame, MainStep, MainOnly, Modes
<1>5. CASE EndBert
  <2>1. air' \in Seq(Items)
    BY <1>1, <1>5, MarkersAreItems DEF EndBert
  <2>2. QED
    BY <1>1, <1>5, <2>1, MainOnlyKeeps DEF EndBert, MainStep, MainOnly
<1>6. QED
  BY <1>2, <1>3, <1>4, <1>5

LEMMA MainControlKeeps ==
  ASSUME IInv, TestRunning \/ StopRunning \/ JoinTransmit
  PROVE  IInv'
<1>1. air \in Seq(Items) /\ running \in BOOLEAN /\ frameCount \in 0..BertFrames
  BY DEF IInv, AirOK, ControlOK, DataOK
<1>2. CASE TestRunning
  BY <1>1, <1>2, MainOnlyKeeps DEF TestRunning, MainStep, MainOnly
<1>3. CASE StopRunning
  BY <1>1, <1>3, MainOnlyKeeps DEF StopRunning, MainStep, MainOnly
<1>4. CASE JoinTransmit
  BY <1>1, <1>4, MainOnlyKeeps DEF JoinTransmit, MainStep, MainOnly
<1>5. QED
  BY <1>2, <1>3, <1>4

LEMMA BeginKeeps == ASSUME IInv, Begin PROVE IInv'
<1>1. QueueInv'
  BY QueueLeftAlone DEF IInv, Begin, unchangedQueue
<1>2. main' \in Modes \cup {"loop"} /\ tx' \in {"none", "start"}
  BY DEF IInv, ControlOK, Begin, MainStep, Modes
<1>3. ControlOK' /\ SampleOK'
  BY <1>2 DEF IInv, ControlOK, SampleOK, Begin, Modes, unchangedConfig, unchangedInput,
              unchangedNotes
<1>4. DataOK' /\ AirOK'
  BY DEF IInv, DataOK, AirOK, Begin, unchangedInput
<1>5. QED
  BY <1>1, <1>3, <1>4 DEF IInv

\* A sample that is read is one of the samples, until it is put.
LEMMA StdinKeeps == ASSUME IInv, StdinNext PROVE IInv'
<1>1. QueueInv'
  BY QueueLeftAlone DEF IInv, StdinNext, ReadSample, EndOfInput, unchangedQueue
<1>2. DataOK' /\ SampleOK' /\ AirOK'
  <2>1. CASE ReadSample
    BY <2>1, ModAssumption
    DEF IInv, DataOK, SampleOK, AirOK, ReadSample, Samples, unchangedTx
  <2>2. CASE EndOfInput
    BY <2>2 DEF IInv, DataOK, SampleOK, AirOK, EndOfInput, MainStep, unchangedTx
  <2>3. QED
    BY <2>1, <2>2 DEF StdinNext
<1>3. ControlOK'
  BY DEF IInv, ControlOK, StdinNext, ReadSample, EndOfInput, MainStep, unchangedConfig,
         unchangedTx, unchangedNotes
<1>4. QED
  BY <1>1, <1>2, <1>3 DEF IInv

LEMMA PutSampleKeeps == ASSUME IInv, PutSample PROVE IInv'
<1>1. QueueInv'
  <2>1. CASE main = "put" /\ PutAppends("main", sample)
    BY <2>1, PutKeeps DEF IInv, SampleOK
  <2>2. CASE PutWaits("main")
    BY <2>2, WaitKeeps DEF IInv
  <2>3. CASE CallTimesOut("main")
    BY <2>3, EndOfWaitKeeps DEF IInv, Threads
  <2>4. QED
    BY <2>1, <2>2, <2>3 DEF PutSample, MainStep
<1>2. ControlOK' /\ SampleOK'
  BY DEF IInv, ControlOK, SampleOK, PutSample, MainStep, unchangedConfig, unchangedInput,
         unchangedTx, unchangedNotes
<1>3. DataOK' /\ AirOK'
  BY DEF IInv, DataOK, AirOK, PutSample, unchangedInput, unchangedTx
<1>4. QED
  BY <1>1, <1>2, <1>3 DEF IInv

LEMMA CloseQueueKeeps == ASSUME IInv, CloseQueue PROVE IInv'
<1>1. QueueInv'
  BY EndOfWaitKeeps DEF IInv, CloseQueue, Threads
<1>2. ControlOK' /\ SampleOK'
  BY DEF IInv, ControlOK, SampleOK, CloseQueue, MainStep, unchangedConfig,
         unchangedInput, unchangedTx, unchangedNotes
<1>3. DataOK' /\ AirOK'
  BY DEF IInv, DataOK, AirOK, CloseQueue, unchangedInput, unchangedTx
<1>4. QED
  BY <1>1, <1>2, <1>3 DEF IInv

-----------------------------------------------------------------------------
\* What the steps of the transmit thread have in common.
LEMMA TxKeeps ==
  ASSUME IInv, txUnchanged, QueueInv',
         tx' \in {"first", "peek", "loop", "get", "flush", "done", "aborted"},
         audio' \in Audio, index' \in 0..FrameSize-1, air' \in Seq(Items)
  PROVE  IInv'
<1>1. ControlOK' /\ SampleOK'
  BY DEF IInv, ControlOK, SampleOK, txUnchanged, unchangedConfig, unchangedInput
<1>2. DataOK' /\ AirOK'
  BY DEF IInv, DataOK, AirOK, txUnchanged, unchangedInput
<1>3. QED
  BY <1>1, <1>2 DEF IInv

LEMMA TxControlKeeps ==
  ASSUME IInv, TxStart \/ TxAborts \/ TxAwaitFirst \/ TxTestClosed
  PROVE  IInv'
<1>1. air \in Seq(Items) /\ audio \in Audio /\ index \in 0..FrameSize-1
  BY DEF IInv, AirOK, DataOK
<1>2. QueueInv' /\ txUnchanged /\ UNCHANGED <<audio, index, air>>
  BY QueueLeftAlone
  DEF IInv, TxStart, TxAborts, TxAwaitFirst, TxTestClosed, unchangedQueue
<1>3. tx' \in {"first", "peek", "loop", "get", "flush", "aborted"}
  BY DEF TxStart, TxAborts, TxAwaitFirst, TxTestClosed, TxStep
<1>4. QED
  BY <1>1, <1>2, <1>3, TxKeeps

LEMMA TxTakesSampleKeeps == ASSUME IInv, TxTakesSample PROVE IInv'
<1>1. PICK v \in Samples :
        /\ GetTakes("tx", v)
        /\ LET a == [audio EXCEPT ![index + 1] = v]
           IN  IF index + 1 = FrameSize
               THEN /\ air' = air \o VoiceFrame(a, FALSE)
                    /\ audio' = ClearAudio(a)
                    /\ index' = 0
               ELSE /\ audio' = a
                    /\ index' = index + 1
                    /\ UNCHANGED air
  BY DEF TxTakesSample
<1>2. QueueInv'
  BY <1>1, GetKeeps DEF IInv
<1> DEFINE a == [audio EXCEPT ![index + 1] = v]
<1>3. a \in Audio
  BY DEF IInv, DataOK, Audio
<1>4. audio' \in Audio
  BY <1>1, <1>3, SilentAudioIsAudio DEF ClearAudio
<1>5. index' \in 0..FrameSize-1
  <2>1. \/ index + 1 = FrameSize /\ index' = 0
        \/ index + 1 # FrameSize /\ index' = index + 1
    BY <1>1
  <2>2. index \in 0..FrameSize-1
    BY DEF IInv, DataOK
  <2>3. QED
    BY <2>1, <2>2, SizeAssumption DEF FrameSize
<1>6. air' \in Seq(Items)
  <2>1. VoiceFrame(a, FALSE) \in Seq(Items)
    BY <1>3, VoiceFrameIsItem
  <2>2. air' = air \o VoiceFrame(a, FALSE) \/ air' = air
    BY <1>1
  <2>3. air \in Seq(Items)
    BY DEF IInv, AirOK
  <2> HIDE DEF a
  <2>4. QED
    BY <2>1, <2>2, <2>3, ConcatIsSeq
<1>7. tx' = "loop" /\ txUnchanged
  BY DEF TxTakesSample, TxStep
<1>8. QED
  BY <1>2, <1>4, <1>5, <1>6, <1>7, TxKeeps

LEMMA TxFindsNothingKeeps == ASSUME IInv, TxFindsNothing PROVE IInv'
<1>1. QueueInv'
  <2>1. CASE GetWaits("tx")
    BY <2>1, WaitKeeps DEF IInv
  <2>2. CASE GetFindsClosed("tx")
    BY <2>2, QueueLeftAlone DEF IInv, GetFindsClosed
  <2>3. CASE CallTimesOut("tx")
    BY <2>3, EndOfWaitKeeps DEF IInv, Threads
  <2>4. QED
    BY <2>1, <2>2, <2>3 DEF TxFindsNothing
<1>2. tx' \in {"get", "flush"} /\ txUnchanged /\ UNCHANGED <<audio, index, air>>
  BY DEF TxFindsNothing, TxStep
<1>3. audio' \in Audio /\ index' \in 0..FrameSize-1 /\ air' \in Seq(Items)
  BY <1>2 DEF IInv, DataOK, AirOK
<1>4. QED
  BY <1>1, <1>2, <1>3, TxKeeps

LEMMA TxEndsKeeps == ASSUME IInv, TxEnds PROVE IInv'
<1>1. QueueInv'
  BY QueueLeftAlone DEF IInv, TxEnds, unchangedQueue
<1>2. audio' \in Audio /\ index' \in 0..FrameSize-1
  BY SilentAudioIsAudio DEF IInv, DataOK, TxEnds
<1>3. air' \in Seq(Items)
  <2>1. Flush(audio, index) \in Seq(Items)
    <3>1. VoiceFrame(audio, FALSE) \in Seq(Items)
      BY VoiceFrameIsItem DEF IInv, DataOK
    <3>2. << >> \in Seq(Items)
      OBVIOUS
    <3>3. QED
      BY <3>1, <3>2 DEF Flush
  <2>2. VoiceFrame(SilentAudio, TRUE) \in Seq(Items)
    BY SilentAudioIsAudio, VoiceFrameIsItem
  <2>3. air \in Seq(Items)
    BY DEF IInv, AirOK
  <2>4. air \o Flush(audio, index) \in Seq(Items)
    BY <2>1, <2>3, ConcatIsSeq
  <2>5. air \o Flush(audio, index) \o VoiceFrame(SilentAudio, TRUE) \in Seq(Items)
    BY <2>2, <2>4, ConcatIsSeq
  <2>6. air \o Flush(audio, index) \o VoiceFrame(SilentAudio, TRUE) \o Eot \in Seq(Items)
    BY <2>5, MarkersAreItems, ConcatIsSeq
  <2>7. QED
    BY <2>6 DEF TxEnds
<1>4. tx' = "done" /\ txUnchanged
  BY DEF TxEnds, TxStep
<1>5. QED
  BY <1>1, <1>2, <1>3, <1>4, TxKeeps

LEMMA EndsOfWaitsKeep == ASSUME IInv, Timer \/ Spurious PROVE IInv'
<1>1. PICK t \in Threads : WaitExpires(t) \/ WaitEndsSpuriously(t)
  BY DEF Timer, Spurious, Threads
<1>2. QueueInv'
  BY <1>1, EndOfWaitKeeps DEF IInv
<1>3. ControlOK' /\ SampleOK'
  BY DEF IInv, ControlOK, SampleOK, Timer, Spurious, unchangedConfig, unchangedInput,
         unchangedNotes
<1>4. DataOK' /\ AirOK'
  BY DEF IInv, DataOK, AirOK, Timer, Spurious, unchangedInput
<1>5. QED
  BY <1>2, <1>3, <1>4 DEF IInv

LEMMA StutteringKeeps == ASSUME IInv, UNCHANGED vars PROVE IInv'
<1>1. QueueInv'
  BY QueueLeftAlone DEF IInv, vars
<1>2. (ControlOK /\ DataOK /\ AirOK /\ SampleOK)'
  BY DEF IInv, ControlOK, DataOK, AirOK, SampleOK, vars
<1>3. QED
  BY <1>1, <1>2 DEF IInv

LEMMA NextKeeps == IInv /\ [Next]_vars => IInv'
<1>1. SUFFICES ASSUME IInv, [Next]_vars PROVE IInv'
  OBVIOUS
<1>2. CASE MainNext
  BY <1>1, <1>2, SendingKeeps, MainControlKeeps, BeginKeeps, PutSampleKeeps,
     CloseQueueKeeps
  DEF MainNext
<1>3. CASE TxNext
  BY <1>1, <1>3, TxControlKeeps, TxTakesSampleKeeps, TxFindsNothingKeeps, TxEndsKeeps
  DEF TxNext
<1>4. CASE Exited \/ UNCHANGED vars
  BY <1>1, <1>4, StutteringKeeps DEF Exited
<1>5. QED
  BY <1>1, <1>2, <1>3, <1>4, SigintKeeps, StdinKeeps, EndsOfWaitsKeep DEF Next

LEMMA Invariant == Spec => []IInv
  BY InitEstablishes, NextKeeps, PTL DEF Spec

\* The program's variables have the types of their declarations: above all `index`
\* never points past `audio`, and the queue never holds more than SIZE items.
THEOREM TypesCorrect == Spec => []TypeOK
  BY Invariant, IInvImplies, PTL

\* The transmit thread waits only on an empty queue that is not closed, the main thread
\* only on a full one that is open, whatever timers and spurious wakeups do.
THEOREM WaitsHaveReasons == Spec => []NoLostWakeup
  BY Invariant, IInvImplies, PTL

\* The two threads never wait for each other.
NeverBothWait == ~("tx" \in waitingEmpty /\ "main" \in waitingFull)

THEOREM NoMutualWait == Spec => []NeverBothWait
<1>1. NoLostWakeup => NeverBothWait
  BY SizeAssumption DEF NoLostWakeup, NeverBothWait
<1>2. QED
  BY <1>1, WaitsHaveReasons, PTL

-----------------------------------------------------------------------------
(***************************************************************************)
(* What becomes of the samples in OpvMod, for every size of the queue and   *)
(* of a frame and for every number of samples: they stay in order and none  *)
(* is lost, a transmission has the shape it should, in voice mode and in    *)
(* BERT mode, and in voice mode the program as a whole implements           *)
(* VoiceRelay.  The heart of it is that a step moves samples between the    *)
(* queue, `audio` and what is put out without changing OnTheWay, their      *)
(* concatenation, and only a put that succeeds appends to it.               *)
(***************************************************************************)

(***************************************************************************)
(* The elements of a sequence that are in a set.                           *)
(***************************************************************************)
\* What a single element contributes.
Part(x, T) == IF x \in T THEN <<x>> ELSE <<>>
Parts(s, T) == [i \in DOMAIN s |-> Part(s[i], T)]

LEMMA PartType == ASSUME NEW V, NEW T, NEW x, x \in T => x \in V PROVE Part(x, T) \in Seq(V)
<1>1. CASE x \in T
  BY <1>1 DEF Part
<1>2. CASE x \notin T
  BY <1>2 DEF Part
<1>3. QED
  BY <1>1, <1>2

LEMMA PartsAt ==
  ASSUME NEW S, NEW T, NEW s \in Seq(S), NEW W, \A i \in 1..Len(s) : Part(s[i], T) \in W
  PROVE  /\ Parts(s, T) \in Seq(W)
         /\ Len(Parts(s, T)) = Len(s)
         /\ \A i \in 1..Len(s) : Parts(s, T)[i] = Part(s[i], T)
<1>1. PICK n \in Nat : n = Len(s) /\ DOMAIN s = 1..n
  BY LenProperties
<1>2. Parts(s, T) = [i \in 1..n |-> Part(s[i], T)]
  BY <1>1, Zenon DEF Parts
<1>3. Parts(s, T) \in [1..n -> W]
  BY <1>1, <1>2, Zenon
<1>4. Parts(s, T) \in Seq(W) /\ Len(Parts(s, T)) = n
  BY <1>3
<1>5. \A i \in 1..n : Parts(s, T)[i] = Part(s[i], T)
  BY <1>2, Zenon
<1>6. QED
  BY <1>1, <1>4, <1>5, Zenon

LEMMA PartsSame ==
  ASSUME NEW S, NEW T, NEW s \in Seq(S)
  PROVE  /\ Parts(s, T) \in Seq(Seq(S))
         /\ Len(Parts(s, T)) = Len(s)
         /\ \A i \in 1..Len(s) : Parts(s, T)[i] = Part(s[i], T)
<1>1. \A i \in 1..Len(s) : Part(s[i], T) \in Seq(S)
  BY ElementOfSeq, PartType
<1>2. QED
  BY <1>1, PartsAt, Zenon

\* Among as a flattening, its type, and that it distributes over \o.
LEMMA AmongIs == ASSUME NEW s, NEW T PROVE Among(s, T) = FlattenSeq(Parts(s, T))
  BY Zenon DEF Among, Parts, Part

LEMMA AmongType ==
  ASSUME NEW S, NEW T, NEW V, NEW s \in Seq(S), \A x \in S : x \in T => x \in V
  PROVE  Among(s, T) \in Seq(V)
<1>1. \A i \in 1..Len(s) : Part(s[i], T) \in Seq(V)
  BY ElementOfSeq, PartType
<1>2. Parts(s, T) \in Seq(Seq(V))
  BY <1>1, PartsAt, Zenon
<1>3. QED
  BY <1>2, AmongIs, FlattenSeqType, Zenon

LEMMA AmongConcat ==
  ASSUME NEW S, NEW T, NEW s \in Seq(S), NEW t \in Seq(S)
  PROVE  Among(s \o t, T) = Among(s, T) \o Among(t, T)
<1> DEFINE h == [x \in S |-> Part(x, T)]
<1>1. h \in [S -> Seq(S)]
  <2>1. \A x \in S : Part(x, T) \in Seq(S)
    BY PartType
  <2>2. QED
    BY <2>1, Zenon
<1>2. ASSUME NEW u \in Seq(S) PROVE Among(u, T) = FlattenSeq(Mapped(u, h))
  <2>1. \A i \in DOMAIN u : u[i] \in S
    BY LenProperties, ElementOfSeq
  <2>2. \A i \in DOMAIN u : h[u[i]] = Part(u[i], T)
    BY <2>1, Zenon
  <2>3. Mapped(u, h) = Parts(u, T)
    BY <2>2, Zenon DEF Mapped, Parts
  <2>4. QED
    BY <2>3, AmongIs, Zenon
<1>3. s \o t \in Seq(S)
  BY ConcatProperties
<1> HIDE DEF h
<1>4. FlattenSeq(Mapped(s \o t, h)) = FlattenSeq(Mapped(s, h)) \o FlattenSeq(Mapped(t, h))
  BY <1>1, FlattenMappedConcat, Zenon
<1>5. QED
  BY <1>2, <1>3, <1>4, Zenon

\* Among computed with a function of how far one has got.
ByPrefixes(F, s, T, S) ==
  /\ s \in Seq(S) /\ F \in [0..Len(s) -> Seq(S)] /\ F[0] = <<>>
  /\ \A i \in 1..Len(s) : F[i] = F[i-1] \o Part(s[i], T)
LEMMA AmongByPrefixes ==
  ASSUME NEW S, NEW T, NEW s, NEW F, ByPrefixes(F, s, T, S)
  PROVE  Among(s, T) = F[Len(s)]
<1>0. PICK n \in Nat : /\ n = Len(s) /\ s \in Seq(S)
                       /\ F \in [0..n -> Seq(S)] /\ F[0] = <<>>
                       /\ \A i \in 1..n : F[i] = F[i-1] \o Part(s[i], T)
  <2>1. Len(s) \in Nat
    BY DEF ByPrefixes
  <2>2. QED
    BY <2>1, Zenon DEF ByPrefixes
<1>1. PICK p : p = Parts(s, T)
  OBVIOUS
<1>2. p \in Seq(Seq(S)) /\ Len(p) = n /\ \A i \in 1..n : p[i] = Part(s[i], T)
  BY <1>0, <1>1, PartsSame
<1>3. \A i \in 1..n : F[i] = F[i-1] \o p[i]
  BY <1>0, <1>2, Zenon
<1>4. Flattening(F, p, S)
  BY <1>0, <1>2, <1>3, Zenon DEF Flattening
<1>5. FlattenSeq(p) = F[n]
  BY <1>2, <1>4, FlattenSeqIs
<1>6. QED
  BY <1>0, <1>1, <1>5, AmongIs, Zenon

\* A sequence with none, and one with all its elements in the set.
LEMMA AmongNone ==
  ASSUME NEW S, NEW T, NEW s \in Seq(S), \A i \in 1..Len(s) : s[i] \notin T
  PROVE  Among(s, T) = <<>>
<1>1. PICK n \in Nat : n = Len(s)
  OBVIOUS
<1> DEFINE F == [i \in 0..n |-> <<>>]
<1>2. << >> \in Seq(S)
  OBVIOUS
<1>3. \A i \in 1..n : i \in 0..n /\ i - 1 \in 0..n
  OBVIOUS
<1>4. 0 \in 0..n /\ n \in 0..n
  OBVIOUS
<1>5. F \in [0..n -> Seq(S)] /\ F[0] = <<>> /\ F[n] = <<>>
  BY <1>2, <1>4, Zenon
<1>6. ASSUME NEW i \in 1..n PROVE F[i] = F[i-1] \o Part(s[i], T)
  <2>1. F[i] = <<>> /\ F[i-1] = <<>>
    BY <1>3, Zenon
  <2>2. Part(s[i], T) = <<>>
    BY <1>1, Zenon DEF Part
  <2>3. << >> \o <<>> = <<>>
    OBVIOUS
  <2>4. QED
    BY <2>1, <2>2, <2>3, Zenon
<1> HIDE DEF F
<1>7. ByPrefixes(F, s, T, S)
  BY <1>1, <1>5, <1>6, Zenon DEF ByPrefixes
<1>8. QED
  BY <1>1, <1>5, <1>7, AmongByPrefixes, Zenon

LEMMA AmongAll ==
  ASSUME NEW S, NEW T, NEW s \in Seq(S), \A i \in 1..Len(s) : s[i] \in T
  PROVE  Among(s, T) = s
<1>1. PICK n \in Nat : n = Len(s) /\ \A i \in 1..n : s[i] \in S /\ s[i] \in T
  BY ElementOfSeq
<1> DEFINE F == [i \in 0..n |-> [k \in 1..i |-> s[k]]]
<1>2. ASSUME NEW i \in 0..n
      PROVE  [k \in 1..i |-> s[k]] \in Seq(S) /\ Len([k \in 1..i |-> s[k]]) = i
  <2>1. \A k \in 1..i : s[k] \in S
    BY <1>1
  <2>2. QED
    BY <2>1
<1>3. F \in [0..n -> Seq(S)] /\ F[0] = <<>> /\ F[n] = s
  <2>1. [k \in 1..0 |-> s[k]] = <<>>
    OBVIOUS
  <2>2. [k \in 1..n |-> s[k]] = s
    BY <1>1
  <2>3. 0 \in 0..n /\ n \in 0..n
    OBVIOUS
  <2>4. QED
    BY <1>2, <2>1, <2>2, <2>3, Zenon
<1>4. ASSUME NEW i \in 1..n PROVE F[i] = F[i-1] \o Part(s[i], T)
  <2>1. i \in 0..n /\ i - 1 \in 0..n /\ i \in Nat
    OBVIOUS
  <2>2. F[i] = [k \in 1..i |-> s[k]] /\ F[i-1] = [k \in 1..i-1 |-> s[k]]
    BY <2>1
  <2>3. \A k \in 1..i : s[k] \in S
    BY <1>1
  <2>4. [k \in 1..i-1 |-> s[k]] \in Seq(S) /\ Len([k \in 1..i-1 |-> s[k]]) = i - 1
    BY <2>1, <2>3
  <2>5. [k \in 1..i |-> s[k]] = [k \in 1..i-1 |-> s[k]] \o <<s[i]>>
    BY <2>1, <2>3, <2>4
  <2>6. Part(s[i], T) = <<s[i]>>
    BY <1>1, Zenon DEF Part
  <2>7. QED
    BY <2>2, <2>5, <2>6, Zenon
<1> HIDE DEF F
<1>5. ByPrefixes(F, s, T, S) /\ n = Len(s)
  BY <1>1, <1>3, <1>4, Zenon DEF ByPrefixes
<1>6. Among(s, T) = F[n]
  BY <1>5, AmongByPrefixes, Zenon
<1>7. QED
  BY <1>3, <1>6, Zenon

\* A sequence of which exactly the first k elements are in the set.
LEMMA AmongPrefix ==
  ASSUME NEW S, NEW T, NEW s \in Seq(S), NEW k \in 0..Len(s),
         \A i \in 1..Len(s) : s[i] \in T <=> i <= k
  PROVE  Among(s, T) = SubSeq(s, 1, k)
<1>1. PICK n \in Nat : n = Len(s)
  OBVIOUS
<1>2. PICK a \in Seq(S), b \in Seq(S) :
        /\ a = SubSeq(s, 1, k) /\ b = SubSeq(s, k + 1, n)
        /\ Len(a) = k /\ \A i \in 1..k : a[i] = s[i]
        /\ Len(b) = n - k /\ \A i \in 1..n-k : b[i] = s[k+i]
  <2>1. \A i \in 1..n : s[i] \in S
    BY <1>1, ElementOfSeq
  <2>2. \A i \in 1..k : s[i] \in S
    BY <1>1, <2>1
  <2>3. SubSeq(s, 1, k) \in Seq(S) /\ Len(SubSeq(s, 1, k)) = k
        /\ \A i \in 1..k : SubSeq(s, 1, k)[i] = s[i]
    BY <1>1, <2>2
  <2>4. SubSeq(s, k + 1, n) \in Seq(S) /\ Len(SubSeq(s, k + 1, n)) = n - k
        /\ \A i \in 1..n-k : SubSeq(s, k + 1, n)[i] = s[k+i]
    BY <1>1, <2>1
  <2>5. QED
    BY <2>3, <2>4
<1>3. s = a \o b
  <2>1. a \o b \in Seq(S) /\ Len(a \o b) = n
        /\ \A i \in 1..n : (a \o b)[i] = IF i <= k THEN a[i] ELSE b[i-k]
    <3>1. n - k \in Nat /\ k + (n - k) = n /\ k \in Nat
      BY <1>1
    <3>2. Len(a) = k /\ Len(b) = n - k
      BY <1>2
    <3>3. /\ Len(a \o b) = Len(a) + Len(b)
          /\ \A i \in 1..Len(a)+Len(b) :
               (a \o b)[i] = IF i <= Len(a) THEN a[i] ELSE b[i-Len(a)]
      BY ConcatProperties, Zenon
    <3>4. Len(a) + Len(b) = n
      BY <3>1, <3>2
    <3>5. a \o b \in Seq(S)
      BY ConcatProperties, Zenon
    <3>6. QED
      BY <3>2, <3>3, <3>4, <3>5, Zenon
  <2>2. ASSUME NEW i \in 1..n PROVE s[i] = (a \o b)[i]
    <3>1. CASE i <= k
      BY <1>2, <2>1, <3>1
    <3>2. CASE ~(i <= k)
      <4>1. i - k \in 1..n-k /\ k + (i - k) = i
        BY <3>2
      <4>2. b[i-k] = s[k + (i - k)]
        BY <1>2, <4>1, Zenon
      <4>3. QED
        BY <2>1, <3>2, <4>1, <4>2
    <3>3. QED
      BY <3>1, <3>2
  <2>3. QED
    BY <1>1, <2>1, <2>2, SeqEqual, Zenon
<1>4. Among(a, T) = a
  <2>1. \A i \in 1..Len(a) : a[i] \in T
    BY <1>1, <1>2
  <2>2. QED
    BY <2>1, AmongAll, Zenon
<1>5. Among(b, T) = <<>>
  <2>1. \A i \in 1..n-k : k + i \in 1..n /\ ~(k + i <= k)
    BY <1>1
  <2>2. \A i \in 1..Len(b) : b[i] \notin T
    BY <1>1, <1>2, <2>1, Zenon
  <2>3. QED
    BY <2>2, AmongNone, Zenon
<1>6. Among(s, T) = a \o <<>>
  <2>1. Among(a \o b, T) = Among(a, T) \o Among(b, T)
    BY AmongConcat
  <2>2. QED
    BY <1>3, <1>4, <1>5, <2>1, Zenon
<1>7. QED
  BY <1>2, <1>6, ConcatEmptySeq, Zenon

\* The samples of frames.
LEMMA SamplesOfFrames ==
  /\ \A s \in Seq(VoiceItems) : SamplesOf(s) \in Seq(Samples)
  /\ \A s \in Seq(VoiceItems), t \in Seq(VoiceItems) :
       SamplesOf(s \o t) = SamplesOf(s) \o SamplesOf(t)
  /\ \A f \in VoiceItems : SamplesOf(<<f>>) = RealSamples(f.audio)
<1> DEFINE h == [f \in VoiceItems |-> RealSamples(f.audio)]
<1>1. ASSUME NEW a \in Audio PROVE RealSamples(a) \in Seq(Samples)
  <2>1. PICK S : S = Samples \cup {Silence, Garbage}
    OBVIOUS
  <2>2. a \in [1..FrameSize -> S]
    BY <2>1 DEF Audio
  <2>3. a \in Seq(S)
    BY <2>2, SizeAssumption DEF FrameSize
  <2>4. \A x \in S : x \in Samples => x \in Samples
    OBVIOUS
  <2>5. QED
    BY <2>3, AmongType, Zenon DEF RealSamples
<1>2. \A f \in VoiceItems : RealSamples(f.audio) \in Seq(Samples)
  BY <1>1 DEF VoiceItems
<1>3. h \in [VoiceItems -> Seq(Samples)]
  BY <1>2, Zenon
<1>4. ASSUME NEW s \in Seq(VoiceItems) PROVE SamplesOf(s) = FlattenSeq(Mapped(s, h))
  <2>1. \A i \in DOMAIN s : s[i] \in VoiceItems
    BY LenProperties, ElementOfSeq
  <2>2. \A i \in DOMAIN s : h[s[i]] = RealSamples(s[i].audio)
    BY <2>1, Zenon
  <2>3. Mapped(s, h) = [i \in DOMAIN s |-> RealSamples(s[i].audio)]
    BY <2>2, Zenon DEF Mapped
  <2>4. QED
    BY <2>3, Zenon DEF SamplesOf
<1>5. \A f \in VoiceItems : h[f] = RealSamples(f.audio)
  OBVIOUS
<1> HIDE DEF h
<1>6. \A s \in Seq(VoiceItems), t \in Seq(VoiceItems) : s \o t \in Seq(VoiceItems)
  BY ConcatProperties
<1>7. \A f \in VoiceItems : <<f>> \in Seq(VoiceItems)
  OBVIOUS
<1>8. ASSUME NEW s \in Seq(VoiceItems) PROVE SamplesOf(s) \in Seq(Samples)
  <2>1. FlattenSeq(Mapped(s, h)) \in Seq(Samples)
    BY <1>3, FlattenMappedType
  <2>2. QED
    BY <1>4, <2>1, Zenon
<1>9. ASSUME NEW s \in Seq(VoiceItems), NEW t \in Seq(VoiceItems)
      PROVE  SamplesOf(s \o t) = SamplesOf(s) \o SamplesOf(t)
  <2>1. FlattenSeq(Mapped(s \o t, h)) = FlattenSeq(Mapped(s, h)) \o FlattenSeq(Mapped(t, h))
    BY <1>3, FlattenMappedConcat, Zenon
  <2>2. QED
    BY <1>4, <1>6, <2>1, Zenon
<1>10. ASSUME NEW f \in VoiceItems PROVE SamplesOf(<<f>>) = RealSamples(f.audio)
  <2>1. FlattenSeq(Mapped(<<f>>, h)) = h[f]
    BY <1>3, FlattenMappedOne, Zenon
  <2>2. QED
    BY <1>4, <1>5, <1>7, <2>1, Zenon
<1>11. QED
  BY <1>8, <1>9, <1>10, Zenon

-----------------------------------------------------------------------------
(***************************************************************************)
(* The invariant.                                                          *)
(***************************************************************************)
\* The program takes no more samples: it is past the loop over its input.
Stopping == main \in {"finish", "close", "join"} \/ (mode = "voice" /\ main = "exited")
\* Where the two threads can be together, and when the queue is open.
PhaseOK ==
  /\ main \in {"loop", "read", "put", "finish", "close", "join"} => mode = "voice"
  /\ main \in Modes => main = mode /\ mode # "voice"
  /\ main = "leadin" => air = <<>>
  /\ tx = "none" <=> main \in {"leadin", "begin"} \/ mode # "voice"
  /\ mode = "voice" /\ main = "exited" => tx = "done"
  /\ queueState = "OPEN" <=> ~(mode = "voice" /\ main \in {"join", "exited"})
\* The program only stops of its own accord if a call on the queue gave up,
\* stdin ended or SIGINT came.
ReasonOK ==
  /\ main \in {"loop", "read", "put", "bert", "preamble"} => running \/ interrupted
  /\ Stopping /\ ~stalled => stdinEnded \/ interrupted
\* The transmit thread leaves its loop only with the queue drained, and closed
\* or about to be, unless a call on the queue gave up; a closed queue is empty.
DrainOK ==
  /\ queueState = "CLOSED" => items = <<>>
  /\ "main" \in expired => stalled
  /\ "tx" \in expired \/ tx \in {"flush", "done"} =>
       stalled \/ (items = <<>> /\ queueState # "OPEN")
\* The first n elements of the buffer are samples, and only these.
Holds(a, n) == \A i \in 1..FrameSize : a[i] \in Samples <=> i <= n
\* What `audio` holds while frames are put out: samples up to `index` and no
\* others, and nothing at all after the end. Only the first frame put out can
\* hold memory that was never written.
BufferOK ==
  /\ tx # "done" => Holds(audio, index)
  /\ tx = "done" => audio = SilentAudio
  /\ (\E i \in 1..Len(air) : air[i].what = "voice") => \A k \in 1..FrameSize : audio[k] # Garbage
\* The samples on their way are 1, 2, ... up to the last one read, or up to
\* the one before it while that one waits to be put or when its put gave up.
OrderOK ==
  /\ \A i \in 1..Len(OnTheWay) : OnTheWay[i] = i
  /\ main = "put" => sample = nRead /\ Len(OnTheWay) = nRead - 1
  /\ main # "put" =>
       Len(OnTheWay) = nRead \/ (stalled /\ Stopping /\ Len(OnTheWay) = nRead - 1)
\* Before the end of a voice transmission: the lead-in and full frames.
LeadInItem(f) == f.what \in {"carrier", "preamble"}
FullFrame(f) == f.what = "voice" /\ ~f.last /\ \A k \in 1..FrameSize : f.audio[k] \in Samples
VoiceAirOK ==
  mode = "voice" /\ tx # "done" =>
    \A i \in 1..Len(air) : LeadInItem(air[i]) \/ FullFrame(air[i])
\* The BERT frames put out are counted, the last of them is marked and no
\* other, and the transmission ends with EOT and at most dead carrier.
BertFramesOut == Among(air, BertItems)
BertOK ==
  /\ mode = "bert" => /\ Len(BertFramesOut) = frameCount
                      /\ \A i \in 1..frameCount : BertFramesOut[i].last <=> i = BertFrames
  /\ mode = "bert" /\ main = "exited" => 
        /\ frameCount = BertFrames \/ interrupted
        /\ \E i \in DOMAIN air : /\ air[i].what = "eot"
                                 /\ \A j \in DOMAIN air : j > i => air[j].what = "carrier"
  /\ mode # "bert" => frameCount = 0
\* The part that speaks of control only, and the whole invariant.
FlowInv == DrainOK /\ PhaseOK /\ ReasonOK
FullInv == IInv /\ FlowInv /\ BufferOK /\ OrderOK /\ VoiceAirOK /\ BertOK

\* FlowInv is preserved.
LEMMA PhaseKept == ASSUME IInv, FlowInv, [Next]_vars PROVE PhaseOK'
<1> USE DEF PhaseOK, FlowInv
<1>1. CASE UNCHANGED vars
  BY <1>1 DEF vars, qvars
<1>2. CASE Sigint
  BY <1>2 DEF Sigint, unchangedConfig, unchangedQueue, qvars, unchangedTx
<1>3. CASE LeadIn \/ Begin
  BY <1>3 DEF LeadIn, Begin, MainStep, unchangedConfig, unchangedQueue, qvars, unchangedTx,
     IInv, ControlOK, Modes
<1>4. CASE SendPreamble \/ SendBertFrame \/ EndBert
  BY <1>4 DEF SendPreamble, SendBertFrame, EndBert, MainStep, unchangedConfig,
     unchangedQueue, qvars, unchangedTx, Modes
<1>5. CASE TestRunning \/ StopRunning \/ StdinNext \/ JoinTransmit
  BY <1>5 DEF TestRunning, StopRunning, StdinNext, ReadSample, EndOfInput, JoinTransmit,
     MainStep, unchangedConfig, unchangedQueue, qvars, unchangedTx, Modes
<1>6. CASE PutSample
  <2>1. UNCHANGED queueState
    BY <1>6 DEF PutSample, PutAppends, PutWaits, CallTimesOut
  <2>2. QED
    BY <1>6, <2>1 DEF PutSample, MainStep, unchangedConfig, unchangedTx, Modes
<1>7. CASE CloseQueue
  BY <1>7 DEF CloseQueue, Close, MainStep, unchangedConfig, unchangedTx, Modes
<1>8. CASE TxNext
  <2>1. UNCHANGED queueState
    BY <1>8 DEF TxNext, TxStart, TxAborts, TxAwaitFirst, TxTestClosed, TxTakesSample,
      TxFindsNothing,
       TxEnds, unchangedQueue, qvars, GetTakes, GetWaits, GetFindsClosed, CallTimesOut
  <2>2. UNCHANGED <<main, mode>>
    BY <1>8 DEF TxNext, TxStart, TxAborts, TxAwaitFirst, TxTestClosed, TxTakesSample,
      TxFindsNothing,
       TxEnds, txUnchanged, unchangedConfig
  <2>3. tx' # "none" /\ tx # "none" /\ tx # "done"
    BY <1>8 DEF TxNext, TxStart, TxAborts, TxAwaitFirst, TxTestClosed, TxTakesSample,
      TxFindsNothing,
       TxEnds, TxStep
  <2>4. main # "leadin" /\ main' # "leadin"
    BY <2>2, <2>3
  <2>5. QED
    BY <2>1, <2>2, <2>3, <2>4
<1>9. CASE Timer \/ Spurious
  BY <1>9 DEF Timer, Spurious, WaitExpires, WaitEndsSpuriously, unchangedConfig
<1>10. QED
  BY <1>1, <1>2, <1>3, <1>4, <1>5, <1>6, <1>7, <1>8, <1>9 DEF Next, MainNext, Exited

LEMMA DrainKept == ASSUME IInv, FlowInv, [Next]_vars PROVE DrainOK'
<1> USE DEF DrainOK, FlowInv
<1>1. CASE UNCHANGED vars
  BY <1>1 DEF vars, qvars
<1>2. CASE Sigint
  BY <1>2 DEF Sigint, unchangedQueue, qvars, unchangedTx
<1>3. CASE LeadIn \/ Begin
  BY <1>3 DEF LeadIn, Begin, unchangedQueue, qvars, unchangedTx, unchangedNotes
<1>4. CASE SendPreamble \/ SendBertFrame \/ EndBert
  BY <1>4 DEF SendPreamble, SendBertFrame, EndBert, unchangedQueue, qvars, unchangedTx,
     unchangedNotes
<1>5. CASE TestRunning \/ StopRunning \/ StdinNext \/ JoinTransmit
  BY <1>5 DEF TestRunning, StopRunning, StdinNext, ReadSample, EndOfInput, JoinTransmit,
     unchangedQueue, qvars, unchangedTx, unchangedNotes
<1>6. CASE PutSample
  BY <1>6 DEF PutSample, PutAppends, PutWaits, CallTimesOut, unchangedTx, unchangedNotes
<1>7. CASE CloseQueue
  BY <1>7 DEF CloseQueue, Close, unchangedTx, unchangedNotes
<1>8. CASE TxNext
  <2>1. CASE TxStart \/ TxAborts \/ TxAwaitFirst
    BY <2>1 DEF TxStart, TxAborts, TxAwaitFirst, TxStep, unchangedQueue, qvars, txUnchanged
  <2>2. CASE TxTestClosed
    BY <2>2 DEF TxTestClosed, TxStep, IsClosed, unchangedQueue, qvars, txUnchanged
  <2>3. CASE TxTakesSample
    BY <2>3 DEF TxTakesSample, TxStep, GetTakes, Awake, txUnchanged
  <2>4. CASE TxFindsNothing
    BY <2>4 DEF TxFindsNothing, TxStep, GetWaits, GetFindsClosed, CallTimesOut, txUnchanged,
                Awake, qvars
  <2>5. CASE TxEnds
    BY <2>5 DEF TxEnds, TxStep, unchangedQueue, qvars, txUnchanged
  <2>6. QED
    BY <1>8, <2>1, <2>2, <2>3, <2>4, <2>5 DEF TxNext
<1>9. CASE Timer
  BY <1>9 DEF Timer, WaitExpires, IInv, QueueInv, WaitersOK, NoLostWakeup
<1>10. CASE Spurious
  BY <1>10 DEF Spurious, WaitEndsSpuriously, unchangedNotes
<1>11. QED
  BY <1>1, <1>2, <1>3, <1>4, <1>5, <1>6, <1>7, <1>8, <1>9, <1>10 DEF Next, MainNext, Exited

LEMMA ReasonKept == ASSUME IInv, FlowInv, [Next]_vars PROVE ReasonOK'
<1> USE DEF ReasonOK, FlowInv, Stopping
<1>1. CASE UNCHANGED vars
  BY <1>1 DEF vars
<1>2. CASE Sigint
  BY <1>2 DEF Sigint, unchangedConfig, unchangedInput
<1>3. CASE LeadIn \/ Begin
  BY <1>3 DEF LeadIn, Begin, MainStep, unchangedConfig, unchangedInput, unchangedNotes,
     IInv, ControlOK, Modes
<1>4. CASE SendPreamble \/ SendBertFrame \/ EndBert
  BY <1>4 DEF SendPreamble, SendBertFrame, EndBert, MainStep, unchangedConfig,
     unchangedInput, unchangedNotes, PhaseOK, Modes
<1>5. CASE TestRunning \/ StopRunning \/ JoinTransmit
  BY <1>5 DEF TestRunning, StopRunning, JoinTransmit,
     MainStep, unchangedConfig, unchangedInput, unchangedNotes
<1>6. CASE StdinNext
  BY <1>6 DEF StdinNext, ReadSample, EndOfInput, MainStep, unchangedConfig, unchangedNotes
<1>7. CASE PutSample
  BY <1>7 DEF PutSample, CallTimesOut, MainStep, unchangedConfig, unchangedInput,
              unchangedNotes, DrainOK
<1>8. CASE CloseQueue
  BY <1>8 DEF CloseQueue, MainStep, unchangedConfig, unchangedInput, unchangedNotes
<1>9. CASE TxNext
  BY <1>9 DEF TxNext, TxStart, TxAborts, TxAwaitFirst, TxTestClosed, TxTakesSample,
    TxFindsNothing,
       TxEnds, txUnchanged, unchangedConfig, unchangedInput
<1>10. CASE Timer \/ Spurious
  BY <1>10 DEF Timer, Spurious, unchangedConfig, unchangedInput, unchangedNotes
<1>11. QED
  BY <1>1, <1>2, <1>3, <1>4, <1>5, <1>6, <1>7, <1>8, <1>9, <1>10 DEF Next, MainNext, Exited

-----------------------------------------------------------------------------
(***************************************************************************)
(* What each step does to the samples on their way.                        *)
(***************************************************************************)
\* What is put out that is not voice, and of it, what the lead-in is made of.
NotVoice == {f \in Items : f.what # "voice"}
Signals == {f \in Items : LeadInItem(f)}


\* What goes out besides voice frames is of these kinds.
LEMMA MarkersAreNotVoice ==
  /\ DeadCarrier \in Seq(Signals) /\ Preamble \in Seq(Signals)
  /\ DeadCarrier \in Seq(NotVoice) /\ Preamble \in Seq(NotVoice) /\ Eot \in Seq(NotVoice)
  /\ \A b \in BOOLEAN : BertFrame(b) \in Seq(NotVoice)
<1>1. Sink \in Sinks /\ "stdout" \in Sinks
  BY DEF Sink, Sinks
<1>2. /\ [what |-> "carrier", to |-> Sink] \in Items
      /\ [what |-> "preamble", to |-> Sink] \in Items
      /\ [what |-> "eot", to |-> "stdout"] \in Items
      /\ \A b \in BOOLEAN : [what |-> "bert", to |-> Sink, last |-> b] \in Items
  BY <1>1 DEF Items, Markers, BertItems
<1>3. /\ [what |-> "carrier", to |-> Sink] \in Signals \cap NotVoice
      /\ [what |-> "preamble", to |-> Sink] \in Signals \cap NotVoice
      /\ [what |-> "eot", to |-> "stdout"] \in NotVoice
      /\ \A b \in BOOLEAN : [what |-> "bert", to |-> Sink, last |-> b] \in NotVoice
  BY <1>2 DEF Signals, NotVoice, LeadInItem
<1>4. QED
  BY <1>3 DEF DeadCarrier, Preamble, Eot, BertFrame

\* It contributes no samples, a voice frame those of its buffer.
LEMMA NoVoice ==
  ASSUME NEW b \in Seq(NotVoice)
  PROVE  b \in Seq(Items) /\ Among(b, VoiceItems) = <<>>
<1>1. b \in Seq(Items)
  BY DEF NotVoice
<1>2. \A i \in 1..Len(b) : b[i] \in NotVoice
  BY ElementOfSeq
<1>3. \A x \in NotVoice : x \notin VoiceItems
  BY DEF NotVoice, VoiceItems
<1>4. Among(b, VoiceItems) = <<>>
  BY <1>2, <1>3, AmongNone, Zenon
<1>5. QED
  BY <1>1, <1>4

LEMMA VoiceFrameIn ==
  ASSUME NEW a \in Audio, NEW b \in BOOLEAN
  PROVE  /\ VoiceFrame(a, b) \in Seq(VoiceItems) /\ VoiceFrame(a, b) \in Seq(Items)
         /\ Among(VoiceFrame(a, b), VoiceItems) = VoiceFrame(a, b)
         /\ SamplesOf(VoiceFrame(a, b)) = RealSamples(a)
<1>1. PICK x : x = [what |-> "voice", to |-> Sink, audio |-> a, last |-> b]
  OBVIOUS
<1>2. x \in VoiceItems /\ x \in Items /\ x.audio = a
  BY <1>1 DEF Sink, Sinks, VoiceItems, Items
<1>3. VoiceFrame(a, b) = <<x>>
  BY <1>1 DEF VoiceFrame
<1>4. <<x>> \in Seq(VoiceItems) /\ <<x>> \in Seq(Items) /\ Len(<<x>>) = 1 /\ <<x>>[1] = x
  BY <1>2
<1>5. \A i \in 1..1 : <<x>>[i] \in VoiceItems
  BY <1>2
<1>6. Among(<<x>>, VoiceItems) = <<x>>
  BY <1>4, <1>5, AmongAll, Zenon
<1>7. SamplesOf(<<x>>) = RealSamples(x.audio)
  BY <1>2, SamplesOfFrames, Zenon
<1>8. QED
  BY <1>2, <1>3, <1>4, <1>6, <1>7, Zenon

\* The samples of the voice frames in what is put out.
Sent(a) == SamplesOf(Among(a, VoiceItems))

LEMMA VoiceAmong ==
  ASSUME NEW a \in Seq(Items)
  PROVE  Among(a, VoiceItems) \in Seq(VoiceItems)
<1>1. \A x \in Items : x \in VoiceItems => x \in VoiceItems
  OBVIOUS
<1>2. QED
  BY AmongType

LEMMA SentType == ASSUME NEW a \in Seq(Items) PROVE Sent(a) \in Seq(Samples)
  BY VoiceAmong, SamplesOfFrames DEF Sent

LEMMA SentConcat ==
  ASSUME NEW a \in Seq(Items), NEW b \in Seq(Items)
  PROVE  Sent(a \o b) = Sent(a) \o Sent(b)
<1>1. Among(a \o b, VoiceItems) = Among(a, VoiceItems) \o Among(b, VoiceItems)
  BY AmongConcat
<1>2. Among(a, VoiceItems) \in Seq(VoiceItems) /\ Among(b, VoiceItems) \in Seq(VoiceItems)
  BY VoiceAmong
<1>3. QED
  BY <1>1, <1>2, SamplesOfFrames, Zenon DEF Sent

LEMMA SentIs == SentSamples = Sent(air) /\ SentSamples' = Sent(air')
  BY DEF SentSamples, Sent, VoiceFrames

-----------------------------------------------------------------------------
LEMMA SentNothing ==
  ASSUME NEW a \in Seq(Items), NEW b \in Seq(Items), Among(b, VoiceItems) = <<>>
  PROVE  Sent(a \o b) = Sent(a)
<1>1. Sent(b) = <<>>
  <2>1. SamplesOf(<<>>) = <<>>
    BY FlattenSeqNone DEF SamplesOf
  <2>2. QED
    BY <2>1, Zenon DEF Sent
<1>2. Sent(a) \o <<>> = Sent(a)
  BY SentType, ConcatEmptySeq
<1>3. QED
  BY <1>1, <1>2, SentConcat, Zenon

\* The buffer as a sequence, and the samples in one that holds n of them.
LEMMA AudioIsSeq ==
  ASSUME NEW a \in Audio
  PROVE  /\ a \in Seq(Samples \cup {Silence, Garbage}) /\ Len(a) = FrameSize
  BY SizeAssumption DEF Audio, FrameSize

LEMMA RealType == ASSUME NEW a \in Audio PROVE RealSamples(a) \in Seq(Samples)
<1>1. PICK S : S = Samples \cup {Silence, Garbage}
  OBVIOUS
<1>2. a \in Seq(S)
  BY <1>1, AudioIsSeq
<1>3. \A x \in S : x \in Samples => x \in Samples
  OBVIOUS
<1>4. QED
  BY <1>2, <1>3, AmongType, Zenon DEF RealSamples

LEMMA RealPrefix ==
  ASSUME NEW a \in Audio, NEW n \in 0..FrameSize, Holds(a, n)
  PROVE  /\ RealSamples(a) = SubSeq(a, 1, n)
         /\ RealSamples(a) \in Seq(Samples)
         /\ Len(RealSamples(a)) = n
         /\ \A i \in 1..n : RealSamples(a)[i] = a[i]
<1>1. PICK S : S = Samples \cup {Silence, Garbage}
  OBVIOUS
<1>2. a \in Seq(S) /\ Len(a) = FrameSize
  BY <1>1, AudioIsSeq
<1>3. RealSamples(a) = SubSeq(a, 1, n)
  BY <1>2, AmongPrefix DEF Holds, RealSamples
<1>4. RealSamples(a) \in Seq(Samples)
  BY RealType
<1>5. \A i \in 1..n : a[i] \in S /\ n <= FrameSize
  BY <1>1, <1>2, SizeAssumption, ElementOfSeq DEF FrameSize
<1>6. Len(SubSeq(a, 1, n)) = n /\ \A i \in 1..n : SubSeq(a, 1, n)[i] = a[i]
  BY <1>2, <1>5
<1>7. QED
  BY <1>3, <1>4, <1>6

\* A sample that get returns is written behind those in the buffer.
LEMMA RealAppends ==
  ASSUME NEW a \in Audio, NEW n \in 0..FrameSize-1, Holds(a, n), NEW v \in Samples
  PROVE  LET b == [a EXCEPT ![n + 1] = v]
         IN  /\ b \in Audio /\ Holds(b, n + 1)
             /\ RealSamples(b) = RealSamples(a) \o <<v>>
<1>1. PICK b : b = [a EXCEPT ![n + 1] = v]
  OBVIOUS
<1>2. n \in 0..FrameSize /\ n + 1 \in 0..FrameSize /\ n + 1 \in 1..FrameSize
  BY SizeAssumption DEF FrameSize
<1>3. b \in Audio
  BY <1>1, <1>2 DEF Audio
<1>4. b[n+1] = v /\ \A i \in 1..FrameSize : i # n + 1 => b[i] = a[i]
  BY <1>1, <1>2 DEF Audio
<1>5. Holds(b, n + 1)
  BY <1>2, <1>4 DEF Holds
<1>6. PICK r \in Seq(Samples), q \in Seq(Samples) : r = RealSamples(a) /\ q = RealSamples(b)
  BY <1>3, RealType
<1>7. /\ Len(r) = n /\ \A i \in 1..n : r[i] = a[i]
      /\ Len(q) = n + 1 /\ \A i \in 1..n+1 : q[i] = b[i]
  BY <1>2, <1>3, <1>5, <1>6, RealPrefix
<1>8. \A i \in 1..n : q[i] = r[i]
  <2>1. \A i \in 1..n : i \in 1..n+1 /\ i \in 1..FrameSize /\ i # n + 1
    BY SizeAssumption DEF FrameSize
  <2>2. QED
    BY <1>4, <1>7, <2>1, Zenon
<1>9. q[n+1] = v
  BY <1>2, <1>4, <1>7
<1>10. q = r \o <<v>>
  BY <1>2, <1>7, <1>8, <1>9
<1>11. QED
  BY <1>1, <1>3, <1>5, <1>6, <1>10

LEMMA SilentHolds ==
  /\ SilentAudio \in Audio /\ Holds(SilentAudio, 0) /\ RealSamples(SilentAudio) = <<>>
<1>1. SilentAudio \in Audio /\ Holds(SilentAudio, 0)
  BY SizeAssumption, ModAssumption, SilentAudioIsAudio
  DEF SilentAudio, Holds, FrameSize, Silence, Samples
<1>2. 0 \in 0..FrameSize
  BY SizeAssumption DEF FrameSize
<1>3. RealSamples(SilentAudio) \in Seq(Samples) /\ Len(RealSamples(SilentAudio)) = 0
  BY <1>1, <1>2, RealPrefix
<1>4. QED
  BY <1>1, <1>3, EmptySeq

\* OnTheWay in this state and the next.
LEMMA OnTheWayIs ==
  /\ OnTheWay = (Sent(air) \o RealSamples(audio)) \o items
  /\ OnTheWay' = (Sent(air') \o RealSamples(audio')) \o items'
  BY SentIs DEF OnTheWay

LEMMA OnTheWayType ==
  ASSUME IInv
  PROVE  /\ Sent(air) \in Seq(Samples) /\ RealSamples(audio) \in Seq(Samples)
         /\ items \in Seq(Samples) /\ OnTheWay \in Seq(Samples)
<1>1. Sent(air) \in Seq(Samples) /\ RealSamples(audio) \in Seq(Samples)
  BY SentType, RealType DEF IInv, AirOK, DataOK
<1>2. items \in Seq(Samples)
  BY DEF IInv, QueueInv, QueueOK, QueueTypeOK
<1>3. QED
  BY <1>1, <1>2, OnTheWayIs, ConcatProperties

-----------------------------------------------------------------------------
\* A step by which no sample moves, and a put that succeeds.
VoicesUnchanged ==
  /\ UNCHANGED <<audio, items>>
  /\ air' \in Seq(Items) /\ Among(air', VoiceItems) = Among(air, VoiceItems)
Puts == main = "put" /\ main' = "loop" /\ PutAppends("main", sample)
  /\ UNCHANGED <<audio, air, nRead, stalled, tx>>

\* What is sent outside the transmit thread is appended too, and is not voice.
LEMMA SendingAppends ==
  ASSUME IInv, FlowInv, LeadIn \/ SendPreamble \/ SendBertFrame \/ EndBert
  PROVE  \E b \in Seq(NotVoice) : air' = air \o b /\ (LeadIn => b \in Seq(Signals))
<1>1. air \in Seq(Items)
  BY DEF IInv, AirOK
<1>2. CASE LeadIn
  <2>1. PICK b : b = (DeadCarrier \o DeadCarrier) \o Preamble
    OBVIOUS
  <2>2. b \in Seq(NotVoice) /\ b \in Seq(Signals)
    BY <2>1, MarkersAreNotVoice, ConcatProperties
  <2>3. << >> \o b = b
    BY <2>2, ConcatEmptySeq
  <2>4. air = <<>> /\ air' = b
    BY <1>2, <2>1 DEF LeadIn, MainStep, FlowInv, PhaseOK
  <2>5. QED
    BY <2>2, <2>3, <2>4, Zenon
<1>3. LeadIn => main = "leadin"
  BY DEF LeadIn, MainStep
<1>4. CASE SendPreamble
  <2>1. air' = air \o Preamble \/ air' = air
    BY <1>4 DEF SendPreamble
  <2>2. air \o <<>> = air /\ <<>> \in Seq(NotVoice) /\ <<>> \in Seq(Signals)
    BY <1>1, ConcatEmptySeq
  <2>3. QED
    BY <2>1, <2>2, MarkersAreNotVoice, Zenon
<1>5. CASE SendBertFrame
  <2>1. air' = air \o BertFrame(LastBertFrame) /\ main # "leadin"
    BY <1>5 DEF SendBertFrame, MainStep
  <2>2. BertFrame(LastBertFrame) \in Seq(NotVoice)
    BY MarkersAreNotVoice DEF LastBertFrame
  <2>3. QED
    BY <1>3, <2>1, <2>2, Zenon
<1>6. CASE EndBert
  <2>1. PICK b : b = Eot \o DeadCarrier
    OBVIOUS
  <2>2. b \in Seq(NotVoice)
    BY <2>1, MarkersAreNotVoice, ConcatProperties
  <2>3. air' = (air \o Eot) \o DeadCarrier /\ main # "leadin"
    BY <1>6 DEF EndBert, MainStep
  <2>4. air \o (Eot \o DeadCarrier) = (air \o Eot) \o DeadCarrier
    BY <1>1, MarkersAreItems, SMTT(60)
  <2>5. QED
    BY <1>3, <2>1, <2>2, <2>3, <2>4, Zenon
<1>7. QED
  BY <1>2, <1>4, <1>5, <1>6

\* So sending moves no sample ...
LEMMA SendingIsQuiet ==
  ASSUME IInv, FlowInv, LeadIn \/ SendPreamble \/ SendBertFrame \/ EndBert
  PROVE  VoicesUnchanged
<1>1. UNCHANGED <<audio, items>>
  BY DEF LeadIn, SendPreamble, SendBertFrame, EndBert, unchangedTx, unchangedQueue, qvars
<1>2. air \in Seq(Items) /\ Among(air, VoiceItems) \in Seq(VoiceItems)
  BY VoiceAmong DEF IInv, AirOK
<1>3. PICK b \in Seq(NotVoice) : air' = air \o b
  BY SendingAppends
<1>4. b \in Seq(Items) /\ Among(b, VoiceItems) = <<>>
  BY NoVoice
<1>5. Among(air \o b, VoiceItems) = Among(air, VoiceItems) \o Among(b, VoiceItems)
  BY <1>2, <1>4, AmongConcat
<1>6. Among(air, VoiceItems) \o <<>> = Among(air, VoiceItems)
  BY <1>2, ConcatEmptySeq
<1>7. air \o b \in Seq(Items)
  BY <1>2, <1>4, ConcatIsSeq
<1>8. QED
  BY <1>1, <1>3, <1>4, <1>5, <1>6, <1>7, Zenon DEF VoicesUnchanged

\* ... and these are all the kinds of steps there are for the samples.
LEMMA Effects ==
  ASSUME IInv, FlowInv, [Next]_vars
  PROVE  VoicesUnchanged \/ (Puts /\ PutSample) \/ TxTakesSample \/ TxEnds
<1>1. UNCHANGED <<air, audio, items>> => VoicesUnchanged
  BY DEF VoicesUnchanged, IInv, AirOK
<1>2. CASE UNCHANGED vars
  BY <1>1, <1>2 DEF vars, qvars
<1>3. CASE Sigint \/ Begin \/ TestRunning \/ StopRunning \/ JoinTransmit \/ StdinNext
  BY <1>1, <1>3 DEF Sigint, Begin, TestRunning, StopRunning, JoinTransmit, StdinNext,
    ReadSample,
     EndOfInput, unchangedQueue, qvars, unchangedTx
<1>4. CASE LeadIn \/ SendPreamble \/ SendBertFrame \/ EndBert
  BY <1>4, SendingIsQuiet
<1>5. CASE PutSample
  BY <1>1, <1>5 DEF PutSample, Puts, PutWaits, CallTimesOut, MainStep, unchangedTx,
    unchangedInput, unchangedNotes
<1>6. CASE CloseQueue
  BY <1>1, <1>6 DEF CloseQueue, Close, unchangedTx
<1>7. CASE TxStart \/ TxAborts \/ TxAwaitFirst \/ TxTestClosed
  BY <1>1, <1>7 DEF TxStart, TxAborts, TxAwaitFirst, TxTestClosed, unchangedQueue, qvars
<1>8. CASE TxFindsNothing
  BY <1>1, <1>8 DEF TxFindsNothing, GetWaits, GetFindsClosed, CallTimesOut, qvars
<1>9. CASE Timer \/ Spurious
  BY <1>1, <1>9 DEF Timer, Spurious, WaitExpires, WaitEndsSpuriously
<1>10. QED
  BY <1>2, <1>3, <1>4, <1>5, <1>6, <1>7, <1>8, <1>9 DEF Next, MainNext, TxNext, Exited

\* get hands a sample over from the queue to the buffer.
LEMMA TakeConserves ==
  ASSUME IInv, BufferOK, TxTakesSample
  PROVE  /\ OnTheWay' = OnTheWay
         /\ index + 1 # FrameSize =>
              air' = air /\ RealSamples(audio') \o items' = RealSamples(audio) \o items
         /\ index + 1 = FrameSize =>
              \E a \in Audio : /\ Holds(a, FrameSize) /\ air' = air \o VoiceFrame(a, FALSE)
                               /\ RealSamples(a) \o items' = RealSamples(audio) \o items
                               /\ RealSamples(audio') = <<>>
<1>1. PICK v \in Samples :
        /\ GetTakes("tx", v)
        /\ LET a == [audio EXCEPT ![index + 1] = v]
           IN  IF index + 1 = FrameSize
               THEN /\ air' = air \o VoiceFrame(a, FALSE)
                    /\ audio' = ClearAudio(a)
                    /\ index' = 0
               ELSE /\ audio' = a
                    /\ index' = index + 1
                    /\ UNCHANGED air
  BY DEF TxTakesSample
<1>2. audio \in Audio /\ index \in 0..FrameSize-1 /\ Holds(audio, index)
  BY DEF IInv, DataOK, BufferOK, TxTakesSample, TxStep
<1>3. PICK a : a = [audio EXCEPT ![index + 1] = v]
  OBVIOUS
<1>4. a \in Audio /\ Holds(a, index + 1) /\ RealSamples(a) = RealSamples(audio) \o <<v>>
  BY <1>2, <1>3, RealAppends
<1>5. PICK t \in Seq(Samples) : items = <<v>> \o t /\ items' = t
  <2>1. items \in Seq(Samples) /\ items # <<>> /\ v = Head(items) /\ items' = Tail(items)
    BY <1>1 DEF GetTakes, IInv, QueueInv, QueueOK, QueueTypeOK
  <2>2. items = <<Head(items)>> \o Tail(items) /\ Tail(items) \in Seq(Samples)
    BY <2>1
  <2>3. QED
    BY <2>1, <2>2
<1>6. PICK s \in Seq(Samples), r \in Seq(Samples), c \in Seq(Samples) :
        s = Sent(air) /\ r = RealSamples(audio) /\ c = <<v>>
  <2>1. Sent(air) \in Seq(Samples) /\ RealSamples(audio) \in Seq(Samples)
    BY OnTheWayType
  <2>2. <<v>> \in Seq(Samples)
    OBVIOUS
  <2>3. QED
    BY <2>1, <2>2, Zenon
<1>7. PICK sr, rc, ct, src : sr = s \o r /\ rc = r \o c /\ ct = c \o t /\ src = s \o rc
  OBVIOUS
<1>8. sr \o ct = src \o t /\ src \o <<>> = src
  <2>1. sr \in Seq(Samples) /\ src \in Seq(Samples)
    BY <1>7, ConcatProperties
  <2>2. s \o (r \o c) = (s \o r) \o c
    BY SMTT(60)
  <2>3. sr \o (c \o t) = (sr \o c) \o t
    BY <2>1, SMTT(60)
  <2>4. src \o <<>> = src
    BY <2>1, ConcatEmptySeq
  <2>5. QED
    BY <1>7, <2>2, <2>3, <2>4, Zenon
<1>9. RealSamples(a) = rc
  BY <1>4, <1>6, <1>7, Zenon
<1>10. OnTheWay = sr \o ct
  BY <1>5, <1>6, <1>7, OnTheWayIs, Zenon
<1>11. RealSamples(a) \o items' = RealSamples(audio) \o items
  <2>1. (r \o c) \o t = r \o (c \o t)
    BY SMTT(60)
  <2>2. QED
    BY <1>5, <1>6, <1>7, <1>9, <2>1, Zenon
<1>12. CASE index + 1 # FrameSize
  <2>1. air' = air /\ audio' = a
    BY <1>1, <1>3, <1>12
  <2>2. OnTheWay' = src \o t
    BY <1>5, <1>6, <1>7, <1>9, <2>1, OnTheWayIs, Zenon
  <2>3. QED
    BY <1>8, <1>10, <1>11, <1>12, <2>1, <2>2, Zenon
<1>13. CASE index + 1 = FrameSize
  <2>1. air' = air \o VoiceFrame(a, FALSE) /\ audio' = SilentAudio
    BY <1>1, <1>3, <1>13 DEF ClearAudio
  <2>2. Sent(air') = src
    <3>1. /\ VoiceFrame(a, FALSE) \in Seq(Items)
          /\ Sent(VoiceFrame(a, FALSE)) = RealSamples(a)
      BY <1>4, VoiceFrameIn DEF Sent
    <3>2. Sent(air \o VoiceFrame(a, FALSE)) = Sent(air) \o Sent(VoiceFrame(a, FALSE))
      BY <3>1, SentConcat DEF IInv, AirOK
    <3>3. QED
      BY <1>6, <1>7, <1>9, <2>1, <3>1, <3>2, Zenon
  <2>3. RealSamples(audio') = <<>>
    BY <2>1, SilentHolds, Zenon
  <2>4. OnTheWay' = (src \o <<>>) \o t
    BY <1>5, <2>2, <2>3, OnTheWayIs, Zenon
  <2>5. Holds(a, FrameSize)
    BY <1>4, <1>13
  <2>6. QED
    BY <1>4, <1>8, <1>10, <1>11, <1>13, <2>1, <2>3, <2>4, <2>5, Zenon
<1>14. QED
  BY <1>12, <1>13

\* The end of the transmission puts out what the buffer holds.
LEMMA EndConserves ==
  ASSUME IInv, BufferOK, TxEnds
  PROVE  OnTheWay' = OnTheWay
<1>1. audio \in Audio /\ index \in 0..FrameSize-1 /\ Holds(audio, index) /\ air \in Seq(Items)
  BY DEF IInv, DataOK, AirOK, BufferOK, TxEnds, TxStep
<1>2. PICK s \in Seq(Samples), r \in Seq(Samples) :
        s = Sent(air) /\ r = RealSamples(audio) /\ Len(r) = index /\ items \in Seq(Samples)
  <2>1. index \in 0..FrameSize
    BY <1>1, SizeAssumption DEF FrameSize
  <2>2. QED
    BY <1>1, <2>1, RealPrefix, OnTheWayType
<1>3. Flush(audio, index) \in Seq(Items) /\ Sent(Flush(audio, index)) = r
  <2>1. CASE index > 0
    BY <1>1, <1>2, <2>1, VoiceFrameIn DEF Flush, Sent
  <2>2. CASE ~(index > 0)
    <3>1. r = <<>>
      BY <1>1, <1>2, <2>2, EmptySeq
    <3>2. Flush(audio, index) = <<>> /\ <<>> \in Seq(Items)
      BY <2>2 DEF Flush
    <3>3. Among(<<>>, VoiceItems) = <<>> /\ SamplesOf(<<>>) = <<>>
      <4>1. << >> \in Seq(NotVoice)
        OBVIOUS
      <4>2. SamplesOf(<<>>) = <<>>
        BY FlattenSeqNone DEF SamplesOf
      <4>3. QED
        BY <4>1, <4>2, NoVoice, Zenon
    <3>4. Sent(<<>>) = <<>>
      BY <3>3, Zenon DEF Sent
    <3>5. QED
      BY <3>1, <3>2, <3>4, Zenon
  <2>3. QED
    BY <2>1, <2>2
<1>4. PICK l \in Seq(Items) : l = VoiceFrame(SilentAudio, TRUE) /\ Sent(l) = <<>>
  BY SilentHolds, VoiceFrameIn DEF Sent
<1>5. Eot \in Seq(Items) /\ Among(Eot, VoiceItems) = <<>>
  BY MarkersAreNotVoice, NoVoice
<1>6. PICK f \in Seq(Items) : f = Flush(audio, index)
  BY <1>3
<1>7. air \o f \in Seq(Items) /\ (air \o f) \o l \in Seq(Items)
  BY <1>1, ConcatIsSeq
<1>8. Sent(air \o f) = s \o r
  <2>1. Sent(air \o f) = Sent(air) \o Sent(f)
    BY <1>1, SentConcat
  <2>2. QED
    BY <1>2, <1>3, <1>6, <2>1, Zenon
<1>9. Sent((air \o f) \o l) = Sent(air \o f) \o Sent(l)
  BY <1>7, SentConcat
<1>10. Sent(((air \o f) \o l) \o Eot) = Sent((air \o f) \o l)
  BY <1>5, <1>7, SentNothing
<1>11. Sent(air') = (s \o r) \o <<>>
  <2>1. air' = ((air \o f) \o l) \o Eot
    BY <1>4, <1>6 DEF TxEnds
  <2>2. QED
    BY <1>4, <1>8, <1>9, <1>10, <2>1, Zenon
<1>12. RealSamples(audio') = <<>> /\ items' = items
  BY SilentHolds DEF TxEnds, unchangedQueue, qvars
<1>13. ((s \o r) \o <<>>) \o <<>> = s \o r
  BY <1>2, ConcatEmptySeq, ConcatProperties
<1>14. OnTheWay' = (((s \o r) \o <<>>) \o <<>>) \o items
  BY <1>11, <1>12, OnTheWayIs, Zenon
<1>15. OnTheWay = (s \o r) \o items
  BY <1>2, OnTheWayIs, Zenon
<1>16. QED
  BY <1>13, <1>14, <1>15, Zenon

\* No step loses, repeats or reorders a sample, and only a put that succeeds
\* adds one, at the end.
LEMMA Conserved ==
  ASSUME IInv, FlowInv, BufferOK, [Next]_vars
  PROVE  \/ OnTheWay' = OnTheWay
         \/ Puts /\ PutSample /\ OnTheWay' = OnTheWay \o <<sample>>
<1>1. CASE VoicesUnchanged
  <2>1. Sent(air') = Sent(air)
    BY <1>1, Zenon DEF Sent, VoicesUnchanged
  <2>2. RealSamples(audio') = RealSamples(audio) /\ items' = items
    BY <1>1 DEF VoicesUnchanged
  <2>3. QED
    BY <2>1, <2>2, OnTheWayIs, Zenon
<1>2. CASE Puts /\ PutSample
  <2>1. sample \in Samples /\ items' = items \o <<sample>>
    BY <1>2 DEF Puts, PutAppends, IInv, SampleOK, QueueInv, QueueOK, QueueTypeOK
  <2>2. air' = air /\ audio' = audio
    BY <1>2 DEF Puts
  <2>3. PICK a \in Seq(Samples), b \in Seq(Samples), c \in Seq(Samples) :
          a = Sent(air) \o RealSamples(audio) /\ b = items /\ c = <<sample>>
    <3>1. Sent(air) \o RealSamples(audio) \in Seq(Samples)
      BY OnTheWayType, ConcatProperties
    <3>2. items \in Seq(Samples) /\ <<sample>> \in Seq(Samples)
      BY <2>1, OnTheWayType
    <3>3. QED
      BY <3>1, <3>2, Zenon
  <2>4. a \o (b \o c) = (a \o b) \o c
    BY SMTT(60)
  <2>5. OnTheWay' = a \o (b \o c) /\ OnTheWay = a \o b
    BY <2>1, <2>2, <2>3, OnTheWayIs, Zenon
  <2>6. QED
    BY <1>2, <2>3, <2>4, <2>5, Zenon
<1>3. QED
  BY <1>1, <1>2, Effects, TakeConserves, EndConserves

-----------------------------------------------------------------------------
\* What each step does to what is put out.
LEMMA AirGrows ==
  ASSUME IInv, FlowInv, [Next]_vars
  PROVE  \/ UNCHANGED air
         \/ mode = "voice" /\ main = "leadin" /\ LeadIn
         \/ mode # "voice" /\ (LeadIn \/ SendPreamble \/ SendBertFrame \/ EndBert)
         \/ TxTakesSample /\ mode = "voice"
         \/ TxEnds /\ mode = "voice"
<1>1. CASE UNCHANGED vars
  BY <1>1 DEF vars
<1>2. CASE Sigint \/ Begin \/ TestRunning \/ StopRunning \/ JoinTransmit \/ StdinNext
           \/ PutSample \/ CloseQueue
  BY <1>2 DEF Sigint, Begin, TestRunning, StopRunning, JoinTransmit, StdinNext, ReadSample,
     EndOfInput, PutSample, CloseQueue
<1>3. CASE LeadIn \/ SendPreamble \/ SendBertFrame \/ EndBert
  BY <1>3 DEF LeadIn, SendPreamble, SendBertFrame, EndBert, MainStep, FlowInv, PhaseOK,
    Modes
<1>4. CASE TxStart \/ TxAborts \/ TxAwaitFirst \/ TxTestClosed \/ TxFindsNothing \/ Timer
           \/ Spurious
  BY <1>4 DEF TxStart, TxAborts, TxAwaitFirst, TxTestClosed, TxFindsNothing, Timer, Spurious
<1>5. CASE TxTakesSample \/ TxEnds
  BY <1>5 DEF TxTakesSample, TxEnds, TxStep, FlowInv, PhaseOK
<1>6. QED
  BY <1>1, <1>2, <1>3, <1>4, <1>5 DEF Next, MainNext, TxNext, Exited

\* The options the program was started with stay.
LEMMA ConfigStays == ASSUME [Next]_vars PROVE mode' = mode /\ network' = network
<1>1. CASE UNCHANGED vars
  BY <1>1 DEF vars
<1>2. CASE MainNext \/ StdinNext \/ Sigint
  BY <1>2 DEF MainNext, StdinNext, Sigint, LeadIn, Begin, SendPreamble, SendBertFrame,
    EndBert, TestRunning,
     PutSample, StopRunning, CloseQueue, JoinTransmit, ReadSample, EndOfInput,
     unchangedConfig
<1>3. CASE TxNext \/ Timer \/ Spurious
  BY <1>3 DEF TxNext, TxStart, TxAborts, TxAwaitFirst, TxTestClosed, TxTakesSample,
    TxFindsNothing,
     TxEnds, txUnchanged, Timer, Spurious, unchangedConfig
<1>4. QED
  BY <1>1, <1>2, <1>3 DEF Next, Exited

\* Only the end of a transmission makes it done, and nothing undoes it.
LEMMA DoneStays ==
  ASSUME FlowInv, [Next]_vars, ~TxEnds
  PROVE  (tx' = "done") <=> (tx = "done")
<1>1. CASE UNCHANGED vars
  BY <1>1 DEF vars
<1>2. CASE MainNext \/ StdinNext \/ Sigint
  BY <1>2 DEF MainNext, StdinNext, Sigint, LeadIn, Begin, SendPreamble, SendBertFrame,
    EndBert, TestRunning,
     PutSample, StopRunning, CloseQueue, JoinTransmit, ReadSample, EndOfInput,
     unchangedTx, MainStep,
     FlowInv, PhaseOK
<1>3. CASE TxNext \/ Timer \/ Spurious
  BY <1>3 DEF TxNext, TxStart, TxAborts, TxAwaitFirst, TxTestClosed, TxTakesSample,
    TxFindsNothing,
     TxStep, Timer, Spurious
<1>4. QED
  BY <1>1, <1>2, <1>3 DEF Next, Exited

LEMMA AppendedAt ==
  ASSUME NEW S, NEW s \in Seq(S), NEW x \in S
  PROVE  /\ Len(s \o <<x>>) = Len(s) + 1
         /\ \A i \in 1..Len(s) : (s \o <<x>>)[i] = s[i]
         /\ (s \o <<x>>)[Len(s)+1] = x
  OBVIOUS

\* A full frame is appended by the sample that fills it.
LEMMA TakeAppends ==
  ASSUME IInv, BufferOK, TxTakesSample, index + 1 = FrameSize
  PROVE  \E x \in VoiceItems : /\ x \in Items /\ FullFrame(x) /\ air' = air \o <<x>>
                               /\ RealSamples(x.audio) = x.audio /\ ~x.last
                               /\ RealSamples(x.audio) \o items' = RealSamples(audio) \o items
                               /\ RealSamples(audio') = <<>>
<1>1. PICK a \in Audio : /\ Holds(a, FrameSize) /\ air' = air \o VoiceFrame(a, FALSE)
                         /\ RealSamples(a) \o items' = RealSamples(audio) \o items
                         /\ RealSamples(audio') = <<>>
  BY TakeConserves
<1>2. PICK x : x = [what |-> "voice", to |-> Sink, audio |-> a, last |-> FALSE]
  OBVIOUS
<1>3. x \in VoiceItems /\ x \in Items /\ x.what = "voice" /\ ~x.last /\ x.audio = a
  BY <1>2 DEF VoiceItems, Items, Sink, Sinks
<1>4. \A k \in 1..FrameSize : a[k] \in Samples
  BY <1>1 DEF Holds
<1>5. RealSamples(a) = a
  <2>1. PICK S : S = Samples \cup {Silence, Garbage}
    OBVIOUS
  <2>2. a \in Seq(S) /\ Len(a) = FrameSize
    BY <2>1, AudioIsSeq
  <2>3. \A i \in 1..Len(a) : a[i] \in Samples
    BY <1>4, <2>2, Zenon
  <2>4. QED
    BY <2>2, <2>3, AmongAll, Zenon DEF RealSamples
<1>6. air' = air \o <<x>>
  BY <1>1, <1>2 DEF VoiceFrame
<1>7. FullFrame(x)
  BY <1>3, <1>4 DEF FullFrame
<1>8. QED
  BY <1>1, <1>3, <1>5, <1>6, <1>7, Zenon

\* BufferOK is preserved.
LEMMA BufferKept == ASSUME FullInv, [Next]_vars PROVE BufferOK'
<1>1. CASE UNCHANGED <<audio, index, air>> /\ (tx = "done" <=> tx' = "done")
  BY <1>1 DEF FullInv, BufferOK, Holds
<1>2. CASE UNCHANGED vars
  BY <1>1, <1>2 DEF vars
<1>3. CASE Sigint \/ TestRunning \/ StopRunning \/ JoinTransmit \/ StdinNext \/ PutSample
           \/ CloseQueue
  BY <1>1, <1>3 DEF Sigint, TestRunning, StopRunning, JoinTransmit, StdinNext, ReadSample,
     EndOfInput, PutSample, CloseQueue, unchangedTx
<1>4. CASE Begin \/ TxStart \/ TxAborts \/ TxAwaitFirst \/ TxTestClosed \/ TxFindsNothing
           \/ Timer \/ Spurious
  BY <1>1, <1>4 DEF Begin, TxStart, TxAborts, TxAwaitFirst, TxTestClosed, TxFindsNothing,
    TxStep,
     Timer, Spurious, MainStep, FullInv, FlowInv, PhaseOK
<1>5. CASE LeadIn \/ SendPreamble \/ SendBertFrame \/ EndBert
  <2>1. UNCHANGED <<audio, index, tx>>
    BY <1>5 DEF LeadIn, SendPreamble, SendBertFrame, EndBert, unchangedTx
  <2>2. \A i \in 1..Len(air') : air'[i].what = "voice" =>
             \E j \in 1..Len(air) : air[j].what = "voice"
    <3>1. air \in Seq(Items)
      BY DEF FullInv, IInv, AirOK
    <3>4. PICK b \in Seq(NotVoice) : air' = air \o b
      BY <1>5, SendingAppends DEF FullInv
    <3>5. PICK n \in Nat, m \in Nat : n = Len(air) /\ m = Len(b)
      BY <3>1
    <3>6. /\ Len(air') = n + m
          /\ \A i \in 1..n+m : air'[i] = IF i <= n THEN air[i] ELSE b[i-n]
      BY <3>1, <3>4, <3>5, NoVoice, ConcatProperties
    <3>7. \A i \in 1..m : b[i] \in NotVoice
      BY <3>5, ElementOfSeq
    <3>8. ASSUME NEW i \in 1..n+m, air'[i].what = "voice"
          PROVE  \E j \in 1..n : air[j].what = "voice"
      <4>1. CASE i <= n
        <5>1. i \in 1..n /\ air'[i] = air[i]
          BY <3>6, <4>1
        <5>2. QED
          BY <3>8, <5>1, Zenon
      <4>2. CASE ~(i <= n)
        <5>1. i - n \in 1..m
          BY <4>2
        <5>2. air'[i] = b[i-n] /\ b[i-n] \in NotVoice
          BY <3>6, <3>7, <4>2, <5>1, Zenon
        <5>3. air'[i].what # "voice"
          BY <5>2 DEF NotVoice
        <5>4. QED
          BY <3>8, <5>3, Zenon
      <4>3. QED
        BY <4>1, <4>2, Zenon
    <3>9. QED
      BY <3>5, <3>6, <3>8, Zenon
  <2>3. QED
    BY <2>1, <2>2 DEF FullInv, BufferOK, Holds
<1>6. CASE TxTakesSample
  <2>1. PICK v \in Samples :
        /\ GetTakes("tx", v)
        /\ LET a == [audio EXCEPT ![index + 1] = v]
           IN  IF index + 1 = FrameSize
               THEN /\ air' = air \o VoiceFrame(a, FALSE)
                    /\ audio' = ClearAudio(a)
                    /\ index' = 0
               ELSE /\ audio' = a
                    /\ index' = index + 1
                    /\ UNCHANGED air
    BY <1>6 DEF TxTakesSample
  <2>2. audio \in Audio /\ index \in 0..FrameSize-1 /\ Holds(audio, index) /\ tx' # "done"
        /\ BufferOK
    BY <1>6 DEF FullInv, IInv, DataOK, BufferOK, TxTakesSample, TxStep
  <2>3. CASE index + 1 = FrameSize
    <3>1. audio' = SilentAudio /\ index' = 0
      BY <2>1, <2>3 DEF ClearAudio
    <3>2. Holds(audio', index')
      BY <3>1, SilentHolds
    <3>3. \A k \in 1..FrameSize : audio'[k] # Garbage
      BY <3>1 DEF SilentAudio, Silence, Garbage
    <3>4. QED
      BY <2>2, <3>2, <3>3 DEF BufferOK, Holds
  <2>4. CASE index + 1 # FrameSize
    <3>1. audio' = [audio EXCEPT ![index + 1] = v] /\ index' = index + 1 /\ air' = air
      BY <2>1, <2>4
    <3>2. Holds(audio', index')
      <4>1. Holds([audio EXCEPT ![index + 1] = v], index + 1)
        BY <2>2, RealAppends
      <4>2. QED
        BY <3>1, <4>1, Zenon
    <3>3. \A k \in 1..FrameSize : audio[k] # Garbage => audio'[k] # Garbage
      BY <2>2, <3>1 DEF Audio, Samples, Garbage
    <3>4. QED
      BY <2>2, <3>1, <3>2, <3>3 DEF BufferOK, Holds
  <2>5. QED
    BY <2>3, <2>4
<1>7. CASE TxEnds
  BY <1>7 DEF TxEnds, TxStep, BufferOK, Holds, SilentAudio, Silence, Garbage
<1>8. QED
  BY <1>2, <1>3, <1>4, <1>5, <1>6, <1>7 DEF Next, MainNext, TxNext, Exited

-----------------------------------------------------------------------------
\* The order of the samples, from what is conserved.
LEMMA OrderKept == ASSUME FullInv, [Next]_vars PROVE OrderOK'
<1>1. PICK n \in Nat : n = Len(OnTheWay) /\ OnTheWay \in Seq(Samples)
  BY OnTheWayType DEF FullInv
<1>2. CASE OnTheWay' = OnTheWay
  <2>1. /\ main = "put" => n = nRead - 1
        /\ main # "put" => n = nRead \/ (stalled /\ Stopping /\ n = nRead - 1)
        /\ main = "put" => sample = nRead
        /\ \A i \in 1..n : OnTheWay[i] = i
    BY <1>1 DEF FullInv, OrderOK
  <2>2. /\ main' = "put" => n = nRead' - 1 /\ sample' = nRead'
        /\ main' # "put" => n = nRead' \/ (stalled' /\ Stopping' /\ n = nRead' - 1)
    <3> USE <2>1 DEF Stopping
    <3>0. nRead \in Nat
      BY DEF FullInv, IInv, DataOK
    <3>1. CASE UNCHANGED vars
      BY <3>1 DEF vars
    <3>2. CASE Sigint \/ LeadIn \/ Begin
      BY <3>2 DEF Sigint, LeadIn, Begin, MainStep, unchangedConfig, unchangedInput,
        unchangedNotes,
         FullInv, IInv, ControlOK, Modes
    <3>3. CASE SendPreamble \/ SendBertFrame \/ EndBert
      BY <3>3 DEF SendPreamble, SendBertFrame, EndBert, MainStep, unchangedConfig,
        unchangedInput,
         unchangedNotes
    <3>4. CASE TestRunning \/ StopRunning \/ CloseQueue
      BY <3>4 DEF TestRunning, StopRunning, CloseQueue, MainStep, unchangedConfig,
        unchangedInput, unchangedNotes
    <3>5. CASE JoinTransmit
      BY <3>5 DEF JoinTransmit, MainStep, unchangedConfig, unchangedInput,
        unchangedNotes, FullInv, FlowInv, PhaseOK
    <3>6. CASE ReadSample
      BY <3>0, <3>6 DEF ReadSample, MainStep, unchangedConfig, unchangedNotes
    <3>7. CASE EndOfInput
      BY <3>7 DEF EndOfInput, MainStep, unchangedConfig, unchangedNotes
    <3>8. CASE PutSample
      <4>1. ~PutAppends("main", sample)
        <5>1. SUFFICES ASSUME PutAppends("main", sample) PROVE FALSE
          OBVIOUS
        <5>2. sample \in Samples /\ items \in Seq(Samples) /\ items' = Append(items, sample)
          BY <3>8, <5>1 DEF PutAppends, PutSample, MainStep, FullInv, IInv, SampleOK,
            QueueInv, QueueOK, QueueTypeOK
        <5>3. UNCHANGED <<air, audio>>
          BY <3>8 DEF PutSample, unchangedTx
        <5>4. PICK a \in Seq(Samples) : a = Sent(air) \o RealSamples(audio)
          <6>1. Sent(air) \o RealSamples(audio) \in Seq(Samples)
            BY OnTheWayType, ConcatProperties DEF FullInv
          <6>2. QED
            BY <6>1
        <5>5. OnTheWay = a \o items /\ OnTheWay' = a \o Append(items, sample)
          BY <5>2, <5>3, <5>4, OnTheWayIs, Zenon
        <5>6. Len(a \o items) = Len(a) + Len(items)
              /\ Len(a \o Append(items, sample)) = Len(a) + (Len(items) + 1)
              /\ Len(a) \in Nat /\ Len(items) \in Nat
          BY <5>2
        <5>7. Len(a) + Len(items) = Len(a) + (Len(items) + 1)
          BY <1>2, <5>5, <5>6, Zenon
        <5>8. QED
          BY <5>6, <5>7
      <4>2. QED
        BY <3>8, <4>1 DEF PutSample, CallTimesOut, MainStep, unchangedConfig,
          unchangedInput, unchangedNotes, FullInv,
           FlowInv, DrainOK
    <3>9. CASE TxNext
      BY <3>9 DEF TxNext, TxStart, TxAborts, TxAwaitFirst, TxTestClosed, TxTakesSample,
        TxFindsNothing,
         TxEnds, txUnchanged, unchangedConfig, unchangedInput
    <3>10. CASE Timer \/ Spurious
      BY <3>10 DEF Timer, Spurious, unchangedConfig, unchangedInput, unchangedNotes
    <3>11. QED
      BY <3>1, <3>2, <3>3, <3>4, <3>5, <3>6, <3>7, <3>8, <3>9, <3>10
      DEF Next, MainNext, StdinNext, Exited
  <2>3. QED
    BY <1>1, <1>2, <2>1, <2>2 DEF OrderOK
<1>3. CASE Puts /\ PutSample /\ OnTheWay' = OnTheWay \o <<sample>>
  <2>1. main = "put" /\ main' = "loop" /\ nRead' = nRead
    BY <1>3 DEF Puts
  <2>2. n = nRead - 1 /\ sample = nRead /\ (\A i \in 1..n : OnTheWay[i] = i)
        /\ nRead \in Nat /\ sample \in Samples
    BY <1>1, <2>1 DEF FullInv, OrderOK, IInv, DataOK, SampleOK
  <2>3. PICK w \in Seq(Samples) : w = OnTheWay /\ Len(w) = n
    BY <1>1
  <2>4. Len(w \o <<sample>>) = n + 1 /\ (\A i \in 1..n : (w \o <<sample>>)[i] = w[i])
        /\ (w \o <<sample>>)[n+1] = sample
    BY <2>2, <2>3
  <2>5. Len(OnTheWay') = n + 1 /\ (\A i \in 1..n : OnTheWay'[i] = i) /\ OnTheWay'[n+1] = n + 1
    BY <1>3, <2>2, <2>3, <2>4
  <2>6. QED
    BY <1>1, <2>1, <2>2, <2>5 DEF OrderOK
<1>4. QED
  BY <1>2, <1>3, Conserved DEF FullInv

\* Before the end of a voice transmission there are only full frames behind the lead-in.
LEMMA VoiceAirKept == ASSUME FullInv, [Next]_vars PROVE VoiceAirOK'
<1>1. SUFFICES ASSUME mode' = "voice", tx' # "done"
               PROVE  \A i \in 1..Len(air') : LeadInItem(air'[i]) \/ FullFrame(air'[i])
  BY DEF VoiceAirOK
<1>2. mode = "voice"
  BY <1>1, ConfigStays
<1>3. ~TxEnds
  BY <1>1 DEF TxEnds, TxStep
<1>4. CASE UNCHANGED air
  <2>1. tx # "done"
    BY <1>1, <1>3, DoneStays DEF FullInv
  <2>2. QED
    BY <1>2, <1>4, <2>1 DEF FullInv, VoiceAirOK
<1>5. CASE LeadIn
  <2>1. air = <<>>
    BY <1>5 DEF LeadIn, MainStep, FullInv, FlowInv, PhaseOK
  <2>2. PICK b \in Seq(Signals) : air' = air \o b
    BY <1>5, SendingAppends DEF FullInv
  <2>3. << >> \o b = b
    BY ConcatEmptySeq
  <2>4. air' = b
    BY <2>1, <2>2, <2>3, Zenon
  <2>5. \A i \in 1..Len(b) : LeadInItem(b[i])
    BY ElementOfSeq DEF Signals
  <2>6. QED
    BY <2>4, <2>5, Zenon
<1>6. CASE TxTakesSample
  <2>1. \A i \in 1..Len(air) : LeadInItem(air[i]) \/ FullFrame(air[i])
    BY <1>2, <1>6 DEF FullInv, VoiceAirOK, TxTakesSample, TxStep
  <2>2. CASE index + 1 # FrameSize
    BY <1>6, <2>1, <2>2, TakeConserves DEF FullInv
  <2>3. CASE index + 1 = FrameSize
    <3>1. PICK x \in Items : FullFrame(x) /\ air' = air \o <<x>>
      BY <1>6, <2>3, TakeAppends DEF FullInv
    <3>2. PICK n \in Nat : n = Len(air) /\ air \in Seq(Items)
      BY DEF FullInv, IInv, AirOK
    <3>3. Len(air') = n + 1 /\ (\A i \in 1..n : air'[i] = air[i]) /\ air'[n+1] = x
      BY <3>1, <3>2, AppendedAt
    <3>4. \A i \in 1..n+1 : i \in 1..n \/ i = n + 1
      BY <3>2
    <3>5. QED
      BY <2>1, <3>1, <3>2, <3>3, <3>4, Zenon
  <2>4. QED
    BY <2>2, <2>3
<1>7. QED
  BY <1>2, <1>3, <1>4, <1>5, <1>6, AirGrows DEF FullInv

-----------------------------------------------------------------------------
\* What goes out in a BERT transmission besides its frames contributes none.
NotBert == {f \in Items : f.what # "bert"}

LEMMA BertIn ==
  /\ \A b \in Seq(Signals) : b \in Seq(Items) /\ Among(b, BertItems) = <<>>
  /\ Eot \o DeadCarrier \in Seq(Items) /\ Among(Eot \o DeadCarrier, BertItems) = <<>>
<1>1. \A x \in NotBert : x \notin BertItems
  BY DEF NotBert, BertItems
<1>2. ASSUME NEW b \in Seq(NotBert) PROVE b \in Seq(Items) /\ Among(b, BertItems) = <<>>
  <2>1. b \in Seq(Items)
    BY DEF NotBert
  <2>2. \A i \in 1..Len(b) : b[i] \in NotBert
    BY ElementOfSeq
  <2>3. Among(b, BertItems) = <<>>
    BY <1>1, <2>2, AmongNone, Zenon
  <2>4. QED
    BY <2>1, <2>3
<1>3. ASSUME NEW b \in Seq(Signals) PROVE b \in Seq(NotBert)
  BY DEF Signals, NotBert, LeadInItem
<1>4. Eot \o DeadCarrier \in Seq(NotBert)
  <2>1. [what |-> "eot", to |-> "stdout"] \in NotBert
    BY DEF NotBert, Items, Markers, Sinks
  <2>2. Eot \in Seq(NotBert)
    BY <2>1 DEF Eot
  <2>3. DeadCarrier \in Seq(NotBert)
    BY <1>3, MarkersAreNotVoice
  <2>4. QED
    BY <2>2, <2>3, ConcatProperties
<1>5. QED
  BY <1>2, <1>3, <1>4, Zenon

LEMMA BertAmong == ASSUME NEW a \in Seq(Items) PROVE Among(a, BertItems) \in Seq(BertItems)
<1>1. \A x \in Items : x \in BertItems => x \in BertItems
  OBVIOUS
<1>2. QED
  BY AmongType

\* The end of a BERT transmission: EOT, and then at most dead carrier.
LEMMA EotIsLast ==
  ASSUME air \in Seq(Items), EndBert
  PROVE  \E i \in DOMAIN air' : /\ air'[i].what = "eot"
                                /\ \A j \in DOMAIN air' : j > i => air'[j].what = "carrier"
<1>1. PICK n \in Nat : n = Len(air)
  OBVIOUS
<1>2. PICK e, c : /\ e = [what |-> "eot", to |-> "stdout"]
                  /\ c = [what |-> "carrier", to |-> Sink]
  OBVIOUS
<1>3. e \in Items /\ c \in Items /\ e.what = "eot" /\ c.what = "carrier"
  BY <1>2 DEF Items, Markers, Sinks, Sink
<1>4. Eot = <<e>> /\ (DeadCarrier = <<>> \/ DeadCarrier = <<c>>)
  BY <1>2 DEF Eot, DeadCarrier
<1>5. PICK a \in Seq(Items) : a = air \o <<e>> /\ Len(a) = n + 1 /\ a[n+1] = e
  <2>1. /\ air \o <<e>> \in Seq(Items) /\ Len(air \o <<e>>) = n + 1
        /\ (air \o <<e>>)[n+1] = e
    BY <1>1, <1>3
  <2>2. QED
    BY <2>1, Zenon
<1>6. air' = a \/ air' = a \o <<c>>
  <2>1. air' = (air \o Eot) \o DeadCarrier
    BY DEF EndBert
  <2>2. a \o <<>> = a
    BY <1>5, ConcatEmptySeq
  <2>3. QED
    BY <1>4, <1>5, <2>1, <2>2, Zenon
<1>7. CASE air' = a
  BY <1>3, <1>5, <1>7
<1>8. CASE air' = a \o <<c>>
  <2>1. /\ DOMAIN air' = 1..n+2 /\ air'[n+1] = e /\ air'[n+2] = c
    BY <1>3, <1>5, <1>8
  <2>2. QED
    BY <1>3, <2>1
<1>9. QED
  BY <1>6, <1>7, <1>8

\* BertOK is preserved.
LEMMA BertKept == ASSUME FullInv, [Next]_vars PROVE BertOK'
<1>1. CASE mode # "bert"
  <2>1. mode' = mode
    BY ConfigStays
  <2>2. frameCount' = frameCount
    <3>1. CASE UNCHANGED vars
      BY <3>1 DEF vars
    <3>2. CASE MainNext \/ StdinNext \/ Sigint
      BY <1>1, <3>2 DEF MainNext, StdinNext, Sigint, LeadIn, Begin, SendPreamble,
        SendBertFrame, EndBert, TestRunning,
         PutSample, StopRunning, CloseQueue, JoinTransmit, ReadSample, EndOfInput, MainStep,
         FullInv, FlowInv, PhaseOK, Modes
    <3>3. CASE TxNext \/ Timer \/ Spurious
      BY <3>3 DEF TxNext, TxStart, TxAborts, TxAwaitFirst, TxTestClosed, TxTakesSample,
        TxFindsNothing,
         TxEnds, txUnchanged, Timer, Spurious
    <3>4. QED
      BY <3>1, <3>2, <3>3 DEF Next, Exited
  <2>3. QED
    BY <1>1, <2>1, <2>2 DEF FullInv, BertOK
<1>2. CASE mode = "bert"
  <2>1. mode' = "bert" /\ tx = "none"
        /\ main \notin {"preamble", "loop", "read", "put", "finish", "close", "join"}
    BY <1>2, ConfigStays DEF FullInv, FlowInv, PhaseOK, Modes
  <2>2. air \in Seq(Items) /\ frameCount \in 0..BertFrames
    BY DEF FullInv, IInv, AirOK, DataOK
  <2>3. PICK s \in Seq(BertItems) : s = Among(air, BertItems)
    BY <2>2, BertAmong
  <2>4. Len(s) = frameCount /\ \A i \in 1..frameCount : s[i].last <=> i = BertFrames
    BY <1>2, <2>3 DEF FullInv, BertOK, BertFramesOut
  <2>5. CASE UNCHANGED <<air, frameCount>>
             /\ (main' = "exited" => main = "exited" /\ (interrupted => interrupted'))
    BY <1>2, <2>1, <2>5 DEF FullInv, BertOK, BertFramesOut
  <2>6. CASE UNCHANGED vars
    BY <2>5, <2>6 DEF vars
  <2>7. CASE Sigint \/ Begin \/ Timer \/ Spurious
    BY <1>2, <2>5, <2>7 DEF Sigint, Begin, Timer, Spurious, MainStep, unchangedNotes
  <2>8. CASE LeadIn
    <3>1. air = <<>> /\ main' # "exited" /\ frameCount' = frameCount
      BY <2>8 DEF LeadIn, MainStep, FullInv, FlowInv, PhaseOK
    <3>2. PICK b \in Seq(Signals) : air' = air \o b
      BY <2>8, SendingAppends DEF FullInv
    <3>3. << >> \o b = b
      BY ConcatEmptySeq
    <3>4. Among(air', BertItems) = <<>>
      BY <3>1, <3>2, <3>3, BertIn, Zenon
    <3>5. Among(<<>>, BertItems) = <<>>
      <4>1. << >> \in Seq(Signals)
        OBVIOUS
      <4>2. QED
        BY <4>1, BertIn, Zenon
    <3>6. Among(air', BertItems) = Among(air, BertItems)
      BY <3>1, <3>4, <3>5, Zenon
    <3>7. QED
      BY <2>1, <2>3, <2>4, <3>1, <3>6 DEF BertOK, BertFramesOut
  <2>9. CASE SendBertFrame
    <3>1. PICK f : f = [what |-> "bert", to |-> Sink, last |-> LastBertFrame]
      OBVIOUS
    <3>2. f \in BertItems /\ f \in Items /\ (f.last <=> frameCount + 1 = BertFrames)
      BY <3>1 DEF BertItems, Items, Sink, Sinks, LastBertFrame
    <3>3. air' = air \o <<f>> /\ frameCount' = frameCount + 1 /\ main' = "bert"
      BY <2>9, <3>1 DEF SendBertFrame, BertFrame, MainStep
    <3>4. Among(<<f>>, BertItems) = <<f>>
      <4>1. <<f>> \in Seq(BertItems) /\ Len(<<f>>) = 1
        BY <3>2
      <4>2. \A i \in 1..1 : <<f>>[i] \in BertItems
        BY <3>2
      <4>3. QED
        BY <4>1, <4>2, AmongAll, Zenon
    <3>5. Among(air', BertItems) = s \o <<f>>
      <4>1. <<f>> \in Seq(Items)
        BY <3>2
      <4>2. Among(air \o <<f>>, BertItems) = Among(air, BertItems) \o Among(<<f>>, BertItems)
        BY <2>2, <4>1, AmongConcat
      <4>3. QED
        BY <2>3, <3>3, <3>4, <4>2, Zenon
    <3>6. PICK n \in Nat : n = frameCount /\ Len(s) = n
      BY <2>2, <2>4, ModAssumption
    <3>7. Len(s \o <<f>>) = n + 1 /\ (\A i \in 1..n : (s \o <<f>>)[i] = s[i])
          /\ (s \o <<f>>)[n+1] = f
      BY <3>2, <3>6
    <3>8. \A i \in 1..n+1 : (s \o <<f>>)[i].last <=> i = BertFrames
      <4>1. SUFFICES ASSUME NEW i \in 1..n+1 PROVE (s \o <<f>>)[i].last <=> i = BertFrames
        OBVIOUS
      <4>2. CASE i \in 1..n
        <5>1. (s \o <<f>>)[i] = s[i] /\ (s[i].last <=> i = BertFrames)
          BY <2>4, <3>6, <3>7, <4>2, Zenon
        <5>2. QED
          BY <5>1, Zenon
      <4>3. CASE i = n + 1
        <5>1. (s \o <<f>>)[i] = f /\ (f.last <=> i = BertFrames)
          BY <3>2, <3>6, <3>7, <4>3, Zenon
        <5>2. QED
          BY <5>1, Zenon
      <4>4. i \in 1..n \/ i = n + 1
        OBVIOUS
      <4>5. QED
        BY <4>2, <4>3, <4>4, Zenon
    <3>9. QED
      BY <2>1, <3>3, <3>5, <3>6, <3>7, <3>8 DEF BertOK, BertFramesOut
  <2>10. CASE EndBert
    <3>1. frameCount' = frameCount /\ interrupted' = interrupted /\ main' = "exited"
          /\ (frameCount = BertFrames \/ interrupted)
      BY <2>10 DEF EndBert, MainStep, unchangedNotes, FullInv, FlowInv, ReasonOK
    <3>2. Among(air', BertItems) = Among(air, BertItems)
      <4>1. PICK b \in Seq(Items) : b = Eot \o DeadCarrier /\ Among(b, BertItems) = <<>>
        BY BertIn
      <4>2. air' = air \o b
        <5>1. air' = (air \o Eot) \o DeadCarrier
          BY <2>10 DEF EndBert
        <5>2. air \o (Eot \o DeadCarrier) = (air \o Eot) \o DeadCarrier
          BY <2>2, MarkersAreItems, SMTT(60)
        <5>3. QED
          BY <4>1, <5>1, <5>2, Zenon
      <4>3. Among(air \o b, BertItems) = Among(air, BertItems) \o Among(b, BertItems)
        BY <2>2, AmongConcat
      <4>4. s \o <<>> = s
        BY ConcatEmptySeq
      <4>5. QED
        BY <2>3, <4>1, <4>2, <4>3, <4>4, Zenon
    <3>3. QED
      BY <2>1, <2>2, <2>3, <2>4, <2>10, <3>1, <3>2, EotIsLast DEF BertOK, BertFramesOut
  <2>11. QED
    BY <2>1, <2>6, <2>7, <2>8, <2>9, <2>10
    DEF Next, MainNext, StdinNext, TxNext, SendPreamble, TestRunning,
        PutSample, StopRunning, CloseQueue, JoinTransmit, ReadSample, EndOfInput, MainStep,
        TxStart, TxAborts, TxAwaitFirst, TxTestClosed, TxTakesSample, TxFindsNothing,
        TxEnds, TxStep, Exited
<1>3. QED
  BY <1>1, <1>2

-----------------------------------------------------------------------------
\* The invariant holds at the start.
LEMMA FlowInit == Init => FlowInv /\ BufferOK /\ OrderOK /\ VoiceAirOK /\ BertOK
<1> SUFFICES ASSUME Init PROVE FlowInv /\ BufferOK /\ OrderOK /\ VoiceAirOK /\ BertOK
  OBVIOUS
<1>1. FlowInv
  BY DEF Init, QueueInit, FlowInv, DrainOK, PhaseOK, ReasonOK, Stopping, Modes
<1>2. Holds(audio, 0) /\ index = 0 /\ air = <<>> /\ tx = "none"
  BY SizeAssumption, ModAssumption DEF Init, Holds, FrameSize, Samples, Garbage
<1>3. BufferOK
  BY <1>2, EmptySeq DEF BufferOK
<1>4. VoiceAirOK
  BY <1>2 DEF VoiceAirOK
<1>5. audio \in Audio
  BY SizeAssumption DEF Init, Audio, FrameSize, Garbage
<1>6. Among(<<>>, VoiceItems) = <<>> /\ Among(<<>>, BertItems) = <<>>
  <2>1. << >> \in Seq(NotVoice) /\ <<>> \in Seq(Signals)
    OBVIOUS
  <2>2. QED
    BY <2>1, NoVoice, BertIn, Zenon
<1>7. OnTheWay = <<>>
  <2>1. Sent(<<>>) = <<>>
    <3>1. SamplesOf(<<>>) = <<>>
      BY FlattenSeqNone DEF SamplesOf
    <3>2. QED
      BY <1>6, <3>1, Zenon DEF Sent
  <2>2. 0 \in 0..FrameSize
    BY SizeAssumption DEF FrameSize
  <2>3. RealSamples(audio) \in Seq(Samples) /\ Len(RealSamples(audio)) = 0
    BY <1>2, <1>5, <2>2, RealPrefix
  <2>4. RealSamples(audio) = <<>> /\ items = <<>>
    BY <2>3, EmptySeq DEF Init, QueueInit
  <2>5. (<<>> \o <<>>) \o <<>> = <<>>
    OBVIOUS
  <2>6. QED
    BY <1>2, <2>1, <2>4, <2>5, OnTheWayIs, Zenon
<1>8. OrderOK
  BY <1>7 DEF Init, OrderOK
<1>9. BertOK
  BY <1>2, <1>6, ModAssumption DEF Init, BertOK, BertFramesOut
<1>10. QED
  BY <1>1, <1>3, <1>4, <1>8, <1>9

\* The invariant: control of the two threads, the contents of the buffer, the
\* order of the samples and what has been put out, together inductive.
THEOREM FullInvariant == Spec => []FullInv
<1>1. Init => FullInv
  BY InitEstablishes, FlowInit DEF FullInv
<1>2. FullInv /\ [Next]_vars => FullInv'
  BY NextKeeps, PhaseKept, DrainKept, ReasonKept, BufferKept, OrderKept, VoiceAirKept,
    BertKept DEF FullInv, FlowInv
<1>3. QED
  BY <1>1, <1>2, PTL DEF Spec

\* What follows from it.
LEMMA InOrderFrom == FullInv => SamplesInOrder
<1> SUFFICES ASSUME FullInv PROVE SamplesInOrder
  OBVIOUS
<1>1. PICK w \in Seq(Samples), n \in Nat : w = OnTheWay /\ n = Len(w)
  <2>1. OnTheWay \in Seq(Samples) /\ Len(OnTheWay) \in Nat
    BY OnTheWayType DEF FullInv
  <2>2. QED
    BY <2>1
<1>2. \A i \in 1..n : w[i] = i
  BY <1>1 DEF FullInv, OrderOK
<1>3. n = IF main = "put" \/ (stalled /\ nRead # Len(OnTheWay)) THEN nRead-1 ELSE nRead
  BY <1>1 DEF FullInv, OrderOK
<1>4. w = [i \in 1..n |-> i]
  BY <1>1, <1>2
<1>5. QED
  BY <1>1, <1>3, <1>4, Zenon DEF SamplesInOrder

LEMMA NothingLostFrom == FullInv => NothingLost
<1> SUFFICES ASSUME FullInv, main = "exited", mode = "voice", ~stalled
    PROVE (stdinEnded \/ interrupted) /\ Len(SentSamples) = nRead
  BY DEF NothingLost
<1>1. stdinEnded \/ interrupted
  BY DEF FullInv, FlowInv, ReasonOK, Stopping
<1>2. tx = "done" /\ items = <<>>
  BY DEF FullInv, FlowInv, PhaseOK, DrainOK
<1>3. RealSamples(audio) = <<>>
  BY <1>2, SilentHolds DEF FullInv, BufferOK
<1>4. PICK s \in Seq(Samples) : s = Sent(air)
  BY OnTheWayType DEF FullInv
<1>5. (s \o <<>>) \o <<>> = s
  BY ConcatEmptySeq
<1>6. OnTheWay = s
  BY <1>2, <1>3, <1>4, <1>5, OnTheWayIs, Zenon
<1>7. Len(OnTheWay) = nRead
  BY DEF FullInv, OrderOK
<1>8. QED
  BY <1>1, <1>4, <1>6, <1>7, SentIs

LEMMA BertShapeFrom == FullInv => BertTransmissionShape
<1> SUFFICES ASSUME FullInv, mode = "bert", main = "exited"
    PROVE LET frames == Among(air, BertItems)
    IN  /\ \A i \in DOMAIN frames : frames[i].last <=> i = BertFrames
        /\ Len(frames) = BertFrames \/ interrupted
        /\ \E i \in DOMAIN air : /\ air[i].what = "eot"
                                 /\ \A j \in DOMAIN air : j > i => air[j].what = "carrier"
  BY DEF BertTransmissionShape
<1>1. Among(air, BertItems) \in Seq(BertItems)
  BY BertAmong DEF FullInv, IInv, AirOK
<1>2. DOMAIN Among(air, BertItems) = 1..frameCount
  BY <1>1 DEF FullInv, BertOK, BertFramesOut
<1>3. QED
  BY <1>2 DEF FullInv, BertOK, BertFramesOut

\* The samples reach the frames in the order in which stdin delivered them, and
\* those on their way are exactly those read: none is lost, repeated or swapped
\* between the loop over stdin, the queue and the transmit thread.
THEOREM SamplesAlwaysInOrder == Spec => []SamplesInOrder
  BY FullInvariant, InOrderFrom, PTL

\* When opv-mod exits in voice mode and no call on the queue gave up, input had
\* ended or SIGINT come, and every sample that was read has been put out.
THEOREM NothingIsLost == Spec => []NothingLost
  BY FullInvariant, NothingLostFrom, PTL

\* A BERT transmission has the requested number of frames unless SIGINT cut it
\* short, marks the last of them and no other, and ends with EOT.
THEOREM BertShape == Spec => []BertTransmissionShape
  BY FullInvariant, BertShapeFrom, PTL

-----------------------------------------------------------------------------
\* No element of the buffer was never written.
NoGarbage(a) == Garbage \notin {a[k] : k \in 1..FrameSize}

\* A full frame meets every clause of VoiceTransmissionShape.
LEMMA FullAudio ==
  ASSUME NEW x \in Items, FullFrame(x)
  PROVE  /\ x \in VoiceItems /\ x.audio \in Audio /\ x.what = "voice" /\ ~x.last
         /\ RealSamples(x.audio) = x.audio
         /\ NoGarbage(x.audio)
<1>1. x \in VoiceItems /\ x.audio \in Audio /\ x.what = "voice" /\ ~x.last
  BY DEF FullFrame, Items, Markers, BertItems, VoiceItems
<1>2. PICK S : S = Samples \cup {Silence, Garbage}
  OBVIOUS
<1>3. PICK a \in Seq(S) : a = x.audio /\ Len(a) = FrameSize
  BY <1>1, <1>2, AudioIsSeq
<1>4. \A k \in 1..FrameSize : a[k] \in Samples
  BY <1>3 DEF FullFrame
<1>5. RealSamples(a) = a
  BY <1>3, <1>4, AmongAll, Zenon DEF RealSamples
<1>6. NoGarbage(a)
  BY <1>4 DEF NoGarbage, Samples, Garbage
<1>7. QED
  BY <1>1, <1>3, <1>5, <1>6, Zenon

\* What VoiceTransmissionShape says of what is put out.
Full(f) == f.what = "voice" => RealSamples(f.audio) = f.audio
ShapeAt(a, n, i) ==
  /\ a[i].what \in {"carrier", "preamble", "voice"}
  /\ a[i].what = "voice" =>
       /\ ~a[i].last
       /\ i < n-2 => Full(a[i])
       /\ ~Full(a[i]) => RealSamples(a[i].audio) # <<>>
       /\ i > 1 /\ a[i-1].what = "voice" => NoGarbage(a[i].audio)
LastFrame == VoiceFrame(SilentAudio, TRUE)[1]
Shape(a, l) ==
  LET n == Len(a)
  IN  /\ a[n].what = "eot"
      /\ a[n-1] = l
      /\ \A i \in 1..n-2 : ShapeAt(a, n, i)

Shaped == tx = "done" => Shape(air, LastFrame)

LEMMA ShapeIs == Shaped => VoiceTransmissionShape
  BY Zenon DEF VoiceTransmissionShape, Shaped, LastFrame, Shape, ShapeAt, Full, NoGarbage

\* TxEnds completes the shape, whether or not a partial frame is flushed.
LEMMA EndShape == ASSUME FullInv, TxEnds PROVE Shape(air', LastFrame)
<1>1. PICK m \in Nat : m = Len(air) /\ air \in Seq(Items)
  BY DEF FullInv, IInv, AirOK
<1>2. mode = "voice" /\ \A i \in 1..m : LeadInItem(air[i]) \/ FullFrame(air[i])
  BY <1>1 DEF FullInv, FlowInv, PhaseOK, VoiceAirOK, TxEnds, TxStep
<1>3. audio \in Audio /\ index \in 0..FrameSize-1 /\ Holds(audio, index)
      /\ ((\E i \in 1..m : air[i].what = "voice") => NoGarbage(audio))
  BY <1>1 DEF NoGarbage, FullInv, IInv, DataOK, BufferOK, TxEnds, TxStep
<1>4. PICK f, l, e : /\ f = [what |-> "voice", to |-> Sink, audio |-> audio, last |-> FALSE]
                     /\ l = [what |-> "voice", to |-> Sink, audio |-> SilentAudio, last |-> TRUE]
                     /\ e = [what |-> "eot", to |-> "stdout"]
  OBVIOUS
<1>5. f \in Items /\ l \in Items /\ e \in Items
  BY <1>3, <1>4, SilentHolds DEF Items, VoiceItems, Markers, Sink, Sinks
<1>6. ASSUME NEW i \in 1..m, NEW a, NEW n, a[i] = air[i], i > 1 => a[i-1] = air[i-1]
      PROVE  ShapeAt(a, n, i)
  <2>1. air[i] \in Items
    BY <1>1, ElementOfSeq
  <2>2. CASE LeadInItem(air[i])
    BY <1>6, <2>2 DEF LeadInItem, ShapeAt
  <2>3. CASE FullFrame(air[i])
    <3>1. /\ air[i].what = "voice" /\ ~air[i].last /\ RealSamples(air[i].audio) = air[i].audio
          /\ NoGarbage(air[i].audio)
      BY <2>1, <2>3, FullAudio
    <3>2. QED
      BY <1>6, <3>1 DEF ShapeAt, Full
  <2>4. QED
    BY <1>2, <2>2, <2>3
<1>7. LastFrame = l /\ e.what = "eot"
  BY <1>4 DEF LastFrame, VoiceFrame
<1>8. air' = ((air \o Flush(audio, index)) \o <<l>>) \o <<e>>
  BY <1>4 DEF TxEnds, VoiceFrame, Eot
<1>9. CASE index = 0
  <2>1. Flush(audio, index) = <<>>
    BY <1>9 DEF Flush
  <2>2. air \o <<>> = air
    BY <1>1, ConcatEmptySeq
  <2>3. air' = (air \o <<l>>) \o <<e>>
    BY <1>8, <2>1, <2>2, Zenon
  <2>4. PICK b \in Seq(Items) : b = air \o <<l>> /\ Len(b) = m + 1
                                /\ (\A i \in 1..m : b[i] = air[i])
                                /\ b[m+1] = l
    <3>1. air \o <<l>> \in Seq(Items)
      BY <1>1, <1>5
    <3>2. QED
      BY <1>1, <1>5, <3>1, AppendedAt
  <2>5. Len(air') = m + 2 /\ (\A i \in 1..m+1 : air'[i] = b[i]) /\ air'[m+2] = e
    BY <1>5, <2>3, <2>4
  <2>6. /\ air'[m+2] = e /\ air'[m+1] = l /\ \A i \in 1..m : air'[i] = air[i]
    BY <2>4, <2>5
  <2>7. (m + 2) - 1 = m + 1 /\ (m + 2) - 2 = m
    OBVIOUS
  <2>8. \A i \in 1..m : ShapeAt(air', m + 2, i)
    BY <1>6, <2>6
  <2>9. QED
    BY <1>7, <2>5, <2>6, <2>7, <2>8, Zenon DEF Shape
<1>10. CASE index # 0
  <2>1. Flush(audio, index) = <<f>>
    <3>1. index > 0
      BY <1>3, <1>10, SizeAssumption DEF FrameSize
    <3>2. QED
      BY <1>4, <3>1 DEF Flush, VoiceFrame
  <2>2. air' = ((air \o <<f>>) \o <<l>>) \o <<e>>
    BY <1>8, <2>1, Zenon
  <2>3. PICK c \in Seq(Items) : c = air \o <<f>> /\ Len(c) = m + 1
                                /\ (\A i \in 1..m : c[i] = air[i])
                                /\ c[m+1] = f
    <3>1. air \o <<f>> \in Seq(Items)
      BY <1>1, <1>5
    <3>2. QED
      BY <1>1, <1>5, <3>1, AppendedAt
  <2>4. PICK b \in Seq(Items) : b = c \o <<l>> /\ Len(b) = m + 2
                                /\ (\A i \in 1..m+1 : b[i] = c[i])
                                /\ b[m+2] = l
    <3>1. c \o <<l>> \in Seq(Items)
      BY <1>5
    <3>2. Len(c \o <<l>>) = (m + 1) + 1 /\ (\A i \in 1..m+1 : (c \o <<l>>)[i] = c[i])
          /\ (c \o <<l>>)[(m+1)+1] = l
      BY <1>5, <2>3
    <3>3. (m + 1) + 1 = m + 2
      OBVIOUS
    <3>4. QED
      BY <3>1, <3>2, <3>3, Zenon
  <2>5. air' = b \o <<e>>
    BY <2>2, <2>3, <2>4, Zenon
  <2>6. Len(air') = m + 3 /\ (\A i \in 1..m+2 : air'[i] = b[i]) /\ air'[m+3] = e
    BY <1>5, <2>4, <2>5
  <2>7. /\ air'[m+3] = e /\ air'[m+2] = l /\ air'[m+1] = f /\ \A i \in 1..m : air'[i] = air[i]
    BY <2>3, <2>4, <2>6
  <2>8. (m + 3) - 1 = m + 2 /\ (m + 3) - 2 = m + 1
    OBVIOUS
  <2>9. \A i \in 1..m : ShapeAt(air', m + 3, i)
    BY <1>6, <2>7
  <2>10. ShapeAt(air', m + 3, m + 1)
    <3>1. f.what = "voice" /\ ~f.last /\ f.audio = audio
      BY <1>4
    <3>2. RealSamples(audio) # <<>>
      <4>1. index \in 0..FrameSize
        BY <1>3, SizeAssumption DEF FrameSize
      <4>2. Len(RealSamples(audio)) = index
        BY <1>3, <4>1, RealPrefix
      <4>3. QED
        BY <1>10, <4>2
    <3>3. ~(m + 1 < (m + 3) - 2)
      OBVIOUS
    <3>4. m + 1 > 1 /\ air'[(m+1)-1].what = "voice" => NoGarbage(audio)
      <4>1. SUFFICES ASSUME m + 1 > 1, air'[(m+1)-1].what = "voice"
                     PROVE NoGarbage(audio)
        OBVIOUS
      <4>2. m \in 1..m /\ (m + 1) - 1 = m
        BY <4>1
      <4>3. air[m].what = "voice"
        BY <2>7, <4>1, <4>2
      <4>4. QED
        BY <1>3, <4>2, <4>3
    <3>5. QED
      BY <2>7, <3>1, <3>2, <3>3, <3>4, Zenon DEF ShapeAt
  <2>11. \A i \in 1..m+1 : ShapeAt(air', m + 3, i)
    <3>1. \A i \in 1..m+1 : i \in 1..m \/ i = m + 1
      OBVIOUS
    <3>2. QED
      BY <2>9, <2>10, <3>1, Zenon
  <2>12. QED
    BY <1>7, <2>6, <2>7, <2>8, <2>11, Zenon DEF Shape
<1>11. QED
  BY <1>9, <1>10

\* No later step disturbs it.
LEMMA ShapeKept == FullInv /\ Shaped /\ [Next]_vars => Shaped'
<1> SUFFICES ASSUME FullInv, Shaped, [Next]_vars, tx' = "done"
             PROVE  Shape(air', LastFrame)
  <2>1. SUFFICES ASSUME FullInv, Shaped, [Next]_vars PROVE Shaped'
    OBVIOUS
  <2>2. LastFrame' = LastFrame
    <3>1. network' = network
      BY <2>1, ConfigStays
    <3>2. QED
      BY <3>1 DEF LastFrame, VoiceFrame, Sink
  <2>3. QED
    BY <2>1, <2>2 DEF Shaped
<1>1. CASE TxEnds
  BY <1>1, EndShape
<1>2. CASE ~TxEnds
  <2>1. tx = "done"
    BY <1>2, DoneStays DEF FullInv
  <2>2. mode = "voice" /\ main # "leadin"
    BY <2>1 DEF FullInv, FlowInv, PhaseOK
  <2>3. air' = air
    BY <1>2, <2>1, <2>2, AirGrows DEF FullInv, LeadIn, MainStep, TxTakesSample, TxStep
  <2>4. QED
    BY <2>1, <2>3 DEF Shaped
<1>3. QED
  BY <1>1, <1>2

\* A finished voice transmission is full frames, at most one partial frame that
\* is not empty, one silent frame marked last and EOT, and only its first frame
\* can hold memory that was never written.
THEOREM VoiceShape == Spec => []VoiceTransmissionShape
<1>1. Init => Shaped
  BY DEF Init, Shaped
<1>2. QED
  BY <1>1, ShapeKept, ShapeIs, FullInvariant, PTL DEF Spec

-----------------------------------------------------------------------------
(***************************************************************************)
(* Voice mode as a relay.                                                  *)
(***************************************************************************)
\* What the relay sees of a voice frame, as a function, and of a sequence of them.
FrameOut == [f \in VoiceItems |-> Relay!Frame(RealSamples(f.audio), f.last)]
OutOf(s) == [i \in DOMAIN s |-> [samples |-> RealSamples(s[i].audio), last |-> s[i].last]]

LEMMA OutIs == out = OutOf(Among(air, VoiceItems)) /\ out' = OutOf(Among(air', VoiceItems))
  BY DEF out, OutOf, VoiceFrames

LEMMA OutOfConcat ==
  ASSUME NEW s \in Seq(VoiceItems), NEW t \in Seq(VoiceItems)
  PROVE  OutOf(s \o t) = OutOf(s) \o OutOf(t)
<1>1. PICK W : W = {FrameOut[f] : f \in VoiceItems}
  OBVIOUS
<1>2. FrameOut \in [VoiceItems -> W]
  BY <1>1 DEF FrameOut
<1>3. ASSUME NEW u \in Seq(VoiceItems) PROVE OutOf(u) = Mapped(u, FrameOut)
  <2>1. \A i \in DOMAIN u : u[i] \in VoiceItems
    BY LenProperties, ElementOfSeq
  <2>2. \A i \in DOMAIN u : FrameOut[u[i]] = [samples |-> RealSamples(u[i].audio), last |-> u[i].last]
    BY <2>1, Zenon DEF FrameOut, Relay!Frame
  <2>3. QED
    BY <2>2, Zenon DEF OutOf, Mapped
<1>4. Mapped(s \o t, FrameOut) = Mapped(s, FrameOut) \o Mapped(t, FrameOut)
  BY <1>2, MappedConcat, Zenon
<1>5. s \o t \in Seq(VoiceItems)
  BY ConcatProperties
<1>6. QED
  BY <1>3, <1>4, <1>5, Zenon

LEMMA OutOfOne ==
  ASSUME NEW f \in VoiceItems
  PROVE  OutOf(<<f>>) = <<Relay!Frame(RealSamples(f.audio), f.last)>>
  BY DEF OutOf, Relay!Frame

\* What the relay has put out is a sequence.
LEMMA OutType ==
  ASSUME IInv PROVE \E W : out \in Seq(W)
<1>1. PICK W : W = {FrameOut[f] : f \in VoiceItems}
  OBVIOUS
<1>2. FrameOut \in [VoiceItems -> W]
  BY <1>1 DEF FrameOut
<1>3. PICK s \in Seq(VoiceItems) : s = Among(air, VoiceItems)
  BY VoiceAmong DEF IInv, AirOK
<1>4. Mapped(s, FrameOut) \in Seq(W)
  BY <1>2, MappedType
<1>5. OutOf(s) = Mapped(s, FrameOut)
  <2>1. \A i \in DOMAIN s : s[i] \in VoiceItems
    BY LenProperties, ElementOfSeq
  <2>2. \A i \in DOMAIN s : FrameOut[s[i]] = [samples |-> RealSamples(s[i].audio), last |-> s[i].last]
    BY <2>1, Zenon DEF FrameOut, Relay!Frame
  <2>3. QED
    BY <2>2, Zenon DEF OutOf, Mapped
<1>6. QED
  BY <1>3, <1>4, <1>5, OutIs

\* The relay begins as OpvMod does.
LEMMA RelayInit == Init => Relay!Init
<1> SUFFICES ASSUME Init PROVE Relay!Init
  OBVIOUS
<1>1. IInv /\ BufferOK /\ air = <<>> /\ items = <<>> /\ index = 0 /\ tx = "none"
  BY InitEstablishes, FlowInit DEF Init, QueueInit
<1>2. RealSamples(audio) = <<>>
  <2>1. 0 \in 0..FrameSize /\ audio \in Audio /\ Holds(audio, 0)
    BY <1>1, SizeAssumption DEF IInv, DataOK, BufferOK, FrameSize
  <2>2. RealSamples(audio) \in Seq(Samples) /\ Len(RealSamples(audio)) = 0
    BY <2>1, RealPrefix
  <2>3. QED
    BY <2>2, EmptySeq
<1>3. inFlight = <<>>
  BY <1>1, <1>2 DEF inFlight
<1>4. out = <<>>
  <2>1. Among(air, VoiceItems) = <<>>
    <3>1. << >> \in Seq(NotVoice)
      OBVIOUS
    <3>2. QED
      BY <1>1, <3>1, NoVoice, Zenon
  <2>2. OutOf(<<>>) = <<>>
    BY DEF OutOf
  <2>3. QED
    BY <2>1, <2>2, OutIs, Zenon
<1>5. given = 0 /\ open = TRUE /\ over = FALSE /\ stalled = FALSE
  BY <1>1 DEF Init, given, open, over
<1>6. QED
  BY <1>3, <1>4, <1>5 DEF Relay!Init

\* What the steps other than a put that succeeds do to what the relay takes.
RelayControl ==
  \/ given' = given /\ open' = open /\ stalled' = stalled
  \/ given' = given /\ open = TRUE /\ open' = FALSE /\ stalled' = stalled
  \/ given' = given + 1 /\ open = TRUE /\ open' = FALSE /\ stalled = TRUE
     /\ stalled' = stalled
  \/ given' = given /\ open' = open /\ stalled = FALSE /\ stalled' = TRUE


\* And that is all they do.
LEMMA ControlMaps ==
  ASSUME FullInv, [Next]_vars, ~(PutSample /\ Puts)
  PROVE  RelayControl
<1> USE DEF RelayControl, given, open
<1>1. nRead \in Nat /\ stalled \in BOOLEAN
  BY DEF FullInv, IInv, ControlOK, DataOK
<1>2. CASE UNCHANGED vars
  BY <1>2 DEF vars
<1>3. CASE Sigint \/ LeadIn \/ Begin
  BY <1>3 DEF Sigint, LeadIn, Begin, MainStep, unchangedConfig, unchangedInput,
    unchangedNotes,
     FullInv, IInv, ControlOK, Modes
<1>4. CASE SendPreamble \/ SendBertFrame \/ EndBert
  BY <1>4 DEF SendPreamble, SendBertFrame, EndBert, MainStep, unchangedConfig,
    unchangedInput,
     unchangedNotes, FullInv, FlowInv, PhaseOK, Modes
<1>5. CASE TestRunning \/ StopRunning \/ CloseQueue
  BY <1>5 DEF TestRunning, StopRunning, CloseQueue, MainStep, unchangedConfig,
    unchangedInput, unchangedNotes
<1>6. CASE JoinTransmit
  BY <1>6 DEF JoinTransmit, MainStep, unchangedConfig, unchangedInput, unchangedNotes,
    FullInv, FlowInv, PhaseOK
<1>7. CASE ReadSample
  BY <1>1, <1>7 DEF ReadSample, MainStep, unchangedConfig, unchangedNotes
<1>8. CASE EndOfInput
  BY <1>8 DEF EndOfInput, MainStep, unchangedConfig, unchangedNotes
<1>9. CASE PutSample
  <2>1. CASE PutAppends("main", sample) /\ main' = "loop"
    BY <1>9, <2>1 DEF PutSample, Puts, MainStep, unchangedTx, unchangedInput, unchangedNotes
  <2>2. CASE main = "put" /\ main' = "put"
    BY <1>9, <2>2 DEF PutSample, unchangedConfig, unchangedInput, unchangedNotes
  <2>3. CASE main = "put" /\ main' = "finish" /\ CallTimesOut("main")
    <3>1. stalled = TRUE /\ stalled' = stalled /\ nRead' = nRead
      BY <1>1, <1>9, <2>3 DEF PutSample, CallTimesOut, FullInv, FlowInv, DrainOK,
        unchangedInput, unchangedNotes
    <3>2. QED
      BY <1>1, <2>3, <3>1
  <2>4. QED
    BY <1>9, <2>1, <2>2, <2>3 DEF PutSample, MainStep
<1>10. CASE TxNext
  BY <1>10 DEF TxNext, TxStart, TxAborts, TxAwaitFirst, TxTestClosed, TxTakesSample,
    TxFindsNothing,
         TxEnds, txUnchanged, unchangedConfig, unchangedInput
<1>11. CASE Timer \/ Spurious
  <2>1. given' = given /\ open' = open
    BY <1>11 DEF Timer, Spurious, unchangedConfig, unchangedInput
  <2>2. stalled' = stalled \/ stalled' = TRUE
    BY <1>1, <1>11 DEF Timer, Spurious, unchangedNotes
  <2>3. stalled = TRUE \/ stalled = FALSE
    BY <1>1
  <2>4. QED
    BY <2>1, <2>2, <2>3
<1>12. QED
  BY <1>2, <1>3, <1>4, <1>5, <1>6, <1>7, <1>8, <1>9, <1>10, <1>11
  DEF Next, MainNext, StdinNext, Exited

\* Steps by which no sample moves.
LEMMA QuietMaps ==
  ASSUME FullInv, [Next]_vars, VoicesUnchanged, ~TxEnds, ~(PutSample /\ Puts)
  PROVE  [Relay!Next]_Relay!relayVars
<1>1. inFlight' = inFlight
  BY DEF VoicesUnchanged, inFlight
<1>2. out' = out
  BY OutIs, Zenon DEF VoicesUnchanged
<1>3. over' = over
  BY DoneStays DEF over, FullInv
<1>4. RelayControl
  BY ControlMaps
<1>5. QED
  BY <1>1, <1>2, <1>3, <1>4, Zenon
  DEF RelayControl, Relay!Next, Relay!Close, Relay!Refuse, Relay!Pause, Relay!relayVars

\* A put that succeeds.
LEMMA PutMaps ==
  ASSUME FullInv, [Next]_vars, PutSample, Puts
  PROVE  Relay!Take
<1>1. main = "put" /\ main' = "loop" /\ UNCHANGED <<audio, air, nRead, stalled, tx, mode>>
  BY DEF Puts, PutSample, unchangedConfig
<1>2. sample = nRead /\ nRead \in Nat
  BY <1>1 DEF FullInv, OrderOK, IInv, DataOK
<1>3. given' = given + 1 /\ given + 1 = sample /\ open = TRUE
      /\ UNCHANGED <<open, over, stalled>>
  BY <1>1, <1>2 DEF given, open, over
<1>4. PICK r \in Seq(Samples) : r = RealSamples(audio) /\ Len(r) \in 0..FrameSize-1
  <2>1. index \in 0..FrameSize-1 /\ index \in 0..FrameSize /\ audio \in Audio
    BY SizeAssumption DEF FullInv, IInv, DataOK, FrameSize
  <2>2. CASE tx # "done"
    BY <2>1, <2>2, RealPrefix DEF FullInv, BufferOK
  <2>3. CASE tx = "done"
    <3>1. RealSamples(audio) = <<>>
      BY <2>3, SilentHolds DEF FullInv, BufferOK
    <3>2. << >> \in Seq(Samples) /\ Len(<<>>) \in 0..FrameSize-1
      BY SizeAssumption DEF FrameSize
    <3>3. QED
      BY <3>1, <3>2, Zenon
  <2>4. QED
    BY <2>2, <2>3
<1>5. items \in Seq(Samples) /\ sample \in Samples /\ items' = Append(items, sample)
      /\ Len(items) < SIZE
  BY <1>1 DEF Puts, PutAppends, FullInv, IInv, SampleOK, QueueInv, QueueOK, QueueTypeOK
<1>6. inFlight' = Append(inFlight, sample)
  <2>1. r \o Append(items, sample) = Append(r \o items, sample)
    BY <1>5
  <2>2. QED
    BY <1>1, <1>4, <1>5, <2>1, Zenon DEF inFlight
<1>7. Len(inFlight) < 2 * FrameSize
  <2>1. Len(r \o items) = Len(r) + Len(items)
    BY <1>5
  <2>2. QED
    BY <1>4, <1>5, <2>1, SizeAssumption DEF inFlight, FrameSize
<1>8. out' = out
  BY <1>1, OutIs
<1>9. QED
  BY <1>3, <1>6, <1>7, <1>8 DEF Relay!Take

\* Sequences: appending, and cutting a concatenation where it was joined.
LEMMA AppendedIs ==
  ASSUME NEW W, NEW s \in Seq(W), NEW e
  PROVE  Append(s, e) = s \o <<e>>
<1>1. PICK V : V = W \cup {e}
  OBVIOUS
<1>2. PICK n \in Nat : n = Len(s) /\ \A i \in 1..n : s[i] \in V
  BY <1>1, ElementOfSeq
<1>3. s = [i \in 1..n |-> s[i]]
  BY <1>2
<1>4. [i \in 1..n |-> s[i]] \in Seq(V)
  BY <1>2
<1>5. s \in Seq(V) /\ e \in V
  BY <1>1, <1>3, <1>4, Zenon
<1>6. QED
  BY <1>5

LEMMA Cut ==
  ASSUME NEW S, NEW a \in Seq(S), NEW b \in Seq(S), NEW n \in Nat, n = Len(a)
  PROVE  /\ SubSeq(a \o b, 1, n) = a
         /\ SubSeq(a \o b, n + 1, Len(a \o b)) = b
         /\ Len(a \o b) >= n
         /\ b = <<>> => Len(a \o b) = n
<1>1. PICK m \in Nat : m = Len(b)
  OBVIOUS
<1>2. PICK c \in Seq(S) : c = a \o b /\ Len(c) = n + m
                          /\ \A i \in 1..n+m : c[i] = IF i <= n THEN a[i] ELSE b[i-n]
  <2>1. /\ a \o b \in Seq(S) /\ Len(a \o b) = n + m
        /\ \A i \in 1..n+m : (a \o b)[i] = IF i <= n THEN a[i] ELSE b[i-n]
    BY <1>1, ConcatProperties
  <2>2. QED
    BY <2>1, Zenon
<1>3. (\A i \in 1..n+m : c[i] \in S) /\ (\A i \in 1..n : a[i] \in S)
      /\ (\A i \in 1..m : b[i] \in S)
  BY <1>1, <1>2, ElementOfSeq
<1>4. /\ Len(SubSeq(c, 1, n)) = n /\ SubSeq(c, 1, n) \in Seq(S)
      /\ \A i \in 1..n : SubSeq(c, 1, n)[i] = c[i]
  <2>1. \A i \in 1..n : c[i] \in S
    BY <1>3
  <2>2. QED
    BY <1>2, <2>1
<1>5. SubSeq(c, 1, n) = a
  <2>1. \A i \in 1..n : c[i] = a[i]
    <3>1. \A i \in 1..n : i \in 1..n+m /\ i <= n
      OBVIOUS
    <3>2. QED
      BY <1>2, <3>1, Zenon
  <2>2. \A i \in 1..n : SubSeq(c, 1, n)[i] = a[i]
    BY <1>4, <2>1, Zenon
  <2>3. QED
    BY <1>4, <2>2, SeqEqual, Zenon
<1>6. /\ Len(SubSeq(c, n + 1, n + m)) = m /\ SubSeq(c, n + 1, n + m) \in Seq(S)
      /\ \A i \in 1..m : SubSeq(c, n + 1, n + m)[i] = c[n + i]
  <2>1. m \in Nat /\ Len(c) = n + m
    BY <1>1, <1>2
  <2>2. \A i \in 1..m : n + i \in 1..n+m
    BY <2>1
  <2>3. \A i \in 1..m : c[n + i] \in S
    BY <1>3, <2>2, Zenon
  <2>4. Len(SubSeq(c, n + 1, n + m)) = m
    BY <2>1
  <2>5. SubSeq(c, n + 1, n + m) = [i \in 1..m |-> c[n + i]]
    BY <2>1
  <2>6. QED
    BY <2>1, <2>3, <2>4, <2>5
<1>7. SubSeq(c, n + 1, n + m) = b
  <2>1. \A i \in 1..m : c[n + i] = b[i]
    <3>1. \A i \in 1..m : n + i \in 1..n+m /\ ~(n + i <= n) /\ (n + i) - n = i
      OBVIOUS
    <3>2. QED
      BY <1>2, <3>1, Zenon
  <2>2. \A i \in 1..m : SubSeq(c, n + 1, n + m)[i] = b[i]
    BY <1>6, <2>1, Zenon
  <2>3. QED
    BY <1>1, <1>6, <2>2, SeqEqual, Zenon
<1>8. n + m >= n /\ (b = <<>> => n + m = n)
  BY <1>1
<1>9. QED
  BY <1>2, <1>5, <1>7, <1>8, Zenon

\* A frame is put out when the sample that fills it is taken.
LEMMA TakeMaps ==
  ASSUME FullInv, [Next]_vars, TxTakesSample
  PROVE  [Relay!Next]_Relay!relayVars
<1>1. UNCHANGED <<given, open, over, stalled>> /\ over = FALSE
  BY DEF given, open, over, TxTakesSample, TxStep, txUnchanged, unchangedConfig,
    unchangedInput
<1>2. CASE index + 1 # FrameSize
  <2>1. air' = air /\ inFlight' = inFlight
    BY <1>2, TakeConserves DEF FullInv, inFlight
  <2>2. out' = out
    BY <2>1, OutIs
  <2>3. QED
    BY <1>1, <2>1, <2>2 DEF Relay!relayVars
<1>3. CASE index + 1 = FrameSize
  <2>1. PICK x \in VoiceItems :
          /\ x \in Items /\ FullFrame(x) /\ air' = air \o <<x>>
          /\ RealSamples(x.audio) = x.audio /\ ~x.last
          /\ RealSamples(x.audio) \o items' = RealSamples(audio) \o items
          /\ RealSamples(audio') = <<>>
    BY <1>3, TakeAppends DEF FullInv
  <2>2. PICK a \in Seq(Samples) : a = RealSamples(x.audio) /\ Len(a) = FrameSize
    <3>1. x.audio \in Audio
      BY <2>1, FullAudio
    <3>2. Len(x.audio) = FrameSize /\ RealSamples(x.audio) \in Seq(Samples)
      BY <3>1, AudioIsSeq, RealType
    <3>3. QED
      BY <2>1, <3>2
  <2>3. PICK b \in Seq(Samples) : b = items'
    BY NextKeeps DEF FullInv, IInv, QueueInv, QueueOK, QueueTypeOK
  <2>4. inFlight = a \o b
    BY <2>1, <2>2, <2>3, Zenon DEF inFlight
  <2>5. inFlight' = b
    <3>1. << >> \o b = b
      BY ConcatEmptySeq
    <3>2. QED
      BY <2>1, <2>3, <3>1, Zenon DEF inFlight
  <2>6. out' = Append(out, Relay!Frame(a, FALSE))
    <3>1. PICK s \in Seq(VoiceItems) : s = Among(air, VoiceItems)
      BY VoiceAmong DEF FullInv, IInv, AirOK
    <3>2. <<x>> \in Seq(VoiceItems) /\ <<x>> \in Seq(Items) /\ Len(<<x>>) = 1 /\ <<x>>[1] = x
      BY <2>1
    <3>3. Among(<<x>>, VoiceItems) = <<x>>
      <4>1. \A i \in 1..1 : <<x>>[i] \in VoiceItems
        BY <2>1
      <4>2. QED
        BY <3>2, <4>1, AmongAll, Zenon
    <3>4. Among(air \o <<x>>, VoiceItems) = Among(air, VoiceItems) \o Among(<<x>>, VoiceItems)
      BY <3>2, AmongConcat DEF FullInv, IInv, AirOK
    <3>5. OutOf(s \o <<x>>) = OutOf(s) \o OutOf(<<x>>)
      BY <3>2, OutOfConcat
    <3>6. OutOf(<<x>>) = <<Relay!Frame(a, FALSE)>>
      <4>1. x.last = FALSE
        BY <2>1 DEF VoiceItems
      <4>2. QED
        BY <2>1, <2>2, <4>1, OutOfOne, Zenon
    <3>7. out' = out \o <<Relay!Frame(a, FALSE)>>
      BY <2>1, <3>1, <3>3, <3>4, <3>5, <3>6, OutIs, Zenon
    <3>8. PICK W : out \in Seq(W)
      BY OutType DEF FullInv
    <3>9. PICK o, e : o = out /\ e = Relay!Frame(a, FALSE)
      OBVIOUS
    <3>10. o \in Seq(W)
      BY <3>8, <3>9
    <3>11. Append(o, e) = o \o <<e>>
      BY <3>10, AppendedIs
    <3>12. QED
      BY <3>7, <3>9, <3>11, Zenon
  <2>7. /\ SubSeq(inFlight, 1, FrameSize) = a
        /\ SubSeq(inFlight, FrameSize + 1, Len(inFlight)) = b
        /\ Len(inFlight) >= FrameSize
    <3>1. FrameSize \in Nat
      BY SizeAssumption DEF FrameSize
    <3>2. QED
      BY <2>2, <2>4, <3>1, Cut
  <2>8. Relay!PutOut
    BY <1>1, <2>5, <2>6, <2>7, Zenon DEF Relay!PutOut
  <2>9. QED
    BY <2>8 DEF Relay!Next
<1>4. QED
  BY <1>2, <1>3

\* The end of the transmission.
LEMMA EndMaps ==
  ASSUME FullInv, [Next]_vars, TxEnds
  PROVE  Relay!Finish
<1>1. UNCHANGED <<given, open, stalled>> /\ over = FALSE /\ over' = TRUE
  BY DEF given, open, over, TxEnds, TxStep, txUnchanged, unchangedConfig, unchangedInput
<1>2. stalled \/ (items = <<>> /\ ~open)
  BY DEF open, TxEnds, TxStep, FullInv, FlowInv, DrainOK, PhaseOK
<1>3. audio \in Audio /\ index \in 0..FrameSize-1 /\ index \in 0..FrameSize
      /\ Holds(audio, index) /\ air \in Seq(Items)
  BY SizeAssumption DEF FullInv, IInv, DataOK, AirOK, BufferOK, TxEnds, TxStep, FrameSize
<1>4. PICK a \in Seq(Samples) : a = RealSamples(audio) /\ Len(a) = index
  BY <1>3, RealPrefix
<1>5. PICK b \in Seq(Samples) : b = items
  BY OnTheWayType DEF FullInv
<1>6. inFlight = a \o b
  BY <1>4, <1>5 DEF inFlight
<1>7. inFlight' = b
  <2>1. << >> \o b = b
    BY ConcatEmptySeq
  <2>2. RealSamples(audio') = <<>> /\ items' = b
    BY <1>5, SilentHolds DEF TxEnds, unchangedQueue, qvars
  <2>3. QED
    BY <2>1, <2>2, Zenon DEF inFlight
<1>8. /\ SubSeq(inFlight, 1, index) = a
      /\ SubSeq(inFlight, index + 1, Len(inFlight)) = b
      /\ Len(inFlight) >= index
      /\ b = <<>> => Len(inFlight) = index
  <2>1. index \in Nat
    BY <1>3
  <2>2. QED
    BY <1>4, <1>6, <2>1, Cut
<1>9. PICK f, g : /\ f = (IF index = 0 THEN <<>> ELSE VoiceFrame(audio, FALSE))
                  /\ g = (IF index = 0 THEN <<>> ELSE <<Relay!Frame(a, FALSE)>>)
  OBVIOUS
<1>10. f \in Seq(VoiceItems) /\ f \in Seq(Items) /\ Among(f, VoiceItems) = f /\ OutOf(f) = g
  <2>1. CASE index = 0
    <3>1. f = <<>> /\ g = <<>>
      BY <1>9, <2>1
    <3>2. << >> \in Seq(VoiceItems) /\ <<>> \in Seq(Items) /\ <<>> \in Seq(NotVoice)
      OBVIOUS
    <3>3. Among(<<>>, VoiceItems) = <<>>
      BY <3>2, NoVoice, Zenon
    <3>4. OutOf(<<>>) = <<>>
      BY DEF OutOf
    <3>5. QED
      BY <3>1, <3>2, <3>3, <3>4, Zenon
  <2>2. CASE index # 0
    <3>1. PICK x : x = [what |-> "voice", to |-> Sink, audio |-> audio, last |-> FALSE]
      OBVIOUS
    <3>2. x \in VoiceItems /\ x.audio = audio /\ x.last = FALSE
          /\ VoiceFrame(audio, FALSE) = <<x>>
      BY <1>3, <3>1 DEF VoiceItems, Sink, Sinks, VoiceFrame
    <3>3. OutOf(<<x>>) = <<Relay!Frame(a, FALSE)>>
      BY <1>4, <3>2, OutOfOne, Zenon
    <3>4. f = <<x>> /\ g = <<Relay!Frame(a, FALSE)>>
      BY <1>9, <2>2, <3>2, Zenon
    <3>5. f \in Seq(VoiceItems) /\ f \in Seq(Items) /\ Among(f, VoiceItems) = f
      BY <1>3, <3>2, <3>4, VoiceFrameIn
    <3>6. QED
      BY <3>3, <3>4, <3>5, Zenon
  <2>3. QED
    BY <2>1, <2>2
<1>11. PICK l \in Seq(VoiceItems) : /\ l = VoiceFrame(SilentAudio, TRUE) /\ l \in Seq(Items)
                                    /\ Among(l, VoiceItems) = l
                                    /\ OutOf(l) = <<Relay!Frame(<<>>, TRUE)>>
  <2>1. PICK x : x = [what |-> "voice", to |-> Sink, audio |-> SilentAudio, last |-> TRUE]
    OBVIOUS
  <2>2. x \in VoiceItems /\ x.audio = SilentAudio /\ x.last = TRUE
        /\ VoiceFrame(SilentAudio, TRUE) = <<x>>
    BY <2>1, SilentHolds DEF VoiceItems, Sink, Sinks, VoiceFrame
  <2>3. OutOf(<<x>>) = <<Relay!Frame(<<>>, TRUE)>>
    BY <2>2, SilentHolds, OutOfOne, Zenon
  <2>4. /\ VoiceFrame(SilentAudio, TRUE) \in Seq(VoiceItems)
        /\ VoiceFrame(SilentAudio, TRUE) \in Seq(Items)
        /\ Among(VoiceFrame(SilentAudio, TRUE), VoiceItems) = VoiceFrame(SilentAudio, TRUE)
    BY SilentHolds, VoiceFrameIn
  <2>5. QED
    BY <2>2, <2>3, <2>4, Zenon
<1>12. air' = ((air \o f) \o l) \o Eot
  <2>1. Flush(audio, index) = f
    <3>1. (index > 0) <=> (index # 0)
      BY <1>3, SizeAssumption DEF FrameSize
    <3>2. QED
      BY <1>9, <3>1 DEF Flush
  <2>2. QED
    BY <1>11, <2>1 DEF TxEnds
<1>13. out' = (out \o g) \o <<Relay!Frame(<<>>, TRUE)>>
  <2>1. PICK s \in Seq(VoiceItems) : s = Among(air, VoiceItems)
    BY <1>3, VoiceAmong
  <2>2. PICK af \in Seq(Items) : af = air \o f
    BY <1>3, <1>10, ConcatIsSeq
  <2>3. PICK afl \in Seq(Items) : afl = af \o l
    BY <1>11, ConcatIsSeq
  <2>4. Among(af, VoiceItems) = s \o f
    <3>1. Among(air \o f, VoiceItems) = Among(air, VoiceItems) \o Among(f, VoiceItems)
      BY <1>3, <1>10, AmongConcat
    <3>2. QED
      BY <1>10, <2>1, <2>2, <3>1, Zenon
  <2>5. Among(afl, VoiceItems) = (s \o f) \o l
    <3>1. Among(af \o l, VoiceItems) = Among(af, VoiceItems) \o Among(l, VoiceItems)
      BY <1>11, AmongConcat
    <3>2. QED
      BY <1>11, <2>3, <2>4, <3>1, Zenon
  <2>6. Among(air', VoiceItems) = (s \o f) \o l
    <3>1. Eot \in Seq(Items) /\ Among(Eot, VoiceItems) = <<>>
      BY MarkersAreItems, MarkersAreNotVoice, NoVoice
    <3>2. Among(afl \o Eot, VoiceItems) = Among(afl, VoiceItems) \o Among(Eot, VoiceItems)
      BY <3>1, AmongConcat
    <3>3. Among(afl, VoiceItems) \in Seq(VoiceItems)
      BY VoiceAmong
    <3>4. Among(afl, VoiceItems) \o <<>> = Among(afl, VoiceItems)
      BY <3>3, ConcatEmptySeq
    <3>5. air' = afl \o Eot
      BY <1>12, <2>2, <2>3, Zenon
    <3>6. QED
      BY <2>5, <3>1, <3>2, <3>4, <3>5, Zenon
  <2>7. s \o f \in Seq(VoiceItems)
    BY <1>10, ConcatProperties
  <2>8. OutOf(s \o f) = OutOf(s) \o g
    <3>1. OutOf(s \o f) = OutOf(s) \o OutOf(f)
      BY <1>10, OutOfConcat
    <3>2. QED
      BY <1>10, <3>1, Zenon
  <2>9. OutOf((s \o f) \o l) = OutOf(s \o f) \o OutOf(l)
    BY <2>7, OutOfConcat
  <2>10. QED
    BY <1>11, <2>1, <2>6, <2>8, <2>9, OutIs, Zenon
<1>14. g = (IF index = 0 THEN <<>> ELSE <<Relay!Frame(SubSeq(inFlight, 1, index), FALSE)>>)
  BY <1>8, <1>9, Zenon
<1>15. stalled \/ (~open /\ index = Len(inFlight))
  BY <1>2, <1>5, <1>8
<1>16. \E n \in 0..FrameSize-1 :
       /\ n <= Len(inFlight)
       /\ stalled \/ (~open /\ n = Len(inFlight))
       /\ out' = out \o (IF n = 0 THEN <<>> ELSE <<Relay!Frame(SubSeq(inFlight, 1, n), FALSE)>>)
                     \o <<Relay!Frame(<<>>, TRUE)>>
       /\ inFlight' = SubSeq(inFlight, n + 1, Len(inFlight))
  <2>1. index <= Len(inFlight)
    <3>1. Len(inFlight) \in Nat
      BY <1>6
    <3>2. QED
      BY <1>3, <1>8, <3>1
  <2>2. inFlight' = SubSeq(inFlight, index + 1, Len(inFlight))
    BY <1>7, <1>8, Zenon
  <2>3. out' = (out \o (IF index = 0 THEN <<>> ELSE <<Relay!Frame(SubSeq(inFlight, 1, index), FALSE)>>))
                     \o <<Relay!Frame(<<>>, TRUE)>>
    BY <1>13, <1>14, Zenon
  <2>4. QED
    BY <1>3, <1>15, <2>1, <2>2, <2>3, Zenon
<1>17. QED
  BY <1>1, <1>16, Zenon DEF Relay!Finish

\* opv-mod implements VoiceRelay: with the queue, the buffer of the transmit
\* thread, the lead-in and every wake-up hidden, every step takes one sample,
\* puts out one frame of the oldest samples in flight, ends the transmission, or
\* changes nothing the relay shows.
THEOREM RelayImplemented == Spec => RelaysVoice
<1>1. FullInv /\ [Next]_vars => [Relay!Next]_Relay!relayVars
  <2>1. SUFFICES ASSUME FullInv, [Next]_vars PROVE [Relay!Next]_Relay!relayVars
    OBVIOUS
  <2>2. CASE TxTakesSample
    BY <2>1, <2>2, TakeMaps
  <2>3. CASE TxEnds
    BY <2>1, <2>3, EndMaps DEF Relay!Next
  <2>4. CASE PutSample /\ Puts
    BY <2>1, <2>4, PutMaps DEF Relay!Next
  <2>5. CASE ~TxTakesSample /\ ~TxEnds /\ ~(PutSample /\ Puts)
    <3>1. VoicesUnchanged
      BY <2>1, <2>5, Effects DEF FullInv
    <3>2. QED
      BY <2>1, <2>5, <3>1, QuietMaps
  <2>6. QED
    BY <2>2, <2>3, <2>4, <2>5
<1>2. QED
  BY <1>1, RelayInit, FullInvariant, PTL DEF Spec, RelaysVoice, Relay!Spec
=============================================================================
