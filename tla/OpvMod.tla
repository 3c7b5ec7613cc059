------------------------------- MODULE OpvMod -------------------------------
(***************************************************************************)
(* apps/opv-mod.cpp: the modulator program.  The main thread runs main(),   *)
(* and in voice mode starts the transmit thread, to which it hands the      *)
(* samples it reads from the standard input through a queue.  SIGINT may    *)
(* arrive at any time.  What the program puts out is the sequence `air` of  *)
(* frames and markers; the samples are numbered in the order they are read. *)
(***************************************************************************)
EXTENDS SampleQueue, SequencesExt

CONSTANTS BertFrames,    \* config->bert, in BERT mode
          MaxSamples,    \* bound: samples the standard input holds at most
          MaxPreambles   \* bound: preambles sent in preamble-only mode

ASSUME ModAssumption ==
  BertFrames \in Nat \ {0} /\ MaxSamples \in Nat /\ MaxPreambles \in Nat

\* audio_samples_per_opv_frame: queue_t and audio_frame_t have the same size.
FrameSize == SIZE

Modes == {"preamble", "bert", "voice"}
Samples == 1..MaxSamples
Silence == 0           \* what audio.fill(0) leaves
Garbage == -1          \* an element of `audio` never written (line 685)
Audio == [1..FrameSize -> Samples \cup {Silence, Garbage}]

VARIABLES mode,        \* the mode Config::parse chose
          network,     \* config->output_to_network
          running,     \* the flag `running`
          main, tx,    \* where the main thread and the transmit thread are
          nRead,       \* samples read from the standard input
          stdinEnded,  \* the standard input has ended
          sample,      \* the sample main is handing to put
          audio, index,  \* the locals of transmit
          frameCount,  \* the local frame_count of the BERT loop
          air,         \* everything put out so far
          interrupted, \* SIGINT has been received
          stalled      \* a wait of the queue timed out before close()

vars == <<qvars, mode, network, running, main, tx, nRead, stdinEnded, sample,
          audio, index, frameCount, air, interrupted, stalled>>

\* What is put out, and where to.  EOT goes to the standard output even when the
\* frames go to the network (output_eot has no branch for it).
Sink == IF network THEN "udp" ELSE "stdout"
DeadCarrier == IF network THEN <<>> ELSE <<[what |-> "carrier", to |-> Sink]>>
Preamble == <<[what |-> "preamble", to |-> Sink]>>
Eot == <<[what |-> "eot", to |-> "stdout"]>>
BertFrame(last) == <<[what |-> "bert", to |-> Sink, last |-> last]>>
VoiceFrame(a, last) == <<[what |-> "voice", to |-> Sink, audio |-> a, last |-> last]>>

SilentAudio == [i \in 1..FrameSize |-> Silence]

\* What can be put out.
Sinks == {"udp", "stdout"}
Markers == [what : {"carrier", "preamble", "eot"}, to : Sinks]
BertItems == [what : {"bert"}, to : Sinks, last : BOOLEAN]
VoiceItems == [what : {"voice"}, to : Sinks, audio : Audio, last : BOOLEAN]
Items == Markers \cup BertItems \cup VoiceItems

Init ==
  /\ QueueInit
  /\ mode \in Modes /\ network \in BOOLEAN
  /\ running = FALSE
  /\ main = "leadin" /\ tx = "none"
  /\ nRead = 0 /\ stdinEnded = FALSE /\ sample = Silence
  /\ audio = [i \in 1..FrameSize |-> Garbage] /\ index = 0
  /\ frameCount = 0
  /\ air = <<>>
  /\ interrupted = FALSE /\ stalled = FALSE

\* Groups of variables that most actions leave alone.
unchangedConfig == UNCHANGED <<mode, network>>
unchangedQueue == UNCHANGED qvars
unchangedInput == UNCHANGED <<nRead, stdinEnded, sample>>
unchangedTx == UNCHANGED <<tx, audio, index>>
unchangedNotes == UNCHANGED <<interrupted, stalled>>

-----------------------------------------------------------------------------
(***************************************************************************)
(* SIGINT, and the main thread                                             *)
(***************************************************************************)

\* signal_handler, installed before anything is put out.
Sigint ==
  /\ main # "exited" /\ tx # "aborted"
  /\ running' = FALSE
  /\ interrupted' = TRUE
  /\ UNCHANGED <<main, frameCount, air, stalled>>
  /\ unchangedConfig /\ unchangedQueue /\ unchangedInput /\ unchangedTx

MainStep(from, to) ==
  /\ main = from /\ main' = to
  /\ tx # "aborted"

\* Two frames of dead carrier, unless the output goes to the network, and the
\* preamble.
LeadIn ==
  /\ MainStep("leadin", "begin")
  /\ air' = DeadCarrier \o DeadCarrier \o Preamble
  /\ UNCHANGED <<running, frameCount>>
  /\ unchangedConfig /\ unchangedQueue /\ unchangedInput /\ unchangedTx
  /\ unchangedNotes

\* running = true, in each of the three modes, whatever a signal did before; in
\* voice mode the transmit thread is started.
Begin ==
  /\ MainStep("begin", IF mode = "voice" THEN "loop" ELSE mode)
  /\ running' = TRUE
  /\ tx' = IF mode = "voice" THEN "start" ELSE "none"
  /\ UNCHANGED <<audio, index, frameCount, air>>
  /\ unchangedConfig /\ unchangedQueue /\ unchangedInput /\ unchangedNotes

\* Preamble-only mode: preambles until interrupted, and no EOT.
SendPreamble ==
  /\ MainStep("preamble", IF running THEN "preamble" ELSE "exited")
  /\ IF running
     THEN Len(air) < 3 + MaxPreambles /\ air' = air \o Preamble
     ELSE UNCHANGED air
  /\ UNCHANGED <<running, frameCount>>
  /\ unchangedConfig /\ unchangedQueue /\ unchangedInput /\ unchangedTx
  /\ unchangedNotes

\* BERT mode: one frame, the last one marked.
LastBertFrameLate == frameCount = BertFrames
LastBertFrame == frameCount + 1 = BertFrames

SendBertFrame ==
  /\ MainStep("bert", "bert")
  /\ running /\ frameCount < BertFrames
  /\ frameCount' = frameCount + 1
  /\ air' = air \o BertFrame(LastBertFrame)
  /\ UNCHANGED running
  /\ unchangedConfig /\ unchangedQueue /\ unchangedInput /\ unchangedTx
  /\ unchangedNotes

\* The frames are all sent, or the loop is broken by a signal.
EndBert ==
  /\ MainStep("bert", "exited")
  /\ ~running \/ frameCount = BertFrames
  /\ air' = air \o Eot \o DeadCarrier
  /\ UNCHANGED <<running, frameCount>>
  /\ unchangedConfig /\ unchangedQueue /\ unchangedInput /\ unchangedTx
  /\ unchangedNotes

-----------------------------------------------------------------------------
(***************************************************************************)
(* Voice mode, the main thread: read a sample, put it, while `running`.     *)
(***************************************************************************)
TestRunning ==
  /\ MainStep("loop", IF running THEN "read" ELSE "finish")
  /\ UNCHANGED <<running, frameCount, air>>
  /\ unchangedConfig /\ unchangedQueue /\ unchangedInput /\ unchangedTx
  /\ unchangedNotes

ReadSample ==
  /\ MainStep("read", "put")
  /\ nRead < MaxSamples
  /\ nRead' = nRead + 1
  /\ sample' = nRead + 1
  /\ UNCHANGED <<running, frameCount, air, stdinEnded>>
  /\ unchangedConfig /\ unchangedQueue /\ unchangedTx /\ unchangedNotes

EndOfInput ==
  /\ MainStep("read", "finish")
  /\ stdinEnded' = TRUE
  /\ UNCHANGED <<running, frameCount, air, nRead, sample>>
  /\ unchangedConfig /\ unchangedQueue /\ unchangedTx /\ unchangedNotes

\* put with a timeout of 300 s: it appends, waits, or gives up, which ends the
\* loop.  (It never finds the queue closed: only this thread closes it.)
PutSample ==
  /\ \/ MainStep("put", "loop") /\ PutAppends("main", sample)
     \/ MainStep("put", "put") /\ PutWaits("main")
     \/ MainStep("put", "finish") /\ CallTimesOut("main")
  /\ UNCHANGED <<running, frameCount, air>>
  /\ unchangedConfig /\ unchangedInput /\ unchangedTx /\ unchangedNotes

StopRunning ==
  /\ MainStep("finish", "close")
  /\ running' = FALSE
  /\ UNCHANGED <<frameCount, air>>
  /\ unchangedConfig /\ unchangedQueue /\ unchangedInput /\ unchangedTx
  /\ unchangedNotes

CloseQueue ==
  /\ MainStep("close", "join")
  /\ Close("main")
  /\ UNCHANGED <<running, frameCount, air>>
  /\ unchangedConfig /\ unchangedInput /\ unchangedTx /\ unchangedNotes

JoinTransmit ==
  /\ MainStep("join", "exited")
  /\ tx = "done"
  /\ UNCHANGED <<running, frameCount, air>>
  /\ unchangedConfig /\ unchangedQueue /\ unchangedInput /\ unchangedTx
  /\ unchangedNotes

-----------------------------------------------------------------------------
(***************************************************************************)
(* The transmit thread                                                     *)
(***************************************************************************)
TxStep(from, to) == tx = from /\ tx' = to

\* What no step of the transmit thread changes.
txUnchanged ==
  /\ unchangedConfig /\ unchangedInput
  /\ UNCHANGED <<running, main, frameCount, interrupted, stalled>>

\* assert(running) is compiled out of release builds, the default.
TxStart ==
  /\ TxStep("start", "first")
  /\ UNCHANGED <<audio, index, air>>
  /\ unchangedQueue /\ txUnchanged

TxAborts ==
  /\ TxStep("start", "aborted")
  /\ ~running
  /\ UNCHANGED <<audio, index, air>>
  /\ unchangedQueue /\ txUnchanged

\* queue.is_closed(): the state is read without the mutex.
NeverSeenClosed == FALSE
IsClosed == queueState = "CLOSED"

\* while (!queue.is_closed() && queue.empty()) yield: two steps, as the length is
\* read later than the state, and under the mutex.
TxAwaitFirst ==
  /\ \/ TxStep("first", IF IsClosed THEN "loop" ELSE "peek")
     \/ TxStep("peek", IF items = <<>> THEN "first" ELSE "loop")
  /\ UNCHANGED <<audio, index, air>>
  /\ unchangedQueue /\ txUnchanged

TxTestClosed ==
  /\ TxStep("loop", IF IsClosed THEN "flush" ELSE "get")
  /\ UNCHANGED <<audio, index, air>>
  /\ unchangedQueue /\ txUnchanged

\* What happens to `audio` when a frame has been sent.
KeepAudio(a) == a
ClearAudio(a) == SilentAudio

\* get returns a sample; the sample that fills the frame has it sent.
TxTakesSample ==
  /\ TxStep("get", "loop")
  /\ \E v \in Samples :
       /\ GetTakes("tx", v)
       /\ LET a == [audio EXCEPT ![index + 1] = v]
          IN  IF index + 1 = FrameSize
              THEN /\ air' = air \o VoiceFrame(a, FALSE)
                   /\ audio' = ClearAudio(a)
                   /\ index' = 0
              ELSE /\ audio' = a
                   /\ index' = index + 1
                   /\ UNCHANGED air
  /\ txUnchanged

\* get finds nothing: it waits, for 3 s at most, or returns false.
TxFindsNothing ==
  /\ \/ TxStep("get", "get") /\ GetWaits("tx")
     \/ TxStep("get", "flush") /\ GetFindsClosed("tx")
     \/ TxStep("get", "flush") /\ CallTimesOut("tx")
  /\ UNCHANGED <<audio, index, air>>
  /\ txUnchanged

\* The rest of the last frame, an extra frame of silence marked as the last, EOT.
FlushDropsPartial(a, n) == <<>>
FlushEvenIfEmpty(a, n) == VoiceFrame(a, FALSE)
Flush(a, n) == IF n > 0 THEN VoiceFrame(a, FALSE) ELSE <<>>

TxEnds ==
  /\ TxStep("flush", "done")
  /\ air' = air \o Flush(audio, index) \o VoiceFrame(SilentAudio, TRUE) \o Eot
  /\ audio' = SilentAudio
  /\ UNCHANGED index
  /\ unchangedQueue /\ txUnchanged

-----------------------------------------------------------------------------
\* The waits of either thread, ended by the timer or spuriously.
Ended == main = "exited" \/ tx = "aborted"

Timer ==
  \E t \in {"main", "tx"} :
    /\ ~Ended
    /\ WaitExpires(t)
    /\ stalled' = (stalled \/ queueState = "OPEN")
    /\ UNCHANGED <<running, main, tx, audio, index, frameCount, air, interrupted>>
    /\ unchangedConfig /\ unchangedInput

Spurious ==
  \E t \in {"main", "tx"} :
    /\ ~Ended
    /\ WaitEndsSpuriously(t)
    /\ UNCHANGED <<running, main, tx, audio, index, frameCount, air>>
    /\ unchangedConfig /\ unchangedInput /\ unchangedNotes

Exited == Ended /\ UNCHANGED vars

MainNext ==
  \/ LeadIn \/ Begin \/ SendPreamble \/ SendBertFrame \/ EndBert
  \/ TestRunning \/ PutSample \/ StopRunning \/ CloseQueue \/ JoinTransmit
StdinNext == ReadSample \/ EndOfInput
TxNext ==
  \/ TxStart \/ TxAborts \/ TxAwaitFirst \/ TxTestClosed \/ TxTakesSample
  \/ TxFindsNothing \/ TxEnds

Next == Sigint \/ MainNext \/ StdinNext \/ TxNext \/ Timer \/ Spurious \/ Exited

\* Both threads run, timers fire, the standard input delivers a sample or ends,
\* and waits do not end spuriously for ever (each time get waits anew for the whole
\* of its 3 s).  Nothing makes a signal happen.
Fairness ==
  /\ WF_vars(MainNext) /\ WF_vars(StdinNext) /\ WF_vars(TxNext) /\ WF_vars(Timer)
  /\ <>[][~Spurious]_vars

Spec == Init /\ [][Next]_vars
FairSpec == Spec /\ Fairness

-----------------------------------------------------------------------------
(***************************************************************************)
(* Properties                                                              *)
(***************************************************************************)
Threads == {"main", "tx"}

\* The program's variables have the types of their declarations.
TypeOK ==
  /\ QueueTypeOK(Threads, Samples)
  /\ mode \in Modes /\ network \in BOOLEAN /\ running \in BOOLEAN
  /\ main \in Modes \cup {"leadin", "begin", "loop", "read", "put", "finish", "close",
                          "join", "exited"}
  /\ tx \in {"none", "start", "first", "peek", "loop", "get", "flush", "done", "aborted"}
  /\ nRead \in 0..MaxSamples /\ sample \in 0..MaxSamples
  /\ audio \in Audio /\ index \in 0..FrameSize-1
  /\ frameCount \in 0..BertFrames
  /\ {stdinEnded, interrupted, stalled} \subseteq BOOLEAN
  /\ air \in Seq(Items)

\* The elements of a sequence that are in a set, in their order.
Among(s, T) == FlattenSeq([i \in DOMAIN s |-> IF s[i] \in T THEN <<s[i]>> ELSE <<>>])

RealSamples(a) == Among(a, Samples)

\* The voice frames put out, and the samples in them, one frame after the other.
VoiceFrames == Among(air, VoiceItems)
SamplesOf(frames) == FlattenSeq([i \in DOMAIN frames |-> RealSamples(frames[i].audio)])
SentSamples == SamplesOf(VoiceFrames)
OnTheWay == SentSamples \o RealSamples(audio) \o items

\* No sample is lost, repeated or reordered on its way from main through the queue
\* and `audio` to the frames, at any moment and whatever the threads' order.
SamplesInOrder ==
  LET nPut == IF main = "put" \/ (stalled /\ nRead # Len(OnTheWay)) THEN nRead-1 ELSE nRead
  IN  OnTheWay = [i \in 1..nPut |-> i]

\* In voice mode the program as a whole is the relay of VoiceRelay: what is in the queue
\* and in `audio` is on its way.
given == IF main = "put" THEN nRead - 1 ELSE nRead
inFlight == RealSamples(audio) \o items
out == [i \in DOMAIN VoiceFrames |->
          [samples |-> RealSamples(VoiceFrames[i].audio), last |-> VoiceFrames[i].last]]
open == main \notin {"finish", "close", "join"} /\ ~(mode = "voice" /\ main = "exited")
over == tx = "done"

Relay == INSTANCE VoiceRelay
           WITH given <- given, inFlight <- inFlight, out <- out, open <- open,
                over <- over, stalled <- stalled
RelaysVoice == Relay!Spec

\* When no wait timed out while the queue was open, the transmission ends because the
\* input has ended or it was interrupted (README.md:120), and everything read is sent:
\* the close() that follows the last sample never cuts it off, in any order of the
\* threads' steps.
NothingLost ==
  main = "exited" /\ mode = "voice" /\ ~stalled =>
    /\ stdinEnded \/ interrupted
    /\ Len(SentSamples) = nRead

\* A thread waits only while it has a reason to: notifications are never lost to a
\* thread that is not there yet, or to one whose wait has just timed out.
NoLostWakeup ==
  /\ "tx" \in waitingEmpty => items = <<>> /\ queueState # "CLOSED"
  /\ "main" \in waitingFull => Len(items) = SIZE /\ queueState = "OPEN"

\* A transmission ends with exactly one frame marked last, which is silent and is
\* followed by the one EOT; frames before it are full, but for at most one, whose
\* rest is silence unless no full frame came before it.
VoiceTransmissionShape ==
  tx = "done" =>
    LET n == Len(air)
        full(f) == f.what = "voice" => RealSamples(f.audio) = f.audio
    IN  /\ air[n].what = "eot"
        /\ air[n-1] = VoiceFrame(SilentAudio, TRUE)[1]
        /\ \A i \in 1..n-2 :
             /\ air[i].what \in {"carrier", "preamble", "voice"}
             /\ air[i].what = "voice" =>
                  /\ ~air[i].last
                  /\ i < n-2 => full(air[i])
                  /\ ~full(air[i]) => RealSamples(air[i].audio) # <<>>
                  /\ i > 1 /\ air[i-1].what = "voice" =>
                       Garbage \notin {air[i].audio[k] : k \in 1..FrameSize}

\* BERT mode ends with EOT after exactly the frames asked for, of which only the
\* last is marked, unless a signal cut it short, and then no frame is marked or all
\* were sent.
BertTransmissionShape ==
  mode = "bert" /\ main = "exited" =>
    LET frames == Among(air, BertItems)
    IN  /\ \A i \in DOMAIN frames : frames[i].last <=> i = BertFrames
        /\ Len(frames) = BertFrames \/ interrupted
        /\ \E i \in DOMAIN air : /\ air[i].what = "eot"
                                 /\ \A j \in DOMAIN air : j > i => air[j].what = "carrier"

\* A program that has something to send, or has been told to stop, ends: main never
\* waits for ever for a transmit thread that waits for ever for main.
ProgramEnds == mode # "preamble" ~> Ended

\* The same sentence of README.md: the transmission "ends when the input stream ends,
\* or when interrupted by the user".  Once interrupted, the program does not go on running.
InterruptHonoured == interrupted => ~running

\* queue.h:115 says that get may return false "if either the timeout expires
\* or the queue is closed": it does not wait on a queue that has been closed.
NoWaitOnClosedQueue == "tx" \in waitingEmpty => queueState = "OPEN"
=============================================================================
