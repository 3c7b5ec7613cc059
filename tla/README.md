# A formal model of opv-cxx-demod

TLA+ models of the modulator and demodulator of the Opulent Voice (OPV) protocol
in this repository, the TLC runs that check them on small instances, and proofs
of what matters most in its components for every size. `PROJECT.json` lists the runs,
the mutants that show each property can fail, the lines each definition models,
the findings, the hazards and the theorems.

Contents: [inventory](#inventory) · [modules](#modules) · [runs](#runs-bounds-and-results) ·
[fairness](#fairness) · [proofs](#proofs) · [findings](#findings) ·
[what is not modelled](#what-is-not-modelled) · [plan](#plan)

## Inventory

`opv-mod` reads audio samples, encodes them into frames and puts the frames out
as a bitstream or as modulated baseband. `opv-demod` reads baseband samples,
finds frames in them and puts the audio out. Two programs, one protocol:

```
 stdin ─ main ─ queue ─ transmit: Opus, IP/UDP/RTP, cobs_encode, FEC ─ frames ─ EOT
                                                                          │
 stdout ─ Opus ─ OPVCobsDecoder ─ OPVFrameDecoder ─ OPVFramer ─ OPVDemodulator ─ samples
```

| part | state | operations | interacts with | what makes it correct |
|---|---|---|---|---|
| `opv-mod.cpp` main | `running`, mode, BERT `frame_count` | lead-in, three modes, SIGINT handler, close and join | the queue, the transmit thread, stdin, stdout/UDP | ends when its input does or when told to; well-formed transmissions |
| `opv-mod.cpp` transmit | `audio`, `index`, header | take a sample, send a full frame, flush, last frame, EOT | the queue | every sample is sent, once, in order |
| `queue.h` | `state_`, `queue_`, waits | get, put, close, is_closed, empty | both threads | no lost wake-up, bounded, drains after close |
| `cobs.c`, `cobs_encode_voice_frame` | locals of a call | encode, pad with zeros | transmit | no zero in an encoding, one after it, fits the frame |
| `OPVCobsDecoder.h` | `state_`, `decoded_count`, `remaining_count`, `packet` | one byte, reset, submit | frame decoder callback, demodulator (reset) | decodes any split of the stream as the whole; never overruns; resynchronizes |
| `OPVDemodulator.h` | `demodState`, two indexes, three counters, two clock requests, `dcd_`, static `cost_count` | one sample: do_unlocked, do_first_sync, do_stream_sync, do_frame, dcd_on, dcd_off | all parts of the receiver | takes the right symbols, gives up when and only when it should, finds the signal again |
| `Correlator.h`, `ClockRecovery.h` | trigger, samples, timing index; index, estimates | sample, triggered, operator(), updated; operator(), reset, update | demodulator | preconditions hold, indexes are those of this signal |
| `DataCarrierDetect.h` | level, `triggered_` | sample, update | demodulator | hysteresis |
| `OPVFramer.h` | `index_` | take a symbol, reset | demodulator | no symbol of an abandoned frame remains |
| `OPVFrameDecoder.h`, `OPVFrameHeader.h` | header last decoded | decode a frame | demodulator (OK, EOS), callback | flags are those of this transmission |
| `Golay24.h`, `Viterbi.h`, `PolynomialInterleaver.h`, `OPVRandomizer.h`, callsigns | none | pure functions | frame coder and decoder | inverses, correction radius |
| `PRBS9` (`Util.h`), `opv-demod.cpp` BERT | register, counts, history | generate, validate, reset | frame callback, diagnostic callback | locks on the sequence and on nothing else |

What is hard here is listed under "hazards" in `PROJECT.json`, at its line. There
are five kinds: the queue's two threads, a signal and timeouts in any order; decoders
and a validator whose state spans frames that may be corrupted or missing, and
transmissions; a demodulator whose handlers share three counters, two triggers and two
indexes, each with more than one use; arithmetic at a limit (buffer sizes, the sync
window, indexes that wrap around, a history counted up and down, single precision);
and codes whose limits of correction no comment states.

## Modules

| module | models | how |
|---|---|---|
| `CobsStream` | the promise of a COBS receiver | abstract: the bytes since the last zero are decoded as a whole. `CobsReceiver` has it as `Stream`. The reference decoding is that of `cobs_decode` in `cobs.c`, a function neither program calls |
| `CobsDecoder` | `OPVCobsDecoder.h` | one action per branch of the loop of `process_cobs_data`, and `reset()`; `packet` is the filled part of the buffer, `out` what the callback got in this step |
| `CobsReceiver` | | `CobsDecoder` with a history variable, and the refinement `DecodesTheStream` |
| `MCCobsReceiver` | | bounds the bytes between zeros for TLC |
| `CobsEncoder` | `cobs_encode`, `cobs_encode_voice_frame` | a recursive function of the number of source bytes taken, whose step is an iteration of the loop; the code byte is a place in the output until it is known |
| `CobsLink` | encoder and decoder over a channel | composes `CobsDecoder` and `CobsEncoder`: frames follow one another, any byte may be received wrong, frames may be missed (with the demodulator's reset) |
| `SampleQueue` | `queue.h` | one action per critical section; wait sets for the two condition variables, and `expired` for threads whose wait has timed out and who have not run since |
| `OpvMod` | `opv-mod.cpp` | extends `SampleQueue`: program counters for main and the transmit thread, SIGINT at any time, spurious wake-ups, timers, `assert(running)` compiled in or out; `air` is what is put out. `Among` picks the frames or samples of a kind out of a sequence, `OnTheWay` is every sample between stdin and the air |
| `Demodulator` | `OPVDemodulator.h`, `Correlator.h` (SyncWord), `ClockRecovery.h`, `OPVFramer.h` | one action per sample. `IdleSample` without a carrier; `Sample(p, s, si)` with one: clock step, one of the five branches of the handlers, carrier check. p and s are whether the two correlations are above their thresholds |
| `DemodLink` | the demodulator on a transmission | composes `Demodulator` with where the transmitter is (`pos`), and gives it the correlations and clock estimates of a clean signal, in which sync words may be missed |
| `VoiceRelay` | the promise of `opv-mod` in voice mode | abstract: samples are taken, at most two frames of them are on their way, they are put out in order. `OpvMod` implements it (`RelaysVoice`) |
| `Golay24` | `Golay24.h` | words as sets of the positions of their one bits; the table is a function from the syndromes |
| `FrameHeader` | `OPVFrameHeader.h`'s callsign coding, `fill_fheader` | a callsign's 48-bit value as two halves of 24, which is also how the header has it |
| `HeaderCode` | `encode_fheader`, decoding in `update_frame_header` | composes `Golay24` and `FrameHeader` |
| `ConvolutionalCode` | `encode_stream_frame`, `Viterbi.h` | one operator per step of the decoder: `AddPair` (path metrics and history), `EndState`, `Chainback` |
| `SoftBits` | `bits_to_symbol`, `llr<float, 4>` of `Util.h` | the map in integers: thresholds in sevenths, samples in fourteenths |
| `Interleaver` | `PolynomialInterleaver.h`, `OPVRandomizer.h` | functions on the positions of a frame |
| `FrameCodes` | the five codes above, each over its channel | composes them: encoded, disturbed, decoded; the trellis advances by one action per pair of soft bits |
| `Prbs` | `PRBS9` of `Util.h` | `Validate` is synchronize (mismatch, match, lock) or count_errors; `Reset`; any register, tap and history |
| `FrameDecoder` | `OPVFrameDecoder.h` and what `update_frame_header` keeps | `DecodeFrame`: fields that are stored when their bytes change, flags that decide type and answer |
| `OpvDemod` | `opv-demod.cpp` from the frames on | extends `Prbs` and `FrameDecoder`: transmissions of `opv-mod`, frames received, damaged or missed, fades, `handle_frame`, one action per bit of `decode_bert`, the reset in `diagnostic_callback` |
| `MCOpvDemod` | | a test and a voice transmission by two stations, for TLC |
| `CobsProofs`, `DemodulatorProofs` (with `DemodLink`), `OpvModProofs`, `OpvDemodProofs` | | theorems of the components they are named after; `CobsProofs` has those on the decoder, on the encoder and on the link, `OpvModProofs` those on the queue, the samples and the refinement |
| `ConvolutionalCodeProofs`, `HeaderCodeProofs` | | what the Viterbi decoder answers and how far apart its paths are; the Golay code, callsigns and headers. No specification in them, only theorems on operators |
| `FrameCodesProofs` | | extends these two: the interleaver, the soft bits, and the invariants of `FrameCodes` |
| `DataInduction` | | lemmas: induction stated with a set, functions defined by recursion, the laws of `FlattenSeq` |

Definitions that no specification uses, such as `LimitAtMTU` beside `Limit`, are
mutations of the definition that follows them: plausible mistakes, each of which
violates the property `PROJECT.json` pairs it with.

Choices a reader should know:

* **COBS bytes.** `MaxCode` stands for 0xFF. With 3 for it, a block of the largest
  length holds two bytes, and all of the code's cases (0x01, 0xFF, others) occur in
  packets of four bytes. No arithmetic of the code depends on 255 otherwise.
* **The queue's time.** `WaitExpires` may happen at any moment of a wait; the
  time-outs of 3 s and 300 s are not compared. `stalled` notes that it happened
  before close(), the case in which samples may be lost. In an execution where
  each wait is shorter than its timeout `stalled` stays FALSE.
* **`audio`.** The array is uninitialised in the code until the first frame is
  sent; the model has `Garbage` there.
* **is_closed() without the mutex** is a data race on an enum; it reads the old or
  the new value, which interleaving gives.
* **The start of `Demodulator`** is after `initializing`, a frame's time in which
  samples only go through the filter. 10840 samples leave the correlator's index at 9.
* **A correlation above its threshold** lasts at most `Width` indexes. It bounds
  the sets `preTrig` and `strTrig`; the theorems hold for every width.
* **`cobsFresh`** is a history variable of the demodulator: the COBS decoder has been
  reset since frames are being tracked.
* **What a transmission leaves behind.** `DemodLink` starts with any index, any sample
  index and any trigger of `preamble_sync` an earlier transmission may have left, and
  with its clock request. Only `stream_sync` is taken to be clean, because otherwise
  `Aligned` does not hold (findings 7 and 8).
* **Golay words** are sets, so that an error pattern is a set too and correction is the
  symmetric difference. Sorting and packing the table at compile time is left out.
* **Payloads of four bits** in `FrameCodes` instead of 976: with the flush bits the trellis
  is eight pairs long, twice the memory depth, so that every state is reached and left
  again. The soft bits keep the width of the code (-7..7, 0 for an erasure).
* **`SoftBits` in integers.** `make_llr_map` adds 1/7 in single precision. At two of its 43
  entries the sum is a hair below a threshold; these two are taken as the compiled
  map has them. All others are the same in exact arithmetic.
* **`Index`** reduces i*i before it is multiplied. The code has a 64-bit product that is
  reduced once; its mutation `IndexIn32Bits` is what 32 bits would give.
* **The randomizer's sequence** is an arbitrary one in `FrameCodes` and any one in the proofs:
  nothing may depend on its 2152 values.
* **`OpvDemod`'s ghosts** (`heard` to `wrong`) are what the receiver cannot know: whether a
  bit being validated is one of a test, where the transmitter's register is, how many
  bits in a row were right. No action's guard reads them.
* **`BitsToUnlock`** is how long a validator that is locked to a wrong register may need
  to notice: any two sequences of the register that differ do so in at least
  `UNLOCK_COUNT` of so many bits. For PRBS9 and 25 it is 70 (fewer bits are not enough), for
  the instance's register of 3 bits and 3 it is 6; `Recovers` is stated with it.
  `UnlockAssumption` says that the register has this property, which TLC evaluates for
  the instance and which enumeration of the 511 registers shows for PRBS9.
* **What is counted.** `bit_count` and `err_count` are modulo `CountLimit`, 2^32 in the code and
  16 in the instance, so that they do wrap around. Once 25 bits of a test were wrong the
  validator may be unlocked and counts nothing, so that `CountsExact` is limited to fewer.
* **`state_` of `OPVFrameDecoder`** is only ever assigned ACQ and nothing reads it; it
  is left out.

## Runs, bounds and results

| run | instance | distinct states | what it shows |
|---|---|---|---|
| `cobs_stream` | MTU 4, MinLen 2, codes to 3, 9 bytes between zeros | 29,860 | the incremental decoder implements `CobsStream`; buffer, states and resynchronization |
| `cobs_link` | MTU 3, frames of 6, packets of 1 to 3 | 352,472 | round trip; recovery after one intact frame, whatever came before; the encoder's overhead |
| `cobs_link_loss` | MTU 7, frames of 5 with one zero | violation | an intact frame lost with its predecessor |
| `opv_mod` | queue and frame of 3 samples, up to 11 samples, 2 BERT frames | 12,120 | order, conservation, wake-ups, shape of transmissions, termination; voice mode implements `VoiceRelay` |
| `opv_interrupt`, `queue_closed` | up to 5 samples | violations | see [findings](#findings) |
| `demod` | 4 samples a symbol, 2+2 symbols a frame, MaxMissing 2, carrier checked at every sample | 3,475,456 | coherence under any signal at all |
| `demod_link` | 10 samples a symbol, sync word of 8, frames of 3, MaxMissing 3, phases 3 to 7 | 412,830 | alignment, tracking, freewheeling, reacquisition, after another transmission |
| `demod_slip`, `demod_freewheel` | the same, phases 0 and 9 | violations | see [findings](#findings) |
| `codes` | the program's Golay code, header, soft bits and interleaver (2152 bits, bursts of 127); payloads of 4 bits | 99,156 | what is decoded is what was sent, or it is noticed, and exactly how far each code reaches |
| `opv_demod` | register of 3 bits, lock after 6, unlock at 3 of 8, 5 bits a test's period in frames of 6, counters modulo 16; 7 frames, 2 faults | 570,052 | frames go where they were sent to; the validator locks, unlocks, locks again and counts |

Why the bounds are enough:

* `cobs_stream`: MTU 4 lets a packet pass the limit by one and by two bytes and go on;
  9 bytes hold three blocks of the largest length and everything shorter; the
  decoder's state is a function of the bytes since the last zero, so that nothing
  new happens after a zero.
* `cobs_link`: packets from too short to the longest; merged ones are too long.
  The state at a frame's end is all that is carried over, and every state a
  corrupted frame can leave is reached.
* `opv_mod`: three full frames, a partial one of one or two samples, a queue that is full,
  every number of samples from none. Queue and frame have the same length in the code too
  (`opv-mod.cpp:381-382`).
* `demod`: with four indexes, index 2 is out of reach from 0, as indexes 2 to 8 are with
  ten. Each counter reaches its limit. A carrier check at every sample is the worst
  case: the carrier may go anywhere. The code checks less often, which is the
  case of a carrier that is there at all checks but some; the theorems hold for all
  periods.
* `demod_link`: the samples per symbol, the sync word and so the window 71..87 are the
  program's. A frame of 3 payload symbols instead of 1076 is longer than the window;
  what happens in between is the same for each symbol. The symbols' phase in the index
  is one of 3 to 7: outside of these `Aligned` does not hold in the code (findings).
* `codes`: all patterns of up to four errors, 12,951 of them, in two words (the code is
  linear, so that whether a pattern is corrected does not depend on the word); every
  payload with every wrong pair of soft bits, just wrong and as wrong as can be;
  callsigns of every form, the longest included; bursts that begin at every multiple of 64,
  so that each pair of positions less than 64 apart is in one.
* `opv_demod`: 7 frames are two transmissions with a header each, damage, and enough bits to
  unlock and to lock again. `PayloadBits` is more than `PrimeBits`, as it is in the code,
  so that the bits after the period's end matter. `LOCK_COUNT` is twice the
  register, as in the code; the history is longer than a lock and wraps around.
  `CountLimit` is less than the bits of a transmission, so that the counters wrap around.

Every state variable the code does not bound (`count_` between checks, the samples read) is
bounded by the instance's constants: `MaxSamples`, `MaxPreambles`, `MaxRaw`, `IdlePeriod`,
`ActivePeriod`, `MaxFrames`, `MaxFaults`. No run limits the model with a state constraint.

Properties by kind, other than one type invariant per component:

* *safety*: `NoBufferOverrun`, `StateCoherent`; `RoundTrip`, `RecoversAfterOneFrame`,
  `EncodingSound`; `SamplesInOrder`, `NothingLost`, `NoLostWakeup`,
  `VoiceTransmissionShape`, `BertTransmissionShape`; `FramerCoherent`,
  `ClockUpdatePrecondition`, `CobsResetBeforeFrames`, `WindowEndsSearch`; `FreewheelingBounded`; `WordCorrected`, `FourErrorsNoticed`,
  `HeaderDelivered`, `MostLikely`, `PayloadCorrected`, `SoftBitsMeasure`, `FrameRestored`;
  `HistoryCounted`, `HeaderCoherent`, `RoutedAsSent`, `Recovers`, `CountsExact`.
* *actions*: `ZeroResynchronizes`, `OnlyMissedFramesCarriedOver`, `Aligned`, `KeepsTracking`.
* *refinement*: `DecodesTheStream`, and `RelaysVoice` (`INSTANCE VoiceRelay WITH` in `OpvMod`).
* *liveness*: `ProgramEnds`, `ReachesFrames`.

`Recovers` and `ReachesFrames` are the two that say the receiver is not stuck: one in terms
of bits received right, the other under fairness. `CountsExact` is what the displayed
bit error rate rests on. `WordCorrected` and `PayloadCorrected` state the radius of a code
exactly, with the exceptions the code has and no comment names.

Deadlock is checked in every run but two. `OpvMod` has an action for the program that has
ended; the COBS components and the demodulator never stop. `codes` ends with the received
message of each case, and `opv_demod` when `MaxFrames` have been sent: there
`CHECK_DEADLOCK FALSE`.

## Fairness

* `OpvMod`: weak fairness of each thread (the operating system runs both), of the
  timers, and of standard input (it delivers a sample or ends; an input that blocks
  for ever is not the program's doing). Spurious wake-ups do not go on for ever:
  each restarts the whole 3 s of `wait_for`, and a platform that wakes a thread
  spuriously more often than that for ever could keep it waiting. Nothing makes
  SIGINT happen.
* `DemodLink`: samples keep coming (weak fairness of `LinkNext`). `ReachesFrames` is
  conditional on sync words being heard again and again, which the channel owes.
* `CobsDecoder`, `CobsLink`, `Demodulator`, `FrameCodes`, `OpvDemod` are checked for safety only.

## Proofs

Each proof module states theorems of its component's specification, for all values of the
constants that satisfy the named assumption. The values of the program satisfy all of
them.

| module | assumption | the program's values |
|---|---|---|
| `CobsProofs` | `DecoderAssumption`: MTU natural, MinLen in 1..MTU, codes to at least 3 | 1500, 20, 255 |
| its theorems on `CobsLink` | the same, and `LinkAssumption`: packets of at least one byte and two fewer than a frame at most | frames of the payload's bytes, any bytes |
| `DemodulatorProofs` | `DemodAssumption`: at least four samples a symbol, `MaxMissing` at most the symbols of a frame, positive sizes | 10, 8, 1076, 8 |
| its theorems on `DemodLink` | the same, and `WellPhased` in the theorems: 10 samples a symbol, a sync word of 8, phases among 3..7 | 10, 8; the phase is the signal's |
| `OpvModProofs` | `SizeAssumption`, `ModAssumption`: a queue and frames of at least one sample, naturals | 1920 |
| `OpvDemodProofs` | `PrbsAssumption`, `DemodAssumption`: positive sizes, a tap inside the register, a period of at least half a payload, transmissions of the program's types | 9, 4, 18, 25, 128; 971, 976 |
| | `UnlockAssumption`: 70 bits in the history, a lock takes at least a register's bits, and of any `BitsToUnlock` bits of a nonzero register at least `UNLOCK_COUNT` are ones | 70 <= 128, 9 <= 18, 25 |
| `FrameCodesProofs` | `InterleaverAssumption`: a positive size, natural coefficients; in `PolynomialPermutes` and `BurstSpread` the program's | 2152, 59, 1076 |
| | `CodesAssumption`: a payload and a burst of any length, but the metrics of a payload stay below `MaxMetric`, that of a state the decoder cannot start in | 976: 27,440 of 2^30 - 1 |
| `ConvolutionalCodeProofs`, `HeaderCodeProofs` | none: the polynomials, widths and tables are the program's | |

**COBS decoder.** `TypeCorrect`, `StatesCoherent`, `BufferNeverOverrun`,
`OneZeroResynchronizes`. The inductive invariant is `TypeOK /\ StateCoherent /\
NoBufferOverrun`. `Len(packet) <= MTU+3` alone is not inductive: a decoder with MTU+2
bytes that was not yet too long could add two. `StateCoherent` says that only
PACKET_TOO_LONG goes with more than MTU+1 bytes, and then nothing is added. The
proof has a lemma for every action; `GrowKeepsIInv` covers the four branches that
end in the length check.

`StreamImplemented` is the refinement `DecodesTheStream`, and `EveryPacketDelivered` what it
cannot say, because `CobsStream` does not tell a reset from a lone delimiter: at *every*
delimiter the decoder submits what decoding the whole string yields, so that no packet is
dropped either. `Stream!Decode` recurses over the blocks of a string from its front, the
decoder has only decoded a beginning of it. The invariant that relates them (`Promise`)
therefore looks ahead: for every string `t` that goes on from the bytes received, and the
decoding `G` of `t` from each of its places on, what the decoder holds followed by the rest
of its block, its implied zero and the decoding from the next code byte on is the decoding
of `t`; if the string ends inside the block, it is not well formed; and once the decoder is
in PACKET_TOO_LONG, the decoding is too long or not well formed whatever follows. A byte is
then a lemma on one `t` and `G` (`FitsCode`, `FitsOne`, `FitsData`, `FitsLast`,
`FitsTooLong`), and the verdict at a delimiter is the invariant for the string that goes on
no further (`VerdictIsDelivered`). That `G` exists and is what `Stream!Decode` computes is
induction from the string's end (`DecodingExists`, `DecodeIs`). TLC cannot evaluate
`Promise`, which quantifies over all strings; it checks its consequence `DecodesTheStream`.

**COBS encoder and link.** `RoundTripHolds`, `RecoveryHolds`, `EncodingIsSound`,
`LinkTypeCorrect`. What joins encoder and decoder is a string that *stands for* a packet
(`Stands`): complete blocks, after which the decoder would hold the packet with nothing to
come, which is `Promise` with no byte of a block remaining. `BlockStands` adds a block to
such a string, `WholeDecoded` ends it. The invariant of the encoder's loop (`EncoderInv`)
then says that what is written are blocks that stand for a beginning of the source, the
place of the pending code, and a block in progress that is the rest of it; and it keeps the
account of the overhead (`Overhead`): one byte for the block in progress and one for each
block that was closed because it was full, of which there is none for the last bytes of the
source. That is where `CopyByte`'s test for the last byte is needed. `EncodedPacket` is the
result: no delimiter, no more overhead than promised, and decoded to the packet. The link's
invariant `LinkInv` says of an intact frame that the decoder has taken a beginning of the
encoding, for which `Promise` holds if it started afresh (`InEncoding`), or is in the
padding, reset and with the packet delivered (`InPadding`). A frame always ends in the
padding, so that the next starts afresh, whatever came before: that is the recovery.

**Demodulator.** `TypeCorrect`, `FramerIsCoherent`, `ClockUpdateAllowed`,
`CobsIsReset`, `FewAreCarriedOver`, `SearchEnds`. The inductive invariant is
`TypeOK /\ Control /\ ClockInStep`. `Control` joins three of the properties with
`MissingInRange`, the limits of `missing` in each state, and they need each other:
`missing` only stays within a state's limit if every step into the state either resets it
or brings a count of missed frames, `syncCount` only within its window if a frame's end
clears it. `FewAreCarriedOver` is about steps: a handler that leaves tracking for FIRST_SYNC
(sync words given up, an end of stream) takes `missing` along, as does one that leaves it
for UNLOCKED (too high a cost), and `MissingInRange` bounds what it takes; all others reset
it. `ClockInStep`, that the clock's index is the correlator's plus one,
is what makes `ClockUpdatePrecondition` inductive: a reset may be requested at any
index but happens at index 0, where it puts the clock where it already is. One
lemma per handler, one for the clock, one for the carrier; the final proof splits
on the handlers.

**The demodulator on a transmission.** `SymbolsAligned`, `TrackingKept`,
`FreewheelingIsBounded`. The numbers of samples and sync symbols are the program's, because
the window 71..87 only makes sense with them, and `WellPhased` leaves out the phases at
which the properties do not hold (findings 5 and 7); the length of a frame, `MaxMissing` and
the limit on the cost are any numbers. The inductive invariant `LinkInv` adds to the
demodulator's own one where the transmitter is: in a frame, `pos` lies between the symbol
last taken and the next one, counted from the sample index (`FrameOK`); while a sync word is
awaited, `pos` and `sync_count` differ by a constant, up to the one sample the clock was off
when the last symbol was taken (`WindowOK`); a trigger only stands at the end of a word that
is heard (`TriggersOK`); and the frames begun on an old sync word are at most `missing`
(`TrackingOK`). `Aligned` follows from `FrameOK`, since the sample index is within one of
the phase. `AwaitStreamSyncKeepsRest` is where the cases are: a sync word heard one sample
early, in time or late, before the window opens or just as it closes.

**opv-mod, control.** `TypesCorrect`, `WaitsHaveReasons`, `NoMutualWait`. The inductive invariant is
`QueueInv /\ ControlOK /\ DataOK /\ AirOK /\ SampleOK`. `NoLostWakeup` is inductive only with
what each thread does to the queue: the transmit thread alone waits for items and
the main thread alone for room (`WaitersOK`), so that a notification never goes to a
thread that cannot use it. There is a lemma for each operation of the queue, used by
both threads, then one for each thread and one for the timers and spurious wake-ups.
`NoMutualWait` follows: a full queue is not empty.

**opv-mod, samples.** `SamplesAlwaysInOrder`, `NothingIsLost`, `VoiceShape`, `BertShape`,
`RelayImplemented`. The inductive invariant `FullInv` adds to the one above: why the threads
are where they are (`FlowInv`: the transmit thread only leaves its loop with the queue
drained and closed or about to be, unless a wait gave up; main only stops when stdin ended
or SIGINT came); that `audio` holds samples up to `index` and nothing else (`BufferOK`);
that the samples on their way are 1, 2, ... (`OrderOK`); and what has been put out
(`VoiceAirOK`, `BertOK`). The heart is `Conserved`: a step moves samples between the queue,
`audio` and the frames without changing `OnTheWay`, their concatenation, and only a put that
succeeds appends to it. It rests on the laws of `Among` and `FlattenSeq`, which
`DataInduction` proves for sequences of any length. For the refinement each step is mapped
to a step of `VoiceRelay` or a stutter: a put to `Take`, the sample that fills a frame to
`PutOut`, the end of transmit to `Finish`, a wait that gives up to `Pause`. The shape of a
voice transmission has one thing more to prove than what is in the frames: memory never
written can only be in the first.

**opv-demod.** `TypeCorrect`, `HistoryIsCounted`, `HeaderIsCoherent`, `FramesAreRouted`,
`CountsAreExact`, `RecoversAlways`. `hist_count` goes up and down by the bit that enters the
ring and the one that leaves; that it is the number of bad bits is a statement on the
cardinality of a set of which one element changes (`OneBitOfHistory`). `HeaderCoherent` is
inductive by itself, by cases on which of the four groups changed; routing adds that once a
header of a transmission has been decoded the raw header's flags are those of one of its
frames (`RouteInv`), and that the four sums of the two flag bits are told apart
(`FlagsAreSent`). `CountsExact` needs that the receiver's reference follows the
transmitter's register through the end of a test's period (`FollowInv`), and that a test
received from its start is in one of two phases, locking or counting (`CountInv`).
`Recovers` says that within `Enough` right bits a validator in any state is locked to the
transmitter. `ChaseInv` follows it: it is locked rightly; or it runs on a wrong register,
and then the difference of the two registers is itself a sequence of the register (they are
linear, `DiffGenerates`), whose ones are the bits found bad, too many of them after
`BitsToUnlock` bits (`Noticed`); or it is unlocked, and right bits fill its register and
count up to a lock (`Filled`).

**Interleaver.** `FrameComesBack` composes `SourceOfIndex` (a permutation has one source for
each position) and `Derandomized` (the sign of a soft bit and the value of a hard bit change
together). `PolynomialPermutes` is number theory: 1076 is half of 2152, so that the
quadratic term adds 1076 to odd positions and nothing to even ones (`QuadraticTerm`,
`IndexByParity`); the index keeps the parity; and 59 has an inverse modulo 2152, because
`59 * 1459 = 1 + 2152 * 40`, so that the linear term is injective. `BurstSpread` states
`FrameRestored` for a burst of any length at any place: a received bit is wrong exactly
where the burst was (`InvertedBack`), and the number of wrong bits is that of the positions
hit, since the permutation is a bijection. That two of them are at least 64 apart, counting
both orders, is a fact on 59 and 1076 modulo 2152 (`FrameSpread`): if two positions differ
by d < 64 and their parities by e, they are sent 59 d + 1076 e apart, up to a multiple of
2152 of which only a few are near, and each of these is settled by arithmetic (`FarApart`).

**Viterbi decoder.** `SearchSound`, `DecoderMostLikely`, `WrongBitsCorrected`, for payloads
of any length. The inductive invariant is `PayloadInv`: after t pairs of soft bits the
trellis has been `Searched` so far, that is, no path of t bits to a state is nearer to what
was received than the state's metric (`NoneNearer`), and the history leads from each state
that can be reached back along a path of just that distance (`Attained`). `SearchGoesOn` is
the step: a path of t + 1 bits to a state is one of t bits to one of the two states before
it, and the iteration takes the nearer. States the decoder does not start in have
`MaxMetric` as their metric, which stays above every distance because of `CodesAssumption`.
`ChainbackIs` ends the search. All of these lemmas hold for any soft bits;
`DecoderMostLikely` says it of those the channel of `FrameCodes` delivers, of which at most
two are wrong. `MostLikely` is stated with `CodeBook`, whose entries are
shown to be these paths (`CodeBookEntry`).

That the most likely path is the one that was sent rests on the code's distance. Two paths'
difference is a path, and its coded bits are the difference of theirs (`LinearCode`). Go
along both paths and add up how much farther the other is than the sent one: each coded bit
in which they differ adds 14, and a wrong soft bit takes away at most 28 (`Potential`). From
the first bit in which they differ on, at least 3 coded bits differ in five branches and at
least 4 in six (`WeightSums`), which is more than one wrong soft bit takes away. Against two
of them, six branches make a tie at worst; then the other path ends in state 0 too, and the
branches that lead it back there differ as well. Only a path that first differs five
branches before the end can be nearer, and only if both wrong soft bits are in these: the
exception of `PayloadCorrected`.

**Soft bits.** `SymbolsMeasured`: the 43 entries of the map in closed form (`FirstOf`,
`SecondOf`), each of them computed by the prover, and the search for the entry of a sample
in it.

**Golay code.** `CodeDistance`, `GolayCorrects`, `GolayNotices`; `WordsCorrected` and
`FourNoticed` are `FrameCodes`' invariants, for any set of words. The loop of `syndrome()`
divides by POLY bit by bit, so that syndromes add up (`SyndromeLinear`) and a word without
one is a product of POLY and twelve bits (`CodewordIs`). None of these 4096 products has one
to six bits: `CodeDistance` is that enumeration, left to the SMT solver. Hence at most three
errors have a syndrome of their own (`UniqueErrors`), which is the one under which
`make_lut` files them (`LutIs`). An encoded word has no syndrome because 23 divisions by x
change nothing modulo POLY (`WordPeriod`, `EncodedWord`). The test of the parity is then a
matter of counting: `FewSyndromeBits` says which errors have a syndrome of so few bits that
`decode()` takes them for three, the exceptions of `WordCorrected` (finding 10). For four
errors the correction would have to lead to another word of the code, seven bits away, and
then the parity does not fit.

**Frame header.** `CallsignComesBack`, `HeaderComesBack`, `HeadersDelivered`. A callsign's
tenth character is NUL, and nine digits below 40 make less than 40^9, which 48 bits have
room for (`CallsignValues`, `DigitComesBack`). Each division by 40 undoes one step of the
encoder, and the decoder stops right after the last character because that one has a code,
not 0. A header's four groups are eight halves of twelve bits, and the number of a half's
bits is the half (`NumberOfBits`), so that it comes back exactly if all words do. The
theorems on the operators are for any group, callsign and errors; `HeadersDelivered` is
`FrameCodes`' invariant for its headers.

`FrameCodes`' two invariants, `PayloadInv` for the decoder that works step by step and
`CaseInv` (what is on the air is what was sent, disturbed as chosen) for the others, are
simple in their temporal part; the work is in the lemmas on operators. TLC checked `CaseInv`
on the `codes` run.

Induction over data: the provers cannot instantiate a theorem whose parameter is an
operator, as those of the library for induction are. `DataInduction` states induction with a
set in place of the predicate (`SetInduction`, `BoundedInduction`), proves it from the
library's theorem that the inclusion of finite sets is well-founded, and derives that a
function defined by recursion exists (`BeginningsExist`, of its first values). What sums up
a sequence of any length rests on these.

Every invariant and every action property that a passing run checks is stated by a theorem.
Left to TLC is liveness (`ProgramEnds`, `ReachesFrames`), which is out of the prover's
reach: it has neither fairness nor ENABLED.

## Findings

Found while modelling. Where a run is named, it expects TLC's counterexample; the others
follow from the definitions named.

1. `OPVCobsDecoder.h:70` (`cobs_link_loss`): correctly received data *can* be lost to
   COBS synchronization, when the frame before it lost its only delimiter. One
   intact frame is enough to recover (`RecoversAfterOneFrame`).
2. `opv-mod.cpp:692`: a pause of 3 s in the input ends the transmission. `NothingLost` and
   `VoiceRelay` have it as their exception, `stalled`.
3. `opv-mod.cpp:777, 787, 824` (`opv_interrupt`): an interrupt before `running = true`
   is forgotten.
4. `queue.h:97, 142` (`queue_closed`): `state_ == State::CLOSED;` does not assign. The
   end of a transmission waits for 3 s. That nothing is lost in spite of it is
   `NothingLost`, that it does end is `ProgramEnds`.
5. `OPVDemodulator.h:556` (`demod_slip`): when the clock update after the first sync
   word moves the sample index across the wrap, the frame starts with the sync word's last
   symbol, or without its own first one.
6. `OPVDemodulator.h:398` (`demod_freewheel`): a stale trigger makes the demodulator
   fake sync words for ever.
7. `OPVDemodulator.h:410`: a faked sync word adopts a stale timing index, 0 when none was
   ever set. With `Phases = {2}` or `{8}` in `DemodLink.cfg`, `Aligned` fails for this reason,
   and with any phase when `LinkInit` has an arbitrary `strTiming`.
8. `OPVDemodulator.h:301`: triggers survive the loss of the carrier. The old one of
   `preamble_sync` alone costs the demodulator a frame or two (`ReachesFrames`); with an old
   one of `stream_sync` as well, a frame is taken from anywhere. `Aligned` fails when
   `LinkInit` has both.
9. `opv-mod.cpp:360`: with `--network`, EOT goes to the standard output.
10. `Golay24.h:217`: "Only test parity for 3-bit errors" is not what line 218 does: it asks
    for the population count of the syndrome. Words with two errors, one of them in the
    parity bit, are refused when the other is in a check bit or the lowest data
    bit. `WordCorrected` says exactly which.
11. `OPVFrameHeader.h:115`: a received callsign can have ten characters and no NUL,
    where line 24 promises a NUL-terminated string (`DecodeCallsign`).
12. `opv-demod.cpp:185`: counts of a bit error test are reset by the loss of the carrier only
    when the validator is locked at that moment; those of one that had unlocked are
    added to the next test's. `CountsExact` starts where PRBS9 was reset.
13. `opv-demod.cpp:216`: `--noise-blanker` has no effect, because the cost that
    `handle_frame` passes on is 0.
14. `opv-mod.cpp:657`: the transmit thread asserts `running` when it starts, and main may
    have set it to false by then (end of input, SIGINT). A build with assertions aborts
    (`TxAborts`); the default one, Release, has none and goes on.
15. `OPVDemodulator.h:411, 471, 486`: `missing_sync_count` is not cleared when tracking is
    left, so that missed frames count as missed symbols or samples of the next
    search. It makes the search a few symbols or samples shorter, no more
    (`OnlyMissedFramesCarriedOver`).

## What is not modelled

* Floating point: filters, correlations, deviation, carrier level, the clock
  estimate. The models take their outcomes as inputs: any outcome in
  `Demodulator`, a clean signal's in `DemodLink` (estimates one sample off at most,
  correlations at the centre sample or next to it, a clock that does not drift).
* A drifting clock in `DemodLink`, and frames that begin while a carrier is lost:
  the carrier is there throughout.
* The demodulator together with what its frames contain: in `Demodulator` the answer and
  the cost of a frame are inputs (`Results`, `CostSteps`, 0 in `DemodLink`). What they
  are made of is in `FrameDecoder` and `ConvolutionalCode`.
* Opus, whose library the repository calls; the IP, UDP and RTP headers in front of it, which
  are constants but for two counters that nothing in the receiver reads; option
  parsing, sockets, file formats, the text of the diagnostics.
* Functions nothing calls: CRC16, `get_until`, `is_open`, `size`, `polarity`, `passall_`, the
  variants of interleaver and randomizer on packed bytes with their bit indexing, and
  `from_4fsk`. Packing bits into bytes (`to_byte_array`) is abstracted from: models have
  bits, or groups of 24.
* `doc/OPV multiplexing.md`: a design that no code implements.

## Plan

Done: COBS link, sample queue and `opv-mod` with its abstract relay, demodulator and
`DemodLink`, the codes, frame decoder, bit error test and `opv-demod`; proofs for the COBS
decoder and the link to it, the demodulator alone and on a transmission, `opv-mod` with the
relay it implements, `opv-demod` with its bit error test, and all of the codes. Left, in
this order:

1. Carrier losses in the middle of a transmission in `DemodLink`, which now only starts
   after one.
2. A property for the static `cost_count` (`OPVDemodulator.h:437`), once it is decided what
   it should do across transmissions; today it is modelled and nothing is claimed.
3. An end-to-end module: `OpvMod`'s frames through a channel to `FrameDecoder` and
   `CobsDecoder`, with `Demodulator` in place of `OpvDemod`'s choice of missed frames.
