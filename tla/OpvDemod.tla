------------------------------ MODULE OpvDemod ------------------------------
(***************************************************************************)
(* apps/opv-demod.cpp from the demodulator's frames on: the frame decoder,  *)
(* handle_frame, the bit error rate test and its reset when the carrier is  *)
(* lost, on what opv-mod transmits.  Transmissions follow one another, with *)
(* the carrier lost in between or not; on the way headers become            *)
(* undecodable, bits are inverted and whole frames are missed.              *)
(***************************************************************************)
EXTENDS Prbs, FrameDecoder

CONSTANTS
  Transmissions,   \* [bert, call, token] of each that there may be
  VoicePayloads,   \* what the bits of a voice frame may be
  PayloadBits,     \* bert_frame_total_size: 976
  PrimeBits,       \* bert_frame_prime_size: 971
  BitsToUnlock,    \* bits in which two different registers' sequences differ in at
                   \* least UNLOCK_COUNT places: 70 (see UnlockAssumption)
  MaxFrames,       \* bound: frames transmitted in all
  MaxFaults        \* bound: headers, frames and bits damaged in all, and fades

ASSUME DemodAssumption ==
  /\ PayloadBits \in Nat /\ PrimeBits \in 1..PayloadBits
  /\ PayloadBits <= 2 * PrimeBits
  /\ VoicePayloads \subseteq [1..PayloadBits -> Bit]
  /\ Transmissions \subseteq [bert : BOOLEAN, call : [1..CallLength -> 0..Other],
                             token : 0..Group-1]
  /\ MaxFrames \in Nat /\ MaxFaults \in Nat

\* Two registers differ, bit by bit, in a register that is not zero, and generate bits
\* that differ where that one generates a one.
ASSUME UnlockAssumption ==
  /\ BitsToUnlock \in Width..HistoryBits /\ Width <= LOCK_COUNT
  /\ \A register \in Registers \ {Zero} :
       LET after == Generations(register, BitsToUnlock)
       IN  Cardinality({i \in 0..BitsToUnlock-1 : Feedback(after[i]) = 1}) >= UNLOCK_COUNT

VARIABLES
  carrier,      \* the demodulator has a carrier
  sending,      \* the transmission on the air, or none yet
  generator,    \* the register of its PRBS9
  ended,        \* its last frame has been sent
  frames, faults,
  pending,      \* bits that decode_bert has still to validate
  \* What the receiver cannot know:
  heard,        \* a header of this transmission has been decoded
  arrived,      \* the frame sent last was received
  genuine,      \* the bits being validated are those of a test
  reference,    \* the transmitter's register where the receiver is
  goodRun,      \* bits of one test in a row that were received right
  steady,       \* one test and nothing else was received since PRBS9 was reset, from
                \* its start and with LOCK_COUNT right bits first
  tested, wrong \* while steady, its bits and those of them that were inverted

airVars == <<carrier, sending, generator, ended, frames, faults>>
ghostVars == <<heard, arrived, genuine, reference, goodRun, steady, tested, wrong>>
demodVars == <<prbsVars, decoderVars, airVars, pending, ghostVars>>

None == "none"
Enough == BitsToUnlock + Width + LOCK_COUNT

Init ==
  /\ PrbsInit /\ DecoderInit
  /\ carrier = FALSE /\ sending = None /\ generator = One /\ ended = TRUE
  /\ frames = 0 /\ faults = 0 /\ pending = <<>>
  /\ heard = FALSE /\ arrived = FALSE /\ genuine = FALSE
  /\ reference = One /\ goodRun = 0
  /\ steady = FALSE /\ tested = 0 /\ wrong = 0

-----------------------------------------------------------------------------
(***************************************************************************)
(* The transmitter                                                         *)
(***************************************************************************)

RegisterAfter(n) == Generations(generator, n)[n]

\* fill_bert_frame: a prime number of bits, the rest repeated from the beginning.
BertPayload ==
  LET bit == [i \in 1..PrimeBits |-> RegisterAfter(i)[0]]
  IN  [i \in 1..PayloadBits |-> IF i <= PrimeBits THEN bit[i] ELSE bit[i - PrimeBits]]

Payloads == IF sending.bert THEN {BertPayload} ELSE VoicePayloads
Header(isLast) == FillHeader(sending.call, sending.token, sending.bert, isLast)

\* A program run anew, when the last one is through or has been cut off: its PRBS9 and
\* its header are new, too.
StartTransmission(t) ==
  /\ frames < MaxFrames /\ pending = <<>>
  /\ ended \/ ~carrier
  /\ carrier' = TRUE
  /\ sending' = t /\ generator' = One /\ ended' = FALSE
  /\ heard' = FALSE /\ arrived' = FALSE /\ goodRun' = 0
  /\ steady' = (t.bert /\ state = One /\ ~synced /\ syncCount = 0
                 /\ bitCount = 0 /\ errCount = 0)
  /\ tested' = 0 /\ wrong' = 0
  /\ UNCHANGED <<prbsVars, decoderVars, frames, faults, pending, genuine, reference>>

-----------------------------------------------------------------------------
(***************************************************************************)
(* The receiver                                                            *)
(***************************************************************************)
Inverted(payload, places) ==
  [i \in 1..PayloadBits |-> IF i \in places THEN 1 - payload[i] ELSE payload[i]]

\* decode_bert looks at no more bits of a frame than the test has.
AllBits(payload) == SubSeq(payload, 1, PayloadBits)
TestBits(payload) == SubSeq(payload, 1, PrimeBits)

\* handle_frame.  A voice frame goes to the COBS decoder (see CobsLink).
HandleFrame(payload) ==
  pending' = IF outputType' = "OPV_BERT" THEN TestBits(payload) ELSE <<>>

\* The ghosts tested and wrong are kept while steady.
CountSteadily ==
  /\ tested' = IF steady' THEN tested ELSE 0
  /\ wrong' = IF steady' THEN wrong ELSE 0

NextFrame(isLast) ==
  /\ ~ended /\ pending = <<>>
  /\ frames < MaxFrames
  /\ frames' = frames + 1
  /\ ended' = isLast
  /\ generator' = IF sending.bert THEN RegisterAfter(PrimeBits) ELSE generator
  /\ UNCHANGED <<prbsVars, carrier, sending>>

\* A frame whose header and places are received wrong.
ReceiveFrame(isLast, ok, places) ==
  /\ carrier
  /\ NextFrame(isLast)
  /\ faults + Cardinality(places) + (IF ok THEN 0 ELSE 1) <= MaxFaults
  /\ faults' = faults + Cardinality(places) + (IF ok THEN 0 ELSE 1)
  /\ DecodeFrame(ok, Header(isLast))
  /\ \E payload \in Payloads : HandleFrame(Inverted(payload, places))
  /\ heard' = (heard \/ ok) /\ arrived' = TRUE
  /\ genuine' = sending.bert /\ reference' = generator
  /\ goodRun' = IF pending' = <<>> THEN 0 ELSE goodRun
  /\ steady' = (steady /\ pending' # <<>>) /\ CountSteadily

\* There is no carrier, or the sync word is not found and tracking has been given up.
MissFrame(isLast) ==
  /\ NextFrame(isLast)
  /\ faults < MaxFaults /\ faults' = faults + 1
  /\ arrived' = FALSE /\ goodRun' = 0
  /\ steady' = FALSE /\ CountSteadily
  /\ UNCHANGED <<decoderVars, pending, heard, genuine, reference>>

Right == genuine /\ Head(pending) = Feedback(reference)

\* An iteration of decode_bert's loop.
ValidateBit ==
  /\ pending # <<>>
  /\ Validate(Head(pending))
  /\ pending' = Tail(pending)
  /\ reference' = IF genuine THEN Generated(reference) ELSE reference
  /\ goodRun' = IF ~Right THEN 0 ELSE IF goodRun < Enough THEN goodRun + 1 ELSE goodRun
  /\ steady' = (steady /\ genuine /\ (tested < LOCK_COUNT => Right))
  /\ tested' = IF steady' THEN tested + 1 ELSE 0
  /\ wrong' = IF steady' /\ ~Right THEN wrong + 1 ELSE IF steady' THEN wrong ELSE 0
  /\ UNCHANGED <<decoderVars, airVars, heard, arrived, genuine>>

\* diagnostic_callback when the carrier has been lost: a validator that is not locked
\* is not reset.
ResetsPrbs == synced
LoseCarrier ==
  /\ carrier /\ pending = <<>>
  /\ carrier' = FALSE
  /\ ended \/ faults < MaxFaults
  /\ faults' = IF ended THEN faults ELSE faults + 1
  /\ IF ResetsPrbs THEN Reset ELSE UNCHANGED prbsVars
  /\ arrived' = FALSE /\ goodRun' = 0
  /\ steady' = FALSE /\ CountSteadily
  /\ UNCHANGED <<decoderVars, sending, generator, ended, frames, pending, heard, genuine,
                 reference>>

\* The same transmission is received again after a fade.
RegainCarrier ==
  /\ ~carrier /\ ~ended
  /\ carrier' = TRUE
  /\ UNCHANGED <<prbsVars, decoderVars, sending, generator, ended, frames, faults, pending,
                 ghostVars>>

Next ==
  \/ \E t \in Transmissions : StartTransmission(t)
  \/ \E isLast \in BOOLEAN :
       \/ \E ok \in BOOLEAN :
            \E places \in {{}} \cup {{n} : n \in 1..PayloadBits} :
              ReceiveFrame(isLast, ok, places)
       \/ MissFrame(isLast)
  \/ ValidateBit
  \/ LoseCarrier \/ RegainCarrier

Spec == Init /\ [][Next]_demodVars

-----------------------------------------------------------------------------
TypeOK ==
  /\ PrbsTypeOK
  /\ rawHeader \in Seq(0..Group-1)
  /\ outputType \in {"none", "OPV_COBS", "OPV_BERT"}
  /\ answer \in {"none", "OK", "EOS"}
  /\ carrier \in BOOLEAN /\ generator \in Registers /\ reference \in Registers
  /\ pending \in Seq(Bit) /\ Len(pending) <= PrimeBits

\* Once a header of a transmission has been decoded, its frames go where they belong,
\* those with undecodable headers as well, and none but its last is taken for the end
\* of the stream.  Before that, they are treated as the transmission before.
RoutedAsSent ==
  heard /\ arrived =>
    /\ outputType = (IF sending.bert THEN "OPV_BERT" ELSE "OPV_COBS")
    /\ answer = "EOS" => ended

\* Whatever was received before, be it voice taken for a test, inverted bits, or a test
\* with frames missing, after enough right bits in a row the validator is locked to
\* the transmitter.
Recovers == goodRun >= Enough => synced /\ state = reference

\* Of a test that is received from its start the validator counts every bit and every
\* inverted bit, once, modulo the counters' size; but while it is unlocked, after
\* UNLOCK_COUNT inverted bits or more, it counts nothing.
CountsExact ==
  steady /\ tested >= LOCK_COUNT /\ wrong < UNLOCK_COUNT
    => bitCount = tested % CountLimit /\ errCount = wrong % CountLimit
=============================================================================
