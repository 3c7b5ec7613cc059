------------------------------ MODULE CobsLink ------------------------------
(***************************************************************************)
(* Voice frames from opv-mod's COBS encoder to opv-demod's COBS decoder.    *)
(* Each frame carries one encoded packet and at least one zero after it.    *)
(* The bytes the decoder gets are those of the frame or, when decoding over *)
(* the air went wrong, any others; a frame may also be missed altogether,   *)
(* and reset() precedes the first frame after the stream is reacquired.     *)
(***************************************************************************)
EXTENDS CobsDecoder

INSTANCE CobsEncoder

CONSTANTS FrameLen,      \* stream_frame_payload_bytes
          PacketLens,    \* lengths of the packets sent
          Symbols        \* values of their bytes

ASSUME LinkAssumption ==
  /\ FrameLen \in Nat
  /\ PacketLens \subseteq 1..FrameLen-2
  /\ Symbols \subseteq Bytes

VARIABLES sent,          \* the packet in the frame now or last received
          line,          \* the bytes of it the decoder has yet to take
          got,           \* what the decoder submitted since the frame started,
                         \* kept as long as the frame is intact
          intact,        \* no byte of the frame was received wrong
          synced,        \* the decoder stood as after reset() at its start
          prevIntact     \* the frame before it was intact

lvars == <<dvars, sent, line, got, intact, synced, prevIntact>>

\* The packets cobs_encode_voice_frame can put in a frame.
Packets ==
  {p \in UNION {[1..n -> Symbols] : n \in PacketLens} : VoiceFrameFits(p, FrameLen)}

LinkInit ==
  /\ Init
  /\ sent = NoPacket /\ line = <<>> /\ got = <<>>
  /\ intact = TRUE /\ synced = TRUE /\ prevIntact = TRUE

NewFrame(p) ==
  /\ line = <<>>
  /\ sent' = p
  /\ line' = VoiceFrame(p, FrameLen)
  /\ got' = <<>>
  /\ intact' = TRUE

\* The next frame follows the last one in the received stream.
NextFrame(p) ==
  /\ NewFrame(p)
  /\ synced' = IsReset
  /\ prevIntact' = intact
  /\ out' = NoPacket
  /\ UNCHANGED <<state, remaining, packet>>

\* The signal was lost for a while: the decoder is reset before the next frame.
FrameAfterLoss(p) ==
  /\ NewFrame(p)
  /\ Restart
  /\ synced' = TRUE
  /\ prevIntact' = FALSE

TakeByte(byte) ==
  /\ line # <<>>
  /\ Receive(byte)
  /\ line' = Tail(line)
  /\ got' = IF ~intact' THEN <<>> ELSE IF out' = NoPacket THEN got ELSE Append(got, out')
  /\ UNCHANGED <<sent, synced, prevIntact>>

GoodByte ==
  /\ line # <<>>
  /\ intact' = intact
  /\ TakeByte(Head(line))

WrongByte(byte) ==
  /\ line # <<>>
  /\ byte # Head(line)
  /\ intact' = FALSE
  /\ TakeByte(byte)

LinkNext ==
  \/ \E p \in Packets : NextFrame(p) \/ FrameAfterLoss(p)
  \/ GoodByte
  \/ \E byte \in Bytes : WrongByte(byte)

LinkSpec == LinkInit /\ [][LinkNext]_lvars

-----------------------------------------------------------------------------
(***************************************************************************)
(* Properties                                                              *)
(***************************************************************************)

\* What the receiver owes for the packet of a frame: the packet, once, if a receiver
\* accepts packets of its length.
Owed(p) == IF Len(p) \in MinLen..MTU THEN <<p>> ELSE <<>>

FrameEnded == line = <<>>

\* The link's variables have their types.
LinkTypeOK ==
  /\ TypeOK
  /\ sent \in Packets \cup {NoPacket}
  /\ line \in Seq(Bytes) /\ Len(line) <= FrameLen
  /\ got \in Seq(Seq(Bytes))
  /\ {intact, synced, prevIntact} \subseteq BOOLEAN

\* Round trip: a frame received intact by a decoder that starts afresh yields its
\* packet, unchanged, once, before the next frame (opv-mod.cpp's encoder against
\* OPVCobsDecoder.h's decoder).
RoundTrip == FrameEnded /\ intact /\ synced => got = Owed(sent)

\* However badly the frames before were received, one intact frame is enough:
\* the packet of the next intact frame is submitted, unchanged, exactly once.
RecoversAfterOneFrame == FrameEnded /\ intact /\ prevIntact => got = Owed(sent)

\* cobs_encode keeps what the link relies on: no zero in the encoding, and no
\* more overhead than cobs.h's COBS_ENCODE_DST_BUF_LEN_MAX promises.
EncodingSound ==
  sent # NoPacket =>
    LET e == Encode(sent, FrameLen)
    IN  /\ e.ok
        /\ \A i \in DOMAIN e.bytes : e.bytes[i] \in 1..MaxCode
        /\ Len(e.bytes) <= EncodedLenMax(Len(sent))

\* OPVCobsDecoder.h:70 says that "correctly-received data can never be lost due
\* to COBS synchronization failure": an intact frame's packet is submitted.
IntactFrameNeverLost == FrameEnded /\ intact => got = Owed(sent)
=============================================================================
