---------------------------- MODULE FrameDecoder ----------------------------
(***************************************************************************)
(* OPVFrameDecoder: the frame header it keeps from frame to frame           *)
(* (update_frame_header of include/opvcxx/OPVFrameHeader.h) and what it     *)
(* does with a frame because of it (include/opvcxx/OPVFrameDecoder.h).      *)
(***************************************************************************)
EXTENDS FrameHeader

VARIABLES
  rawHeader,               \* raw_fheader_, as four groups of 24 bits
  callsign, token, flags,  \* what was last decoded from it
  outputType,              \* output_buffer.type of the last frame
  answer                   \* what operator() returned for it

decoderVars == <<rawHeader, callsign, token, flags, outputType, answer>>

DecoderInit ==
  /\ rawHeader = <<0, 0, 0, 0>>
  /\ callsign = NoCall /\ token = 0 /\ flags = 0
  /\ outputType = "none" /\ answer = "none"

CallOf(raw) == <<raw[1], raw[2]>>

\* The second half of update_frame_header.  Each field is stored only if its bytes
\* have changed, and the raw header with them; of a header of which a Golay word
\* cannot be decoded nothing is stored.
HighHalfChanged(raw) == raw[1] # rawHeader[1]
CallChanged(raw) == CallOf(raw) # CallOf(rawHeader)

UpdateHeader(raw) ==
  /\ callsign' = IF CallChanged(raw) THEN DecodeCallsign(CallOf(raw)) ELSE callsign
  /\ flags' = IF raw[3] # rawHeader[3] THEN raw[3] ELSE flags
  /\ token' = IF raw[4] # rawHeader[4] THEN raw[4] ELSE token
  /\ rawHeader' = IF raw # rawHeader THEN raw ELSE rawHeader
HeaderFails == UNCHANGED <<rawHeader, callsign, token, flags>>

\* decode_stream: the flags, of this header or of an earlier one, say whom the payload
\* is for and whether the transmission ends.
TypeOf(headerFlags) == IF IsBert(headerFlags) THEN "OPV_BERT" ELSE "OPV_COBS"
DecodeStreamOldFlags ==
  /\ outputType' = TypeOf(flags)
  /\ answer' = IF IsLast(flags) THEN "EOS" ELSE "OK"
DecodeStream ==
  /\ outputType' = TypeOf(flags')
  /\ answer' = IF IsLast(flags') THEN "EOS" ELSE "OK"

DecodeFrame(ok, raw) ==
  /\ IF ok THEN UpdateHeader(raw) ELSE HeaderFails
  /\ DecodeStream

\* The fields are those of the header that was last decoded.
HeaderCoherent ==
  /\ callsign = DecodeCallsign(CallOf(rawHeader))
  /\ flags = rawHeader[3]
  /\ token = rawHeader[4]
=============================================================================
