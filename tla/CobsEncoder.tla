---------------------------- MODULE CobsEncoder ----------------------------
(***************************************************************************)
(* cobs_encode of apps/cobs.c, and the frame cobs_encode_voice_frame of     *)
(* apps/opv-mod.cpp makes of its result.                                    *)
(***************************************************************************)
EXTENDS Integers, Sequences

CONSTANT MaxCode    \* the code byte 0xFF

\* The encoder in the middle of its loop: what is written up to dst_write_ptr,
\* the place of the pending code byte, and search_len.
EncoderStart == [out |-> <<0>>, code |-> 1, len |-> 1, overflow |-> FALSE]

\* Write the pending code and leave room for the next one.
CloseBlock(e) ==
  [e EXCEPT !.out  = Append([e.out EXCEPT ![e.code] = e.len], 0),
            !.code = Len(e.out) + 1,
            !.len  = 1]

CopyByteAlwaysClosing(e, byte, last) ==
  LET copied == [e EXCEPT !.out = Append(@, byte), !.len = @ + 1]
  IN  IF copied.len = MaxCode THEN CloseBlock(copied) ELSE copied

\* A non-zero source byte; a block that has reached the largest length is closed
\* unless the source ends with it.
CopyByte(e, byte, last) ==
  LET copied == [e EXCEPT !.out = Append(@, byte), !.len = @ + 1]
  IN  IF ~last /\ copied.len = MaxCode THEN CloseBlock(copied) ELSE copied

\* One iteration of the loop; nothing more happens once the output is full.
EncodeStep(e, byte, last, dstLen) ==
  IF e.overflow \/ Len(e.out) >= dstLen THEN [e EXCEPT !.overflow = TRUE]
  ELSE IF byte = 0 THEN CloseBlock(e)
  ELSE CopyByte(e, byte, last)

\* cobs_encode: the bytes written to a buffer of dstLen bytes, and whether they
\* are all there is.
Encode(src, dstLen) ==
  LET After[i \in 0..Len(src)] ==
        IF i = 0 THEN EncoderStart
        ELSE EncodeStep(After[i-1], src[i], i = Len(src), dstLen)
      end  == After[Len(src)]
      full == end.code > dstLen
  IN  [ok    |-> ~end.overflow /\ ~full,
       bytes |-> IF full THEN SubSeq(end.out, 1, dstLen)
                 ELSE [end.out EXCEPT ![end.code] = end.len]]

\* The largest encoding cobs.h promises (COBS_ENCODE_DST_BUF_LEN_MAX).
EncodedLenMax(srcLen) == srcLen + ((srcLen + MaxCode - 2) \div (MaxCode - 1))

\* cobs_encode_voice_frame: the encoded packet, then zeros to the frame's end.
\* It fails, and the frame is not filled, unless room for a zero is left.
VoiceFrameFits(src, frameLen) ==
  LET e == Encode(src, frameLen) IN e.ok /\ Len(e.bytes) < frameLen

VoiceFrame(src, frameLen) ==
  LET e == Encode(src, frameLen).bytes
  IN  e \o [i \in 1..frameLen - Len(e) |-> 0]
=============================================================================
