---------------------------- MODULE FrameHeader ----------------------------
(***************************************************************************)
(* The fields of a frame header: encode_callsign and decode_callsign of     *)
(* include/opvcxx/OPVFrameHeader.h and fill_fheader of apps/opv-mod.cpp.    *)
(* Its twelve bytes are four groups of 24 bits: the callsign's high and low *)
(* half, the flags, the token.  A character of a callsign is its digit      *)
(* 1..39 ('A' is 1, '0' is 27, '-', '/' and '.' are 37 to 39); Nul ends a   *)
(* callsign, and any other character (Other, which decodes as 'x') is       *)
(* encoded as 0, as is Nul.                                                 *)
(***************************************************************************)
EXTENDS Integers, SequencesExt

Group == 16777216       \* 2^24

Nul == 0
Other == 40
CallLength == 10       \* of call_t

\* A 64-bit value of which the low 48 bits are kept, as two halves of 24.
TimesFortyPlus(value, digit) ==
  LET low == 40 * value[2] + digit
  IN  <<(40 * value[1] + low \div Group) % Group, low % Group>>
ByForty(value) ==
  <<value[1] \div 40, ((value[1] % 40) * Group + value[2]) \div 40>>
ModForty(value) == ((value[1] % 40) * Group + value[2]) % 40

AddDigit(value, char) == TimesFortyPlus(value, IF char = Other THEN 0 ELSE char)
Value(digits) ==
  LET value[n \in 0..Len(digits)] ==
        IF n = 0 THEN <<0, 0>> ELSE AddDigit(value[n-1], digits[n])
  IN  value[Len(digits)]
EncodeLeftToRight(call) == Value(call)
EncodeCallsign(call) == Value(Reverse(call))

\* The digits of the value from the right, until nothing is left of it; the rest of
\* the characters, all of them if there is no value, were filled with NUL.
NoCall == [n \in 1..CallLength |-> Nul]
NotZero(value) == value # <<0, 0>>
Digits(value) ==
  LET rest[n \in 0..CallLength] == IF n = 0 THEN value ELSE ByForty(rest[n-1])
  IN  [n \in 1..CallLength |->
         IF ~NotZero(rest[n-1]) THEN Nul
         ELSE IF ModForty(rest[n-1]) = 0 THEN Other ELSE ModForty(rest[n-1])]
DecodeCallsign(value) == IF NotZero(value) THEN Digits(value) ELSE NoCall

-----------------------------------------------------------------------------
LastFrame == 8388608   \* LAST_FRAME = 0x800000
BertMode == 4194304    \* BERT_MODE = 0x400000
IsLast(flags) == (flags \div LastFrame) % 2 = 1
IsBert(flags) == (flags \div BertMode) % 2 = 1

\* fill_fheader, and set_last_frame_bit.
FillHeader(call, token, isBert, isLast) ==
  <<EncodeCallsign(call)[1], EncodeCallsign(call)[2],
    (IF isBert THEN BertMode ELSE 0) + (IF isLast THEN LastFrame ELSE 0), token>>
=============================================================================
