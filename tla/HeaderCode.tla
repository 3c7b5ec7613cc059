----------------------------- MODULE HeaderCode -----------------------------
(***************************************************************************)
(* A frame header in Golay words: encode_fheader of apps/opv-mod.cpp and    *)
(* the first half of update_frame_header of include/opvcxx/OPVFrameHeader.h.*)
(***************************************************************************)
EXTENDS Golay24, FrameHeader

BitsOf(n) == {b \in 0..11 : (n \div 2^b) % 2 = 1}
NumberOf(word) ==
  LET upTo[b \in 0..12] ==
        IF b = 0 THEN 0 ELSE upTo[b-1] + (IF b - 1 \in word THEN 2^(b-1) ELSE 0)
  IN  upTo[12]

\* encode_fheader: two Golay words for each group, the more significant half first.
HalfOf(raw, w) ==
  IF w % 2 = 1 THEN raw[(w + 1) \div 2] \div 4096 ELSE raw[w \div 2] % 4096
EncodeHeader(raw) == [w \in 1..8 |-> Encode24(BitsOf(HalfOf(raw, w)))]

\* The first half of update_frame_header: any word that cannot be decoded makes the
\* whole header fail; otherwise the nibbles are put together again.
DecodeHeader(words) ==
  LET decoded == [w \in 1..8 |-> Decode24(words[w])]
      half(w) == NumberOf(DataOf(decoded[w].word))
  IN  [ok |-> \A w \in 1..8 : decoded[w].ok,
       raw |-> [g \in 1..4 |-> 4096 * half(2*g - 1) + half(2*g)]]
=============================================================================
