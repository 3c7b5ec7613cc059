----------------------------- MODULE CobsStream -----------------------------
(***************************************************************************)
(* What the COBS receiver of OPVCobsDecoder.h promises, with no decoder in  *)
(* it: zeros delimit packets, and when a zero arrives the bytes received    *)
(* since the last delimiter are decoded as a whole.  If they are a well     *)
(* formed COBS encoding of an acceptable packet, that packet is delivered,  *)
(* and whatever they were they are forgotten.                               *)
(***************************************************************************)
EXTENDS Integers, Sequences

CONSTANTS MTU,       \* longest packet delivered (mobilinkd::ip_mtu)
          MinLen,    \* shortest packet delivered (minimum_packet_length)
          MaxCode    \* the code byte 0xFF, also the largest byte

VARIABLES raw,       \* the non-zero bytes received since the last delimiter
          out        \* the packet delivered by the latest step

vars == <<raw, out>>

Bytes == 0..MaxCode

\* No packet: acceptable packets hold at least one byte, so none is empty.
NoPacket == <<>>

\* COBS decoding of a whole delimited string, as Cheshire and Baker define it:
\* a code c stands for c-1 data bytes and, unless it is the largest code or
\* the string ends there, for a zero after them.  `ok` says the last block is
\* complete.
Decode(s) ==
  LET n == Len(s)
      From[i \in 1..n+1] ==
        IF i = n + 1
        THEN [ok |-> TRUE, bytes |-> <<>>]
        ELSE LET next == i + s[i]
                 zero == IF s[i] = MaxCode \/ next = n + 1 THEN <<>> ELSE <<0>>
             IN  IF next > n + 1
                 THEN [ok |-> FALSE, bytes |-> <<>>]
                 ELSE [ok    |-> From[next].ok,
                       bytes |-> SubSeq(s, i+1, next-1) \o zero \o From[next].bytes]
  IN  From[1]

Acceptable(packet) == Len(packet) \in MinLen..MTU

Delivered(s) ==
  LET d == Decode(s)
  IN  IF d.ok /\ Acceptable(d.bytes) THEN d.bytes ELSE NoPacket

-----------------------------------------------------------------------------
Init == raw = <<>> /\ out = NoPacket

Data(byte) ==
  /\ byte # 0
  /\ raw' = Append(raw, byte)
  /\ out' = NoPacket

Delimiter ==
  /\ raw' = <<>>
  /\ out' = Delivered(raw)

\* The demodulator lost and regained the signal: the next byte starts afresh.
Restart == raw' = <<>> /\ out' = NoPacket

Next == Delimiter \/ Restart \/ \E byte \in Bytes : Data(byte)

Spec == Init /\ [][Next]_vars
=============================================================================
