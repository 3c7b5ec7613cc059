---------------------------- MODULE CobsDecoder ----------------------------
(***************************************************************************)
(* OPVCobsDecoder.h: the receiver's incremental COBS decoder.  One action   *)
(* per branch of the loop of process_cobs_data, each taking one byte of the *)
(* stream; the decoder keeps its state across frames, so where one frame    *)
(* ends and the next begins does not matter here.  `packet` is the filled   *)
(* part of the packet buffer: decoded_count is Len(packet).                 *)
(***************************************************************************)
EXTENDS Integers, Sequences

CONSTANTS MTU,       \* mobilinkd::ip_mtu (1500)
          MinLen,    \* minimum_packet_length (20)
          MaxCode    \* the code byte 0xFF, also the largest byte value

ASSUME DecoderAssumption ==
  /\ MTU \in Nat
  /\ MinLen \in 1..MTU
  /\ MaxCode \in Nat /\ MaxCode >= 3

VARIABLES state,      \* state_
          remaining,  \* remaining_count
          packet,     \* packet[0 .. decoded_count-1]
          out         \* what the packet callback received in the latest step

dvars == <<state, remaining, packet, out>>

Bytes == 0..MaxCode
States == {"RESET", "PACKET_TOO_LONG", "CHUNK", "CASE255"}

\* Nothing was submitted: a submitted packet has at least MinLen >= 1 bytes.
NoPacket == <<>>

-----------------------------------------------------------------------------
\* The state reset() leaves.
IsReset == state = "RESET" /\ remaining = 0 /\ packet = <<>>

Init == IsReset /\ out = NoPacket

ResetDecoder ==
  /\ state' = "RESET"
  /\ remaining' = 0
  /\ packet' = <<>>

\* The check that ends every iteration that may have grown the packet.
LimitAsPlusTwo(st, pkt) == IF Len(pkt) > MTU + 3 THEN "PACKET_TOO_LONG" ELSE st
LimitAtMTU(st, pkt) == IF Len(pkt) > MTU THEN "PACKET_TOO_LONG" ELSE st
Limit(st, pkt) == IF Len(pkt) > MTU + 1 THEN "PACKET_TOO_LONG" ELSE st

Grow(st, rem, pkt) ==
  /\ state' = Limit(st, pkt)
  /\ remaining' = rem
  /\ packet' = pkt
  /\ out' = NoPacket

\* A byte of a packet already known to be too long.
SkipByte(byte) ==
  /\ state = "PACKET_TOO_LONG"
  /\ byte # 0
  /\ out' = NoPacket
  /\ UNCHANGED <<state, remaining, packet>>

\* The delimiter that ends a too-long packet.
EndOfLongPacketKeepsCount(byte) ==
  /\ state = "PACKET_TOO_LONG"
  /\ byte = 0
  /\ out' = NoPacket
  /\ state' = "RESET"
  /\ packet' = <<>>
  /\ UNCHANGED remaining
EndOfLongPacket(byte) ==
  /\ state = "PACKET_TOO_LONG"
  /\ byte = 0
  /\ out' = NoPacket
  /\ ResetDecoder

\* A delimiter inside a block: the packet is discarded.
UnexpectedZero(byte) ==
  /\ state # "PACKET_TOO_LONG"
  /\ byte = 0
  /\ remaining > 0
  /\ out' = NoPacket
  /\ ResetDecoder

\* The packet less the zero implied by its last block, if it has one.
Trimmed(pkt) == IF pkt[Len(pkt)] = 0 THEN SubSeq(pkt, 1, Len(pkt) - 1) ELSE pkt

SubmittedUntilFull(pkt) == IF Len(pkt) \in MinLen..MTU-1 THEN pkt ELSE NoPacket
Submitted(pkt) == IF Len(pkt) \in MinLen..MTU THEN pkt ELSE NoPacket

\* A delimiter after a complete block: the packet is submitted if its length
\* is acceptable.
EndOfPacket(byte) ==
  /\ state # "PACKET_TOO_LONG"
  /\ byte = 0
  /\ remaining = 0
  /\ packet # <<>>
  /\ out' = Submitted(Trimmed(packet))
  /\ ResetDecoder

\* A delimiter where a packet could start: filler.
Filler(byte) ==
  /\ state # "PACKET_TOO_LONG"
  /\ byte = 0
  /\ remaining = 0
  /\ packet = <<>>
  /\ out' = NoPacket
  /\ UNCHANGED <<state, remaining, packet>>

\* The zero implied at the end of a block.
ImpliedZeroAlways(st) == <<0>>
ImpliedZero(st) == IF st = "CASE255" THEN <<>> ELSE <<0>>

\* A data byte of a block, and at the block's end its implied zero.
DataByte(byte) ==
  /\ state # "PACKET_TOO_LONG"
  /\ byte # 0
  /\ remaining > 0
  /\ IF remaining = 1
     THEN Grow("CHUNK", 0, Append(packet, byte) \o ImpliedZero(state))
     ELSE Grow(state, remaining - 1, Append(packet, byte))

LongCodeCountsItself(byte) ==
  /\ state # "PACKET_TOO_LONG"
  /\ byte = MaxCode
  /\ remaining = 0
  /\ Grow("CASE255", MaxCode, packet)

\* The code byte 0xFF: a block of the largest length, with no implied zero.
LongCode(byte) ==
  /\ state # "PACKET_TOO_LONG"
  /\ byte = MaxCode
  /\ remaining = 0
  /\ Grow("CASE255", MaxCode - 1, packet)

\* Any other code byte.  0x01 is a block with no data, only its implied zero.
ShortCode(byte) ==
  /\ state # "PACKET_TOO_LONG"
  /\ byte \notin {0, MaxCode}
  /\ remaining = 0
  /\ IF byte = 1
     THEN Grow("RESET", 0, Append(packet, 0))
     ELSE Grow("CHUNK", byte - 1, packet)

\* One iteration of the loop of process_cobs_data.
Receive(byte) ==
  \/ SkipByte(byte) \/ EndOfLongPacket(byte)
  \/ UnexpectedZero(byte) \/ EndOfPacket(byte) \/ Filler(byte)
  \/ DataByte(byte) \/ LongCode(byte) \/ ShortCode(byte)

\* reset(), which the demodulator calls whenever it (re)acquires the stream.
Restart == ResetDecoder /\ out' = NoPacket

Next == Restart \/ \E byte \in Bytes : Receive(byte)

Spec == Init /\ [][Next]_dvars

-----------------------------------------------------------------------------
(***************************************************************************)
(* Properties                                                              *)
(***************************************************************************)

\* The decoder's variables have the types of OPVCobsDecoder's members.
TypeOK ==
  /\ state \in States
  /\ remaining \in 0..MaxCode-1
  /\ packet \in Seq(Bytes)
  /\ out \in Seq(Bytes)

\* The packet buffer of ip_mtu+3 bytes is never overrun, although the length is
\* only checked at the end of an iteration and an iteration may add two bytes.
NoBufferOverrun == Len(packet) <= MTU + 3

\* What each state says of the counters, all that the loop relies on: a block in
\* progress is a CHUNK or a CASE255 one, the long form lasts until its block
\* ends, a block that has ended left something in the packet, and PACKET_TOO_LONG
\* is entered exactly when the packet, less a zero that may yet be trimmed, no
\* longer fits in ip_mtu.
StateCoherent ==
  /\ state = "CASE255" => remaining > 0
  /\ state = "RESET" => remaining = 0
  /\ state = "CHUNK" /\ remaining = 0 => packet # <<>>
  /\ IF state = "PACKET_TOO_LONG"
     THEN Len(packet) > MTU + 1
     ELSE Len(packet) <= MTU + 1

\* A zero byte always leaves the decoder as reset() does, whatever it was in the
\* middle of: one intact delimiter is enough to find the start of a packet.
ZeroResynchronizes == [][Receive(0) => IsReset']_dvars
=============================================================================
