---------------------------- MODULE CobsReceiver ----------------------------
(***************************************************************************)
(* The decoder with a history variable, the bytes received since the last   *)
(* delimiter or reset(), which relates it to CobsStream: fed any stream of  *)
(* bytes at all, OPVCobsDecoder submits what decoding each delimited string *)
(* as a whole would yield, and nothing else.                                *)
(***************************************************************************)
EXTENDS CobsDecoder

VARIABLE raw

rvars == <<dvars, raw>>

HInit == Init /\ raw = <<>>

HReceive(byte) ==
  /\ Receive(byte)
  /\ raw' = IF byte = 0 THEN <<>> ELSE Append(raw, byte)

HRestart == Restart /\ raw' = <<>>

HNext == HRestart \/ \E byte \in Bytes : HReceive(byte)

HSpec == HInit /\ [][HNext]_rvars

Stream == INSTANCE CobsStream WITH raw <- raw, out <- out

\* The incremental decoder implements decoding each delimited string at once:
\* what it submits, and when, is exactly what CobsStream delivers.
DecodesTheStream == Stream!Spec
=============================================================================
