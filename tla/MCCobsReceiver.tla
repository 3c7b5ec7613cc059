--------------------------- MODULE MCCobsReceiver ---------------------------
\* CobsReceiver on a small instance: at most MaxRaw bytes between delimiters.
EXTENDS CobsReceiver

CONSTANT MaxRaw

MCNext ==
  \/ HRestart
  \/ \E byte \in Bytes : (byte = 0 \/ Len(raw) < MaxRaw) /\ HReceive(byte)

MCSpec == HInit /\ [][MCNext]_rvars
=============================================================================
