CONSTANTS
  FrameBits = 2152
  F1 = 59
  F2 = 1076
  Kinds = {"word", "header", "payload", "symbol", "frame"}
  Words = {0, 3448}
  PayloadBits = 4
  BurstBits = 127
SPECIFICATION Spec
INVARIANTS
  WordCorrected
  FourErrorsNoticed
  HeaderDelivered
  MostLikely
  PayloadCorrected
  SoftBitsMeasure
  FrameRestored
CHECK_DEADLOCK FALSE
