CONSTANTS
  Width = 3
  Tap = 1
  LOCK_COUNT = 6
  UNLOCK_COUNT = 3
  HistoryBits = 8
  CountLimit = 16
  PayloadBits = 6
  PrimeBits = 5
  BitsToUnlock = 6
  MaxFrames = 7
  MaxFaults = 2
  Transmissions <- MCTransmissions
  VoicePayloads <- MCVoicePayloads
SPECIFICATION Spec
INVARIANTS
  TypeOK
  HistoryCounted
  HeaderCoherent
  RoutedAsSent
  Recovers
  CountsExact
CHECK_DEADLOCK FALSE
