\* Indexes 4: two of them are out of each other's reach, as with 10.  The carrier
\* may go at every second sample.
CONSTANTS
  SPS = 4
  SyncSymbols = 2
  FrameSymbols = 2
  MaxMissing = 2
  CostLimit = 1
  IdlePeriod = 1
  ActivePeriod = 1
  Width = 2
  Results = {"OK", "EOS"}
  CostSteps = {0, 1}
SPECIFICATION Spec
INVARIANTS
  TypeOK
  FramerCoherent
  ClockUpdatePrecondition
  CobsResetBeforeFrames
  WindowEndsSearch
PROPERTIES
  OnlyMissedFramesCarriedOver
