\* The samples per symbol, the sync word and with them the window are the program's.
\* Symbols have their centres well inside the index 0..9.
CONSTANTS
  SPS = 10
  SyncSymbols = 8
  FrameSymbols = 3
  MaxMissing = 3
  CostLimit = 1
  IdlePeriod = 1
  ActivePeriod = 1
  Width = 3
  Results = {"OK", "EOS"}
  CostSteps = {0}
  Phases = {3, 4, 5, 6, 7}
SPECIFICATION FairLinkSpec
INVARIANTS
  FreewheelingBounded
PROPERTIES
  Aligned
  KeepsTracking
  ReachesFrames
