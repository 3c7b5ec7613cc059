\* The centres are at an end of the index.
CONSTANTS
  SPS = 10
  SyncSymbols = 8
  FrameSymbols = 3
  MaxMissing = 3
  CostLimit = 1
  IdlePeriod = 1
  ActivePeriod = 1
  Width = 3
  Results = {"OK"}
  CostSteps = {0}
  Phases = {0, 9}
SPECIFICATION FairLinkSpec
PROPERTY Aligned
