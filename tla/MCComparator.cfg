SPECIFICATION FairSpec
CONSTANTS
  MaxCurrent = 6
  BiasCurrent = 2
  SupplyMin = 65
  SupplyMax = 100
  MinErr = 250
  MaxErr = 300
  AcqHalf = 2
  HoldTime = 1
  DecisionTime = 2
  DecisionGrid = {1, 2}
  ChargePct <- MCChargePct
  IffViews = {"before", "after"}
  BiasWakesInOk = {TRUE, FALSE}
  InLevels <- MCInLevels
  BiasLevels <- MCBiasLevels
  VddLevels <- MCVddLevels
  MaxBias = 2
  MaxAdvance = 1
INVARIANTS
  TypeOK
  InOkTracksInput
PROPERTIES
  EveryCompareAnswers
  ImplementsContract
CHECK_DEADLOCK FALSE
