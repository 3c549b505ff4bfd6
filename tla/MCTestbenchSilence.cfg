SPECIFICATION FairTbSpec
CONSTANTS
  AcqTime <- MCAcqTime
  DecTime <- MCDecTime
  HoldMin <- MCHoldMin
  HoldMax <- MCHoldMax
  IdleTime <- MCIdleTime
  GlitchTime <- MCGlitchTime
  ShortMin <- MCShortMin
  ShortMax <- MCShortMax
  AnyMin <- MCAnyMin
  AnyMax <- MCAnyMax
  Wrap <- MCWrap
  Shortest <- MCShortest
  DrainTime <- MCDrainTime
  CompleteDelays <- MCCompleteDelays
  CompleteDurations <- MCCompleteDurations
  MaxCurrent <- MCMaxCurrent
  BiasCurrent <- MCBiasCurrent
  SupplyMin <- MCSupplyMin
  SupplyMax <- MCSupplyMax
  MinErr <- MCMinErr
  MaxErr <- MCMaxErr
  HoldTime <- MCHoldTime
  DecisionGrid <- MCDecisionGrid
  ChargePct <- MCChargePct
  MaxBias <- MCMaxBias
  Setups <- OneSetup
  Delays <- CorrectDelays
  CompleteChoices = {FALSE}
  GlitchVectors <- NoGlitches
  Stages <- SanityStages
  IffViews = {"after"}
  BiasWakesInOk = {TRUE, FALSE}
PROPERTIES
  SilenceMeansHeld
