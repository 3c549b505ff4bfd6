SPECIFICATION Spec
CONSTANTS
  AcqTime <- MCAcqTime
  DecTime <- MCDecTime
  HoldMin <- MCHoldMin
  HoldMax <- MCHoldMax
  IdleTime <- MCIdleTime
  GlitchTime <- MCGlitchTime
  ShortMin <- MCShortMin
  ShortMax <- MCShortMax
  AnyMin <- MCAnyMin
  AnyMax <- MCAnyMax
  Wrap <- MCWrap
  Shortest <- MCShortest
  DrainTime <- MCDrainTime
  CompleteDelays <- MCCompleteDelays
  CompleteDurations <- MCCompleteDurations
  Setups <- MCSetups
  Delays <- AllDelays
  CompleteChoices = {FALSE}
  GlitchVectors <- AllGlitches
  Stages <- ViolationStages
INVARIANTS
  TypeOK
  ItemNeverOverruns
