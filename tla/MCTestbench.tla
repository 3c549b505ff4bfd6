---------------------------- MODULE MCTestbench -----------------------------
(***************************************************************************)
(* Constant values for model checking Testbench.  A unit of time is 100 ps *)
(* and every number of the source is kept; currents are nanoamperes, the   *)
(* supply is millivolts.  MAX_ERR_DB and MIN_ERR_DB are 2.9% and 1.1%.     *)
(***************************************************************************)
EXTENDS Testbench, Tests

MCAcqTime == 100000
MCDecTime == 20000
MCHoldMin == 50000
MCHoldMax == 100000
MCIdleTime == 500000
MCGlitchTime == 1000
MCShortMin == 10
MCShortMax == 5000
MCAnyMin == 1
MCAnyMax == 1000000
MCWrap == 42949672
MCShortest == 1
MCDrainTime == 20000
MCCompleteDelays == {100, 200000}
MCCompleteDurations == {10000, 50000}

MCMaxCurrent == 50000
MCBiasCurrent == 5
MCSupplyMin == 650
MCSupplyMax == 1000
MCMinErr == 11
MCMaxErr == 29
MCHoldTime == 3
MCDecisionGrid == {10000, 20000}
\* 100 * (1 - exp(-t/2.5us)), at the sampling times that are met.
MCChargePct == [t \in 0..49999 |-> IF t < 10000 THEN 0 ELSE
                                   IF t < 20000 THEN 33 ELSE 55]
MCMaxBias == 6
OneSetup == {100}
NoGlitches == {NoGlitch}

\* Two levels of the sine that are compared in either order; 4.4 uA against
\* 4.5 uA is inside the error band.
CloseLevels == {-4500, 4400}
SanityStages == SanityTest(8, CloseLevels) \o SanityTest(1, CloseLevels)
OneStage == SanityTest(8, CloseLevels)
CorrectDelays == {4000, 20000, 50000, 100000, 500000}

\* The sanity test leaves room for a decision.
ASSUME SanityLeavesRoom ==
  CorrectStimulus /\ (IffViews = {"after"} => DecisionFits)
=============================================================================
