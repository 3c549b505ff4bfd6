------------------------------ MODULE MCDriver ------------------------------
(***************************************************************************)
(* Constant values for model checking Driver.  A unit of time is 100 ps,   *)
(* every number of the source is kept; currents are nanoamperes, the       *)
(* supply is millivolts.  A range of delays is met at its ends.  The tests *)
(* send 20 to 100 items per stage, the models 4 or 8: after four correct   *)
(* items the pins are where they were.                                     *)
(***************************************************************************)
EXTENDS Driver, Tests

MCAcqTime == 100000
MCDecTime == 20000
MCHoldMin == 50000
MCHoldMax == 100000
MCIdleTime == 500000
MCGlitchTime == 1000
MCShortMin == 10
MCShortMax == 5000
MCAnyMin == 1
MCAnyMax == 1000000
MCWrap == 42949672
MCShortest == 1
MCDrainTime == 20000
MCSetups == {10, 100}
MCCompleteDelays == {100, 200000}
MCCompleteDurations == {10000, 50000}

\* The two ends of the sine.  The sequence is started a second time, to see that
\* a stage also begins from where one has ended.
SineEnds == {-5000, 45000}
SanityStages == SanityTest(8, SineEnds) \o SanityTest(4, SineEnds)
CorrectDelays == {1000, 4000, 20000, 50000, 100000, 500000}

\* The sanity test is one that keeps the protocol.
ASSUME SanityIsCorrect == Stages = SanityStages => CorrectStimulus

\* The stages after the correct one.  An IDLE item of incorrect timing may have
\* no length, or a length that is negative as an int.
ViolationStages == Tail(TimingViolationTest(4, {5000, 10000}))
                     \o Tail(SequenceViolationTest(4))
AllDelays == CorrectDelays \cup {0, 10, 90, 5000, 1000000, 30000000}
AllGlitches == [clk : Bit, inv : Bit, sh : Bit, cpl : Bit]

\* One cycle, for the pulses its items get.
PulseStages == SanityTest(4, SineEnds)
PulseGrid == {4000, 20000, 100000, 500000}
=============================================================================
