------------------------------- MODULE Tests --------------------------------
(***************************************************************************)
(* The tests (tb/tests) as the stages Driver takes: one record per start() *)
(* of the sequence.  A test begins with the defaults of comp_base_test and *)
(* its settings stay from one stage to the next.  Times are in units of    *)
(* 100 ps, currents in nanoamperes, the supply in millivolts.  The tests   *)
(* send 20 to 100 items per stage: the number n is left open here, and so  *)
(* are the levels of a wave that is not static.                            *)
(***************************************************************************)
EXTENDS Integers, Sequences

DefaultStep == 10                      \* cfg_bias.step_ps, cfg_vdd.step_ps
Static(level) == [step |-> DefaultStep, levels |-> {level}]

\* What a test starts the sequence with when it has set the input, the bias
\* and the supply.
Default(n, in, bias, vdd) ==
  [num |-> n, start |-> "IDLE", state_transition |-> "CORRECT",
   timing |-> "CORRECT", am_complete_en |-> FALSE,
   wave |-> [in |-> in, inv_bias |-> bias, vdd |-> vdd]]

\* comp_test_sanity: a sine of 20 uA +- 25 uA.
SanityTest(n, levels) ==
  << Default(n, [step |-> 3000, levels |-> levels], Static(5), Static(1000)) >>

\* comp_test_timing_violation: a slope from 10 uA down to 5 uA.
TimingViolationTest(n, levels) ==
  LET first == Default(n, [step |-> 100, levels |-> levels], Static(6), Static(1000))
  IN  << first,
         [first EXCEPT !.timing = "INCORRECT"],
         [first EXCEPT !.timing = "RANDOM"] >>

\* comp_test_sequence_violation: an input that does not move.
SequenceViolationTest(n) ==
  LET first == Default(n, [step |-> 100, levels |-> {10000}], Static(5), Static(1000))
  IN  << first,
         [first EXCEPT !.state_transition = "INCORRECT"],
         [first EXCEPT !.state_transition = "RANDOM"] >>
=============================================================================
