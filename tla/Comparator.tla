----------------------------- MODULE Comparator -----------------------------
(***************************************************************************)
(* The real-number model of the sampled current comparator                 *)
(* (src/RNM_testbench/src/model/comparator_RNM.sv): five always blocks and *)
(* the continuous assignments between them, driven by pins that may move   *)
(* in any way.  Currents are integers, times are integers; $realtime and   *)
(* $realtime - sample_start_time are kept only up to ACQ_TIME/2, the one   *)
(* threshold the code compares them with.                                  *)
(*                                                                         *)
(* An action is one activation of a process of the simulator.  A commit of *)
(* non-blocking assignments to the pins and the zero-time reaction of the  *)
(* always blocks to the edges it makes are one step: the simulator drains  *)
(* the reaction before it commits the next assignment.                     *)
(*                                                                         *)
(* A definition marked "mutant" is a wrong version of the one below it,    *)
(* kept to show that the properties tell them apart; nothing uses it.      *)
(***************************************************************************)
EXTENDS Integers

CONSTANTS
  MaxCurrent,     \* MAX_CURRENT
  BiasCurrent,    \* BIAS_CURRENT, the least bias that is valid
  SupplyMin, SupplyMax,
  MinErr, MaxErr, \* least and largest |prec_factor - 1|, in permil
  AcqHalf,        \* ACQ_TIME / 2
  HoldTime, DecisionTime,
  DecisionGrid,   \* the decision times explored
  ChargePct,      \* percent of its final charge the capacitor has after t
  IffViews,       \* what an "iff" guard reads of a pin of the same commit
  BiasWakesInOk,  \* does "assign in_ok" wake on inv_bias_ok, which only the
                  \* body of the function it calls reads?
  InLevels, BiasLevels, VddLevels, \* the values the analog pins take
  MaxBias,        \* no bias is above this
  MaxAdvance      \* longest single step of the clock

Off == -1         \* a process that waits at its event control

ASSUME ParamAssumption ==
  /\ MaxCurrent \in Nat /\ BiasCurrent \in Nat
  /\ SupplyMin \in Nat /\ SupplyMax \in Nat
  /\ MinErr \in Nat /\ MaxErr \in MinErr..999
  /\ AcqHalf \in Nat \ {0} /\ HoldTime \in Nat /\ DecisionTime \in Nat
  /\ DecisionGrid \subseteq Nat
  /\ ChargePct \in [0..(AcqHalf - 1) -> 0..100]
  /\ MaxAdvance \in Nat

ASSUME BuildAssumption ==
  /\ IffViews \subseteq {"before", "after"} /\ IffViews # {}
  /\ BiasWakesInOk \subseteq BOOLEAN /\ BiasWakesInOk # {}

ASSUME StimulusAssumption ==
  /\ InLevels \subseteq Int /\ VddLevels \subseteq Nat
  /\ MaxBias \in Nat /\ BiasLevels \subseteq 0..MaxBias

VARIABLES
  am_clk_sample, am_invert, am_short, am_complete,  \* digital pins
  in, inv_bias, vdd,                                \* analog pins
  in_ok,            \* the net of "assign in_ok = apply_saturation(in)"
  stored_current,
  cmpr_out,
  realtime,         \* min($realtime, AcqHalf)
  since_sample,     \* min($realtime - sample_start_time, AcqHalf)
  az_wait,          \* AUTO-ZERO: time left of #HOLD_TIME, or Off
  cmp_wait,         \* COMPARE: time left of #dec_time, or Off
  fatal             \* $fatal has ended the simulation

pins  == <<am_clk_sample, am_invert, am_short>>
clocks == <<realtime, since_sample>>
vars  == <<pins, am_complete, in, inv_bias, vdd, in_ok, stored_current,
           cmpr_out, clocks, az_wait, cmp_wait, fatal>>

-----------------------------------------------------------------------------
Bit   == {"0", "1"}
Logic == Bit \cup {"X"}

Posedge(old, new) == old # new /\ (new = "1" \/ old = "0")
Negedge(old, new) == old # new /\ (new = "0" \/ old = "1")

Abs(x) == IF x < 0 THEN -x ELSE x
Cap(t) == IF t > AcqHalf THEN AcqHalf ELSE t

\* |v| clipped at MAX_CURRENT, and apply_saturation: 0 below the valid bias.
ClipUnlimited(v) == Abs(v)                                     \* mutant
Clip(v) == IF Abs(v) > MaxCurrent THEN MaxCurrent ELSE Abs(v)
SaturationOfSigned(v, bias_ok) == IF v < bias_ok THEN 0 ELSE Clip(v)  \* mutant
ApplySaturation(v, bias_ok) == IF Abs(v) < bias_ok THEN 0 ELSE Clip(v)

\* assign inv_bias_ok: a bias below BIAS_CURRENT counts as none.
BiasOk(bias) == IF bias >= BiasCurrent THEN bias ELSE 0
InvBiasOk == BiasOk(inv_bias)

\* 1000 * calc_offset(v): a relative error of either sign, none on an input
\* the bias swallows.
OffsetPermil == {e \in (-MaxErr)..MaxErr : Abs(e) >= MinErr}
Offset(v, e) ==
  LET eff == ApplySaturation(v, InvBiasOk)
  IN  IF eff < InvBiasOk THEN 0 ELSE eff * e

\* dec_time: between half of DECISION_TIME and all of it.
DecisionTimesUnscaled ==  \* mutant: the division by 1000 is forgotten
  {1000 * d : d \in {g \in DecisionGrid : DecisionTime <= 2 * g /\ g <= DecisionTime}}
DecisionTimes == {d \in DecisionGrid : DecisionTime <= 2 * d /\ d <= DecisionTime}

\* cmpr_enabled, and the pin am_cmpr_out it gates.
Supplied == vdd >= SupplyMin
Enabled == IF ~Supplied \/ am_complete = "1" THEN "0"
           ELSE IF am_complete = "0" THEN "1" ELSE "X"
AmCmprOut == IF Enabled = "1" THEN cmpr_out ELSE "X"

-----------------------------------------------------------------------------
Init ==
  /\ am_clk_sample = "X" /\ am_invert = "X" /\ am_short = "X"
  /\ am_complete = "X"
  /\ in = 0 /\ inv_bias = 0 /\ vdd = 0
  /\ in_ok = 0
  /\ stored_current = 0
  /\ cmpr_out = "1"
  /\ realtime = 0 /\ since_sample = 0
  /\ az_wait = Off /\ cmp_wait = Off
  /\ fatal = FALSE

\* What the capacitor keeps when the sample switch opens.
HeldCurrent ==
  IF in_ok <= InvBiasOk THEN stored_current
  ELSE IF since_sample >= AcqHalf THEN in_ok
  ELSE stored_current
         + ((in_ok - stored_current) * ChargePct[since_sample]) \div 100

\* Every process whose delay has run out has run: non-blocking assignments
\* commit only then.
ActiveDrained == az_wait # 0 /\ cmp_wait # 0

\* What wakes SAMPLE.
SamplesOnFall(clk) == Negedge(am_clk_sample, clk)              \* mutant
Samples(clk) == Posedge(am_clk_sample, clk)

\* One commit to the three control pins, with the blocks it wakes: SAMPLE on
\* posedge am_clk_sample, the store on negedge am_invert iff am_short,
\* AUTO-ZERO on posedge am_short, COMPARE on posedge am_invert iff !am_short.
\* The last two sleep in a delay and miss the edges that come meanwhile.
DriveControl(clk, inv, sh) ==
  /\ ~fatal /\ ActiveDrained
  /\ am_clk_sample' = clk /\ am_invert' = inv /\ am_short' = sh
  /\ \E view \in IffViews :
       LET short     == IF view = "after" THEN sh ELSE am_short
           sampling  == Samples(clk)
           storing   == Negedge(am_invert, inv) /\ short = "1"
           comparing == Posedge(am_invert, inv) /\ short = "0"
       IN  /\ cmpr_out' = IF sampling THEN "1" ELSE cmpr_out
           /\ stored_current' = IF storing THEN HeldCurrent ELSE stored_current
           /\ since_sample' \in  \* both blocks assign sample_start_time
                IF sampling \/ storing
                THEN (IF sampling THEN {0} ELSE {})
                       \cup (IF storing THEN {realtime} ELSE {})
                ELSE {since_sample}
           /\ IF comparing /\ cmp_wait = Off
              THEN cmp_wait' \in DecisionTimes
              ELSE UNCHANGED cmp_wait
  /\ az_wait' = IF Posedge(am_short, sh) /\ az_wait = Off
                THEN HoldTime ELSE az_wait
  /\ UNCHANGED <<am_complete, in, inv_bias, vdd, in_ok, realtime, fatal>>

DriveComplete(v) ==
  /\ ~fatal
  /\ am_complete' = v
  /\ UNCHANGED <<pins, in, inv_bias, vdd, in_ok, stored_current, cmpr_out,
                 clocks, az_wait, cmp_wait, fatal>>

\* assign in_ok wakes on its argument.
DriveIn(v) ==
  /\ ~fatal
  /\ v # in
  /\ in' = v
  /\ in_ok' = ApplySaturation(v, InvBiasOk)
  /\ UNCHANGED <<pins, am_complete, inv_bias, vdd, stored_current, cmpr_out,
                 clocks, az_wait, cmp_wait, fatal>>

DriveBias(v) ==
  /\ ~fatal
  /\ inv_bias' = v
  /\ \E wakes \in BiasWakesInOk :
       in_ok' = IF wakes /\ BiasOk(v) # InvBiasOk
                THEN ApplySaturation(in, BiasOk(v)) ELSE in_ok
  /\ UNCHANGED <<pins, am_complete, in, vdd, stored_current, cmpr_out,
                 clocks, az_wait, cmp_wait, fatal>>

\* PWR CHECK: an assertion on every change of vdd, whose failure is fatal.
\* (vss, the other side of the subtraction, is never driven and stays 0.)
DriveVddBelowMax(v) ==   \* mutant: the maximum itself is refused
  /\ ~fatal
  /\ vdd' = v
  /\ fatal' = (v >= SupplyMax)
  /\ UNCHANGED <<pins, am_complete, in, inv_bias, in_ok, stored_current,
                 cmpr_out, clocks, az_wait, cmp_wait>>
DriveVdd(v) ==
  /\ ~fatal
  /\ vdd' = v
  /\ fatal' = (v > SupplyMax)
  /\ UNCHANGED <<pins, am_complete, in, inv_bias, in_ok, stored_current,
                 cmpr_out, clocks, az_wait, cmp_wait>>

\* AUTO-ZERO after #HOLD_TIME.
AutoZero ==
  /\ ~fatal
  /\ az_wait = 0
  /\ az_wait' = Off
  /\ cmpr_out' = "1"
  /\ UNCHANGED <<pins, am_complete, in, inv_bias, vdd, in_ok, stored_current,
                 clocks, cmp_wait, fatal>>

\* COMPARE after #dec_time: the verdict on the input of this moment.
VerdictBackwards(e) ==   \* mutant: the operands are swapped
  LET comp_current == stored_current - in_ok
  IN  IF \/ Abs(comp_current) < InvBiasOk
         \/ stored_current > in_ok
         \/ 1000 * comp_current + Offset(in, e) > 0
      THEN "1" ELSE "0"
Verdict(e) ==
  LET comp_current == in_ok - stored_current
  IN  IF \/ Abs(comp_current) < InvBiasOk
         \/ in_ok > stored_current
         \/ 1000 * comp_current + Offset(in, e) > 0
      THEN "1" ELSE "0"

CompareIfInverted ==     \* mutant: gives up when am_invert has fallen
  /\ ~fatal /\ am_invert = "1"
  /\ cmp_wait = 0
  /\ cmp_wait' = Off
  /\ \E e \in OffsetPermil : cmpr_out' = Verdict(e)
  /\ UNCHANGED <<pins, am_complete, in, inv_bias, vdd, in_ok, stored_current,
                 clocks, az_wait, fatal>>
Compare ==
  /\ ~fatal
  /\ cmp_wait = 0
  /\ cmp_wait' = Off
  /\ \E e \in OffsetPermil : cmpr_out' = Verdict(e)
  /\ UNCHANGED <<pins, am_complete, in, inv_bias, vdd, in_ok, stored_current,
                 clocks, az_wait, fatal>>

\* Time passes, never past a delay that is running.
Waits(wait, d) == wait = Off \/ d <= wait
Left(wait, d) == IF wait = Off THEN Off ELSE wait - d

Advance(d) ==
  /\ ~fatal
  /\ d > 0
  /\ Waits(az_wait, d) /\ Waits(cmp_wait, d)
  /\ az_wait' = Left(az_wait, d)
  /\ cmp_wait' = Left(cmp_wait, d)
  /\ realtime' = Cap(realtime + d)
  /\ since_sample' = Cap(since_sample + d)
  /\ UNCHANGED <<pins, am_complete, in, inv_bias, vdd, in_ok, stored_current,
                 cmpr_out, fatal>>

Elapse == \E d \in 1..MaxAdvance : Advance(d)

Next ==
  \/ \E clk, inv, sh \in Bit : DriveControl(clk, inv, sh)
  \/ \E v \in Bit : DriveComplete(v)
  \/ \E v \in InLevels : DriveIn(v)
  \/ \E v \in BiasLevels : DriveBias(v)
  \/ \E v \in VddLevels : DriveVdd(v)
  \/ AutoZero
  \/ Compare
  \/ Elapse

Spec == Init /\ [][Next]_vars

-----------------------------------------------------------------------------
\* Every variable stays in its range; in particular the capacitor never holds
\* less than nothing or more than MAX_CURRENT, however it was charged.
TypeOK ==
  /\ pins \in Logic \X Logic \X Logic /\ am_complete \in Logic
  /\ in \in Int /\ inv_bias \in 0..MaxBias /\ vdd \in Nat
  /\ in_ok \in 0..MaxCurrent
  /\ stored_current \in 0..MaxCurrent
  /\ cmpr_out \in Bit
  /\ realtime \in 0..AcqHalf /\ since_sample \in 0..realtime
  /\ az_wait \in {Off} \cup 0..HoldTime
  /\ cmp_wait \in {Off} \cup 0..DecisionTime
  /\ fatal \in BOOLEAN

\* However late "assign in_ok" wakes on the bias, the current the comparator
\* works with is the clipped input or nothing, and nothing only where a bias
\* could swallow the input.
InOkTracksInput ==
  in_ok # Clip(in) => in_ok = 0 /\ Abs(in) < MaxBias

\* The contract: see ToleranceComparator.
Contract == INSTANCE ToleranceComparator WITH
  magnitude <- Clip(in), level <- in_ok, deadzone <- InvBiasOk,
  held <- stored_current, busy <- (cmp_wait # Off), verdict <- cmpr_out

\* Every step of the model is a step the contract allows.
ImplementsContract == Contract!Spec

-----------------------------------------------------------------------------
\* The simulator runs every process it has woken, and its clock goes on.
Fairness == WF_vars(AutoZero) /\ WF_vars(Compare) /\ WF_vars(Elapse)
FairSpec == Spec /\ Fairness

\* A comparison that has been started gives its verdict, unless the supply
\* assertion has ended the simulation.
EveryCompareAnswers == cmp_wait # Off ~> (cmp_wait = Off \/ fatal)
=============================================================================
