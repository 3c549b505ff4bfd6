-------------------------- MODULE ComparatorProofs --------------------------
(***************************************************************************)
(* For every value of the constants: the model of the comparator keeps its *)
(* types (the capacitor its range), its latched input tracks the pin, and  *)
(* every step it takes is a step ToleranceComparator allows.               *)
(***************************************************************************)
EXTENDS Comparator, TLAPS

\* A percentage of a difference lies between nothing and the difference:
\* the partial charge never leaves the interval it moves in.
LEMMA PercentUp ==
  ASSUME NEW n \in Nat, NEW p \in 0..100
  PROVE  (n * p) \div 100 \in 0..n
<1>1. n * p \in Nat /\ n * p <= n * 100
  OBVIOUS
<1>. QED  BY <1>1

\* A percentage of a negative number, rounded down, is between it and 0.
LEMMA PercentDown ==
  ASSUME NEW n \in Nat, NEW p \in 0..100
  PROVE  ((-n) * p) \div 100 \in (-n)..0
<1>1. n * p \in Nat /\ n * p <= n * 100
  OBVIOUS
<1>2. (-n) * p = -(n * p)
  OBVIOUS
<1>. QED  BY <1>1, <1>2

\* Clipping returns a current in range.
LEMMA Clipping ==
  ASSUME ParamAssumption, NEW v \in Int
  PROVE  /\ Abs(v) \in Nat
         /\ Clip(v) \in Nat /\ Clip(v) \in 0..MaxCurrent
         /\ Clip(v) <= Abs(v)
BY DEF ParamAssumption, Abs, Clip

\* Saturation returns the clipped input, or nothing for one below the bias.
LEMMA Saturation ==
  ASSUME ParamAssumption, NEW v \in Int, NEW b \in Nat
  PROVE  /\ ApplySaturation(v, b) \in 0..MaxCurrent
         /\ Abs(v) >= b => ApplySaturation(v, b) = Clip(v)
         /\ Abs(v) < b => ApplySaturation(v, b) = 0
BY DEF ParamAssumption, Abs, Clip, ApplySaturation

\* A charge that opens early leaves the capacitor between what it held and
\* the input.
LEMMA HeldBetween ==
  ASSUME ParamAssumption, StimulusAssumption, TypeOK
  PROVE  /\ HeldCurrent \in Int
         /\ HeldCurrent \in Contract!Between(stored_current, in_ok)
<1>. DEFINE diff == in_ok - stored_current
            pct  == ChargePct[since_sample]
<1>1. /\ in_ok \in Nat /\ stored_current \in Nat
      /\ since_sample \in Nat /\ AcqHalf \in Nat
  BY DEF TypeOK, ParamAssumption
<1>2. CASE in_ok <= InvBiasOk \/ since_sample >= AcqHalf
  BY <1>1, <1>2 DEF HeldCurrent, Contract!Between
<1>3. CASE ~(in_ok <= InvBiasOk) /\ ~(since_sample >= AcqHalf)
  <2>1. pct \in 0..100
    BY <1>1, <1>3 DEF ParamAssumption
  <2>2. HeldCurrent = stored_current + (diff * pct) \div 100
    BY <1>3 DEF HeldCurrent
  <2>3. CASE diff >= 0
    <3>1. diff \in Nat  BY <1>1, <2>3
    <3>2. (diff * pct) \div 100 \in 0..diff  BY <2>1, <3>1, PercentUp
    <3>. HIDE DEF pct
    <3>. QED  BY <1>1, <2>2, <2>3, <3>2 DEF Contract!Between
  <2>4. CASE diff < 0
    <3>. DEFINE drop == stored_current - in_ok
    <3>1. drop \in Nat /\ diff = -drop  BY <1>1, <2>4
    <3>2. ((-drop) * pct) \div 100 \in (-drop)..0
      <4>. HIDE DEF drop, pct
      <4>. QED  BY <2>1, <3>1, PercentDown
    <3>3. (diff * pct) \div 100 \in (-drop)..0
      <4>. HIDE DEF drop, pct, diff
      <4>. QED  BY <3>1, <3>2
    <3>. HIDE DEF pct
    <3>. QED  BY <1>1, <2>2, <2>4, <3>3 DEF Contract!Between
  <2>. QED  BY <1>1, <2>3, <2>4
<1>. QED  BY <1>2, <1>3

\* The current that the capacitor holds is one an input can have.
LEMMA HeldInRange ==
  ASSUME ParamAssumption, StimulusAssumption, TypeOK
  PROVE  HeldCurrent \in 0..MaxCurrent
<1>1. /\ in_ok \in Int /\ stored_current \in Int /\ MaxCurrent \in Int
      /\ 0 <= in_ok /\ in_ok <= MaxCurrent
      /\ 0 <= stored_current /\ stored_current <= MaxCurrent
  BY DEF TypeOK, ParamAssumption
<1>2. HeldCurrent \in Contract!Between(stored_current, in_ok)
  BY HeldBetween
<1>. QED  BY <1>1, <1>2 DEF Contract!Between

\* A decision takes at most DecisionTime.
LEMMA DecisionTimesInRange ==
  ASSUME ParamAssumption
  PROVE  DecisionTimes \subseteq 0..DecisionTime
<1>1. DecisionGrid \subseteq Nat /\ DecisionTime \in Nat
  BY DEF ParamAssumption
<1>2. ASSUME NEW d \in DecisionTimes PROVE d \in 0..DecisionTime
  <2>1. d \in DecisionGrid /\ d <= DecisionTime
    BY DEF DecisionTimes
  <2>2. d \in Nat  BY <1>1, <2>1
  <2>. QED  BY <1>1, <2>1, <2>2
<1>. QED  BY <1>2

\* A bias that counts as none is in the range of a bias, too.
LEMMA BiasInRange ==
  ASSUME StimulusAssumption, NEW b \in 0..MaxBias
  PROVE  BiasOk(b) \in 0..MaxBias
BY DEF StimulusAssumption, BiasOk

-----------------------------------------------------------------------------
\* TypeOK is inductive: no order of edges, delays and analog moves takes a
\* variable, the capacitor included, out of its range.
THEOREM TypeCorrect == Spec => []TypeOK
<1>. USE ParamAssumption, StimulusAssumption
<1>1. Init => TypeOK
  <2>. SUFFICES ASSUME Init PROVE TypeOK
    OBVIOUS
  <2>1. pins \in Logic \X Logic \X Logic /\ am_complete \in Logic
    BY DEF Init, pins, Logic
  <2>2. /\ MaxCurrent \in Nat /\ AcqHalf \in Nat /\ MaxBias \in Nat
    BY DEF ParamAssumption, StimulusAssumption
  <2>3. /\ in \in Int /\ inv_bias \in 0..MaxBias /\ vdd \in Nat
        /\ in_ok \in 0..MaxCurrent /\ stored_current \in 0..MaxCurrent
        /\ realtime \in 0..AcqHalf /\ since_sample \in 0..realtime
    BY <2>2 DEF Init
  <2>4. /\ cmpr_out \in Bit /\ fatal \in BOOLEAN
        /\ az_wait \in {Off} \cup 0..HoldTime
        /\ cmp_wait \in {Off} \cup 0..DecisionTime
    BY DEF Init, Bit
  <2>. QED  BY <2>1, <2>3, <2>4 DEF TypeOK
<1>2. TypeOK /\ [Next]_vars => TypeOK'
  <2>. SUFFICES ASSUME TypeOK, [Next]_vars PROVE TypeOK'
    OBVIOUS
  <2>1. ASSUME NEW clk \in Bit, NEW inv \in Bit, NEW sh \in Bit,
               DriveControl(clk, inv, sh)
        PROVE  TypeOK'
    <3>1. stored_current' \in 0..MaxCurrent
      <4>1. stored_current' \in {HeldCurrent, stored_current}
        BY <2>1 DEF DriveControl
      <4>2. stored_current \in 0..MaxCurrent  BY DEF TypeOK
      <4>. QED  BY <4>1, <4>2, HeldInRange
    <3>2. since_sample' \in 0..realtime' /\ realtime' \in 0..AcqHalf
      <4>1. realtime' = realtime /\ since_sample' \in {0, realtime, since_sample}
        BY <2>1 DEF DriveControl
      <4>. QED  BY <4>1 DEF TypeOK, ParamAssumption
    <3>3. cmp_wait' \in {Off} \cup 0..DecisionTime
      <4>1. cmp_wait' \in DecisionTimes \cup {cmp_wait}
        BY <2>1 DEF DriveControl
      <4>. QED  BY <4>1, DecisionTimesInRange DEF TypeOK
    <3>4. az_wait' \in {Off} \cup 0..HoldTime
      BY <2>1 DEF DriveControl, TypeOK, ParamAssumption
    <3>5. cmpr_out' \in Bit
      BY <2>1 DEF DriveControl, TypeOK, Bit
    <3>6. /\ pins' \in Logic \X Logic \X Logic
          /\ UNCHANGED <<am_complete, in, inv_bias, vdd, in_ok, fatal>>
      BY <2>1 DEF DriveControl, pins, Logic
    <3>. QED  BY <3>1, <3>2, <3>3, <3>4, <3>5, <3>6 DEF TypeOK
  <2>2. ASSUME NEW v \in Bit, DriveComplete(v) PROVE TypeOK'
    BY <2>2 DEF DriveComplete, TypeOK, pins, clocks, Logic
  <2>3. ASSUME NEW v \in InLevels, DriveIn(v) PROVE TypeOK'
    <3>1. v \in Int  BY DEF StimulusAssumption
    <3>2. InvBiasOk \in Nat
      BY BiasInRange DEF TypeOK, InvBiasOk
    <3>3. in_ok' \in 0..MaxCurrent
      BY <2>3, <3>1, <3>2, Saturation DEF DriveIn
    <3>. QED  BY <2>3, <3>1, <3>3 DEF DriveIn, TypeOK, pins, clocks
  <2>4. ASSUME NEW v \in BiasLevels, DriveBias(v) PROVE TypeOK'
    <3>1. v \in 0..MaxBias  BY DEF StimulusAssumption
    <3>2. BiasOk(v) \in Nat  BY <3>1, BiasInRange
    <3>3. in_ok' \in {in_ok, ApplySaturation(in, BiasOk(v))}
      BY <2>4 DEF DriveBias
    <3>4. in \in Int /\ in_ok \in 0..MaxCurrent  BY DEF TypeOK
    <3>5. ApplySaturation(in, BiasOk(v)) \in 0..MaxCurrent
      BY <3>2, <3>4, Saturation
    <3>. QED  BY <2>4, <3>1, <3>3, <3>4, <3>5 DEF DriveBias, TypeOK, pins, clocks
  <2>5. ASSUME NEW v \in VddLevels, DriveVdd(v) PROVE TypeOK'
    BY <2>5 DEF DriveVdd, TypeOK, pins, clocks, StimulusAssumption, ParamAssumption
  <2>6. ASSUME AutoZero PROVE TypeOK'
    BY <2>6 DEF AutoZero, TypeOK, pins, clocks, Bit
  <2>7. ASSUME Compare PROVE TypeOK'
    <3>1. cmpr_out' \in Bit
      BY <2>7 DEF Compare, Verdict, Bit
    <3>. QED  BY <2>7, <3>1 DEF Compare, TypeOK, pins, clocks
  <2>8. ASSUME NEW d \in 1..MaxAdvance, Advance(d) PROVE TypeOK'
    <3>1. d \in Nat  OBVIOUS
    <3>2. realtime' \in 0..AcqHalf /\ since_sample' \in 0..realtime'
      BY <2>8, <3>1 DEF Advance, Cap, TypeOK, ParamAssumption
    <3>3. /\ az_wait' \in {Off} \cup 0..HoldTime
          /\ cmp_wait' \in {Off} \cup 0..DecisionTime
      BY <2>8, <3>1 DEF Advance, Waits, Left, TypeOK, ParamAssumption, Off
    <3>. QED  BY <2>8, <3>2, <3>3 DEF Advance, TypeOK, pins
  <2>9. CASE UNCHANGED vars
    BY <2>9 DEF vars, pins, clocks, TypeOK
  <2>. QED
    BY <2>1, <2>2, <2>3, <2>4, <2>5, <2>6, <2>7, <2>8, <2>9 DEF Next, Elapse
<1>. QED  BY <1>1, <1>2, PTL DEF Spec

\* However late the net wakes on the bias, it shows the clipped input or
\* nothing, and nothing only for an input a bias could swallow.
THEOREM InputTracked == Spec => []InOkTracksInput
<1>. USE ParamAssumption, StimulusAssumption
<1>1. Init => InOkTracksInput
  BY DEF Init, InOkTracksInput, Clip, Abs, ParamAssumption
<1>2. TypeOK /\ InOkTracksInput /\ [Next]_vars => InOkTracksInput'
  <2>. SUFFICES ASSUME TypeOK, InOkTracksInput, [Next]_vars
                PROVE  InOkTracksInput'
    OBVIOUS
  <2>. in \in Int /\ inv_bias \in 0..MaxBias /\ MaxBias \in Nat
    BY DEF TypeOK, StimulusAssumption
  <2>1. ASSUME NEW v \in InLevels, DriveIn(v) PROVE InOkTracksInput'
    <3>1. v \in Int  BY DEF StimulusAssumption
    <3>2. InvBiasOk \in 0..MaxBias  BY BiasInRange DEF InvBiasOk
    <3>3. in' = v /\ in_ok' = ApplySaturation(v, InvBiasOk)
      BY <2>1 DEF DriveIn
    <3>4. Abs(v) \in Nat  BY <3>1, Clipping
    <3>5. CASE Abs(v) >= InvBiasOk
      BY <3>1, <3>2, <3>3, <3>5, Saturation DEF InOkTracksInput
    <3>6. CASE Abs(v) < InvBiasOk
      <4>1. in_ok' = 0  BY <3>1, <3>2, <3>3, <3>6, Saturation
      <4>2. Abs(v) < MaxBias  BY <3>2, <3>4, <3>6
      <4>. QED  BY <3>3, <4>1, <4>2 DEF InOkTracksInput
    <3>. QED  BY <3>2, <3>4, <3>5, <3>6
  <2>2. ASSUME NEW v \in BiasLevels, DriveBias(v) PROVE InOkTracksInput'
    <3>1. BiasOk(v) \in 0..MaxBias  BY BiasInRange DEF StimulusAssumption
    <3>2. in' = in  BY <2>2 DEF DriveBias
    <3>3. Abs(in) \in Nat  BY Clipping
    <3>4. in_ok' \in {in_ok, ApplySaturation(in, BiasOk(v))}
      BY <2>2 DEF DriveBias
    <3>5. CASE in_ok' = in_ok
      BY <3>2, <3>5 DEF InOkTracksInput, Clip, Abs
    <3>6. CASE in_ok' = ApplySaturation(in, BiasOk(v)) /\ Abs(in) >= BiasOk(v)
      BY <3>1, <3>2, <3>6, Saturation DEF InOkTracksInput
    <3>7. CASE in_ok' = ApplySaturation(in, BiasOk(v)) /\ Abs(in) < BiasOk(v)
      <4>0. BiasOk(v) \in Nat  BY <3>1
      <4>1. ApplySaturation(in, BiasOk(v)) = 0  BY <3>7, <4>0, Saturation
      <4>2. Abs(in) < MaxBias  BY <3>1, <3>3, <3>7
      <4>. QED  BY <3>2, <3>7, <4>1, <4>2 DEF InOkTracksInput
    <3>. QED  BY <3>1, <3>3, <3>4, <3>5, <3>6, <3>7
  <2>3. CASE UNCHANGED <<in, in_ok>>
    BY <2>3 DEF InOkTracksInput, Clip, Abs
  <2>4. ASSUME NEW clk \in Bit, NEW inv \in Bit, NEW sh \in Bit,
               DriveControl(clk, inv, sh)
        PROVE  UNCHANGED <<in, in_ok>>
    BY <2>4 DEF DriveControl
  <2>5. ASSUME NEW v, DriveComplete(v) \/ DriveVdd(v) \/ AutoZero
                        \/ Compare \/ Advance(v)
        PROVE  UNCHANGED <<in, in_ok>>
    BY <2>5 DEF DriveComplete, DriveVdd, AutoZero, Compare, Advance
  <2>6. CASE UNCHANGED vars
    BY <2>3, <2>6 DEF vars
  <2>. QED
    BY <2>1, <2>2, <2>3, <2>4, <2>5, <2>6 DEF Next, Elapse
<1>. QED  BY <1>1, <1>2, TypeCorrect, PTL DEF Spec

-----------------------------------------------------------------------------
\* The error term of a verdict is at most MaxErr permil of the clipped input.
LEMMA OffsetBounded ==
  ASSUME ParamAssumption, StimulusAssumption,
         NEW v \in Int, NEW e \in OffsetPermil, InvBiasOk \in Nat
  PROVE  /\ Offset(v, e) \in Int
         /\ Offset(v, e) <= MaxErr * Clip(v)
<1>. DEFINE eff == ApplySaturation(v, InvBiasOk)
<1>1. e \in Int /\ e <= MaxErr /\ MaxErr \in Nat
  BY DEF ParamAssumption, OffsetPermil
<1>2. Clip(v) \in Nat /\ (eff = 0 \/ eff = Clip(v))
  BY Clipping DEF ApplySaturation
<1>3. MaxErr * Clip(v) \in Nat
  BY <1>1, <1>2
<1>4. Clip(v) * e \in Int /\ Clip(v) * e <= MaxErr * Clip(v)
  BY <1>1, <1>2
<1>5. Offset(v, e) \in {0, eff * e}
  BY DEF Offset
<1>6. CASE Offset(v, e) = 0
  BY <1>3, <1>6
<1>7. CASE Offset(v, e) = eff * e /\ eff = Clip(v)
  BY <1>4, <1>7
<1>8. CASE Offset(v, e) = eff * e /\ eff = 0
  BY <1>1, <1>3, <1>8
<1>. QED  BY <1>2, <1>5, <1>6, <1>7, <1>8

\* A comparison gives only a verdict the contract lets it decide.
LEMMA VerdictAllowed ==
  ASSUME ParamAssumption, StimulusAssumption, TypeOK, NEW e \in OffsetPermil
  PROVE  LET m == Clip(in) IN
         \/ /\ Verdict(e) = "0"
            /\ in_ok <= stored_current
            /\ stored_current - in_ok >= InvBiasOk
         \/ /\ Verdict(e) = "1"
            /\ \/ in_ok > stored_current
               \/ stored_current - in_ok < InvBiasOk
               \/ 1000 * (stored_current - in_ok) < MaxErr * m
<1>1. /\ in_ok \in Int /\ stored_current \in Int /\ in \in Int
      /\ InvBiasOk \in Nat
  BY BiasInRange DEF TypeOK, InvBiasOk, ParamAssumption, StimulusAssumption
<1>2. /\ Offset(in, e) \in Int /\ Offset(in, e) <= MaxErr * Clip(in)
      /\ MaxErr * Clip(in) \in Int
  <2>1. MaxErr \in Nat
    BY DEF ParamAssumption
  <2>2. Clip(in) \in Nat
    BY <1>1, Clipping
  <2>. QED  BY <1>1, <2>1, <2>2, OffsetBounded
<1>. DEFINE off == Offset(in, e)
            band == MaxErr * Clip(in)
<1>3. off \in Int /\ band \in Int /\ off <= band
  BY <1>2
<1>4. Verdict(e) = IF \/ Abs(in_ok - stored_current) < InvBiasOk
                      \/ in_ok > stored_current
                      \/ 1000 * (in_ok - stored_current) + off > 0
                   THEN "1" ELSE "0"
  BY DEF Verdict
<1>. HIDE DEF off, band
<1>5. CASE Verdict(e) = "0"
  <2>1. /\ ~(Abs(in_ok - stored_current) < InvBiasOk)
        /\ ~(in_ok > stored_current)
    BY <1>4, <1>5
  <2>. QED  BY <1>1, <1>5, <2>1 DEF Abs
<1>6. CASE Verdict(e) = "1"
  <2>1. \/ in_ok > stored_current
        \/ Abs(in_ok - stored_current) < InvBiasOk
        \/ 1000 * (in_ok - stored_current) + off > 0
    BY <1>4, <1>6
  <2>2. \/ in_ok > stored_current
        \/ stored_current - in_ok < InvBiasOk
        \/ 1000 * (stored_current - in_ok) < band
    BY <1>1, <1>3, <2>1 DEF Abs
  <2>. QED  BY <1>6, <2>2 DEF band
<1>. QED  BY <1>4, <1>5, <1>6

\* The model of the comparator implements the contract: whatever the pins,
\* the supply and the clock do, a "0" is never given for an input above the
\* held current or inside the dead zone, a "1" is wrong at most inside the
\* error band, and the held current only ever moves towards the input.
THEOREM ContractHolds == Spec => ImplementsContract
<1>. USE ParamAssumption, StimulusAssumption
<1>1. Init => Contract!Init
  BY DEF Init, Contract!Init, Clip, Abs, InvBiasOk, BiasOk, Off, ParamAssumption
<1>2. TypeOK /\ InOkTracksInput' /\ TypeOK' /\ [Next]_vars
        => [Contract!Next]_(Contract!vars)
  <2>. SUFFICES ASSUME TypeOK, InOkTracksInput', TypeOK', [Next]_vars
                PROVE  [Contract!Next]_(Contract!vars)
    OBVIOUS
  <2>1. ASSUME NEW clk \in Bit, NEW inv \in Bit, NEW sh \in Bit,
               DriveControl(clk, inv, sh)
        PROVE  Contract!Control
    <3>1. UNCHANGED <<in, in_ok, inv_bias>>
      BY <2>1 DEF DriveControl
    <3>2. Clip(in)' = Clip(in) /\ InvBiasOk' = InvBiasOk
      BY <3>1 DEF Clip, Abs, InvBiasOk
    <3>3. stored_current' \in Contract!Between(stored_current, in_ok)
      <4>1. stored_current' \in {HeldCurrent, stored_current}
        BY <2>1 DEF DriveControl
      <4>2. stored_current \in Contract!Between(stored_current, in_ok)
        BY DEF TypeOK, Contract!Between, ParamAssumption
      <4>. QED  BY <4>1, <4>2, HeldBetween
    <3>4. (cmp_wait # Off)' \in {cmp_wait # Off, TRUE}
      BY <2>1 DEF DriveControl
    <3>5. cmpr_out' \in {cmpr_out, "1"}
      BY <2>1 DEF DriveControl
    <3>. QED  BY <3>1, <3>2, <3>3, <3>4, <3>5 DEF Contract!Control
  <2>2. ASSUME UNCHANGED <<stored_current, cmp_wait, cmpr_out>>
        PROVE  Contract!Sense
    <3>1. in' \in Int /\ in_ok' \in 0..MaxCurrent /\ inv_bias' \in 0..MaxBias
      BY DEF TypeOK
    <3>2. Clip(in') \in 0..MaxCurrent /\ Clip(in') <= Abs(in')
          /\ Abs(in') \in Nat /\ Clip(in') \in Nat
      BY <3>1, Clipping
    <3>3. Clip(in)' = Clip(in') /\ InvBiasOk' = BiasOk(inv_bias')
      BY DEF Clip, Abs, InvBiasOk, BiasOk
    <3>4. in_ok' \in Contract!Levels(Clip(in'))
      <4>1. in_ok' # Clip(in') => in_ok' = 0 /\ Abs(in') < MaxBias
        BY DEF InOkTracksInput, Clip, Abs
      <4>2. Abs(in') < MaxBias => Clip(in') < MaxBias
        BY <3>2 DEF StimulusAssumption
      <4>. QED  BY <4>1, <4>2 DEF Contract!Levels
    <3>5. InvBiasOk' \in 0..MaxBias
      BY <3>1, <3>3, BiasInRange
    <3>. QED  BY <2>2, <3>2, <3>3, <3>4, <3>5 DEF Contract!Sense
  <2>3. ASSUME NEW v, DriveIn(v) \/ DriveBias(v)
        PROVE  UNCHANGED <<stored_current, cmp_wait, cmpr_out>>
    BY <2>3 DEF DriveIn, DriveBias
  <2>4. ASSUME AutoZero PROVE Contract!Control
    <3>1. /\ UNCHANGED <<in, in_ok, inv_bias, stored_current, cmp_wait>>
          /\ cmpr_out' = "1"
      BY <2>4 DEF AutoZero
    <3>2. Clip(in)' = Clip(in) /\ InvBiasOk' = InvBiasOk
      BY <3>1 DEF Clip, Abs, InvBiasOk
    <3>3. stored_current \in Contract!Between(stored_current, in_ok)
      BY DEF TypeOK, Contract!Between, ParamAssumption
    <3>. QED  BY <3>1, <3>2, <3>3 DEF Contract!Control
  <2>5. ASSUME Compare PROVE Contract!Decide
    <3>1. /\ UNCHANGED <<in, in_ok, inv_bias, stored_current>>
          /\ cmp_wait = 0 /\ cmp_wait' = Off
      BY <2>5 DEF Compare
    <3>2. Clip(in)' = Clip(in) /\ InvBiasOk' = InvBiasOk
      BY <3>1 DEF Clip, Abs, InvBiasOk
    <3>3. PICK e \in OffsetPermil : cmpr_out' = Verdict(e)
      BY <2>5 DEF Compare
    <3>4. 0 # Off  BY DEF Off
    <3>. QED  BY <3>1, <3>2, <3>3, <3>4, VerdictAllowed DEF Contract!Decide
  <2>6. CASE UNCHANGED <<in, in_ok, inv_bias, stored_current, cmpr_out,
                         cmp_wait # Off>>
    BY <2>6 DEF Contract!vars, Clip, Abs, InvBiasOk
  <2>7. ASSUME NEW v, DriveComplete(v) \/ DriveVdd(v)
        PROVE  UNCHANGED <<in, in_ok, inv_bias, stored_current, cmpr_out,
                           cmp_wait # Off>>
    BY <2>7 DEF DriveComplete, DriveVdd
  <2>8. ASSUME NEW d \in 1..MaxAdvance, Advance(d)
        PROVE  UNCHANGED <<in, in_ok, inv_bias, stored_current, cmpr_out,
                           cmp_wait # Off>>
    <3>1. (cmp_wait # Off)' = (cmp_wait # Off)
      BY <2>8 DEF Advance, Waits, Left, TypeOK, Off, ParamAssumption
    <3>. QED  BY <2>8, <3>1 DEF Advance
  <2>9. CASE UNCHANGED vars
    BY <2>6, <2>9 DEF vars
  <2>. QED
    BY <2>1, <2>2, <2>3, <2>4, <2>5, <2>6, <2>7, <2>8, <2>9
       DEF Next, Elapse, Contract!Next
<1>. QED
  BY <1>1, <1>2, TypeCorrect, InputTracked, PTL
     DEF Spec, ImplementsContract, Contract!Spec

=============================================================================
