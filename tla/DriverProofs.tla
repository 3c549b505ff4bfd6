---------------------------- MODULE DriverProofs ----------------------------
(***************************************************************************)
(* For every test and every item the constraints allow: no item is played  *)
(* longer than its time.  The control thread may have computed a delay     *)
(* that wraps to milliseconds; what ends the item is join_any and an       *)
(* analog thread, so the invariant is about those: the time an item has    *)
(* taken and what an analog thread has left are its play time.             *)
(***************************************************************************)
EXTENDS Driver, TLAPS

InStage == stage \in 1..Len(Stages)

PlayTimeLeft ==
  phase = "item" =>
    /\ req.delay \in Nat /\ age \in Nat
    /\ \A p \in AnalogPins :
         /\ ends[p] \in Nat
         /\ age + ends[p] = PlayTime(req.delay, Wave(p))

\* The delays of the other threads are times, too: otherwise the clock could
\* be moved by something else.
WaitsAreTimes ==
  /\ wait \in Nat
  /\ \A pl \in pulses : pl.wait \in Nat /\ pl.duration \in Nat

ItemInForce ==
  phase = "item" =>
    /\ req.state \in States /\ pc \in Nat \ {0}
    /\ req.delay \in Nat
    /\ req.invert_to_sample \in Nat /\ req.short_to_invert \in Nat

IInv == /\ InStage /\ tracker \in States
        /\ PlayTimeLeft /\ WaitsAreTimes /\ ItemInForce

\* A step of the stimulus; its clock may also stop before one of its threads
\* wakes, where something else does.
FreeNext == Next \/ \E d \in Nat : Advance(d)

\* Whole steps of a wave never fill more than the time they were cut from.
LEMMA WholeSteps ==
  ASSUME NEW n \in Nat, NEW s \in Nat \ {0}
  PROVE  (n \div s) * s \in Nat /\ (n \div s) * s <= n
OBVIOUS

\* Every wave of a stage has a step, so that playing it takes time.
LEMMA WaveStep ==
  ASSUME StageAssumption, InStage, NEW p \in AnalogPins
  PROVE  Wave(p).step \in Nat \ {0}
<1>1. Stages \in Seq(Stage) /\ stage \in 1..Len(Stages)
  BY DEF StageAssumption, InStage
<1>2. Stages[stage] \in Stage
  BY <1>1
<1>3. Stages[stage].wave \in [AnalogPins -> WaveConfig]
  BY <1>2 DEF Stage
<1>4. Stages[stage].wave[p] \in WaveConfig
  BY <1>3
<1>. QED  BY <1>4 DEF Wave, WaveConfig

\* A wave is not played for longer than the delay of its item.
LEMMA PlayTimeBounded ==
  ASSUME StageAssumption, InStage, NEW p \in AnalogPins, NEW delay \in Nat
  PROVE  /\ PlayTime(delay, Wave(p)) \in Nat
         /\ PlayTime(delay, Wave(p)) <= delay
<1>1. Wave(p).step \in Nat \ {0}
  BY WaveStep
<1>. DEFINE s == Wave(p).step
<1>2. CASE delay < Wrap \div 2
  <2>1. PlayTime(delay, Wave(p)) = (delay \div s) * s
    BY <1>2 DEF PlayTime, NumSamples
  <2>. HIDE DEF s
  <2>. QED  BY <1>1, <2>1, WholeSteps DEF s
<1>3. CASE ~(delay < Wrap \div 2)
  BY <1>1, <1>3 DEF PlayTime, NumSamples
<1>. QED  BY <1>2, <1>3

\* Every delay of the control thread is a time: the remainder of the item may
\* wrap, it is never negative.
LEMMA ProgramWaits ==
  ASSUME StageAssumption, NEW it, NEW i \in Nat \ {0}, i <= Len(Program(it)),
         it.state \in States, it.delay \in Nat,
         it.invert_to_sample \in Nat, it.short_to_invert \in Nat
  PROVE  Program(it)[i].wait \in Nat
<1>1. Remainder(it) \in Nat
  <2>1. Wrap \in Nat \ {0} /\ Shortest \in Nat
    BY DEF StageAssumption
  <2>2. it.delay - it.invert_to_sample - it.short_to_invert \in Int
    OBVIOUS
  <2>3. (it.delay - it.invert_to_sample - it.short_to_invert) % Wrap \in Nat
    BY <2>1, <2>2
  <2>. QED  BY <2>1, <2>3 DEF Remainder
<1>2. \/ /\ Len(Program(it)) = 1
         /\ Program(it)[1].wait = Remainder(it)
      \/ /\ Len(Program(it)) = 2
         /\ Program(it)[1].wait \in {it.invert_to_sample, it.short_to_invert}
         /\ Program(it)[2].wait = Remainder(it)
  BY DEF Program, Statement, States
<1>. QED  BY <1>1, <1>2

\* What the constraints leave of an item: its delays and its next state.
LEMMA ItemsTyped ==
  ASSUME ItemAssumption, NEW s, NEW tr, NEW ti, NEW it \in Items(s, tr, ti)
  PROVE  /\ it.state = s /\ it.delay \in Nat
         /\ it.invert_to_sample \in Nat /\ it.short_to_invert \in Nat
         /\ it.pulse.delay \in Nat /\ it.pulse.duration \in Nat
         /\ it.next_state \in NextStates(s, tr)
<1>1. /\ it.state \in {s} /\ it.next_state \in NextStates(s, tr)
      /\ it.delay \in Delays
      /\ it.invert_to_sample \in Setups /\ it.short_to_invert \in Setups
      /\ it.pulse \in Pulses
  BY DEF Items
<1>2. /\ Delays \subseteq Nat /\ Setups \subseteq Nat \ {0}
      /\ CompleteDelays \subseteq Nat /\ CompleteDurations \subseteq Nat
  BY DEF ItemAssumption
<1>3. it.pulse = NoPulse
        \/ it.pulse \in [delay : CompleteDelays, duration : CompleteDurations]
  BY <1>1 DEF Pulses
<1>4. it.pulse.delay \in Nat /\ it.pulse.duration \in Nat
  <2>1. CASE it.pulse = NoPulse
    BY <2>1 DEF NoPulse
  <2>2. CASE it.pulse \in [delay : CompleteDelays, duration : CompleteDurations]
    <3>1. it.pulse.delay \in CompleteDelays /\ it.pulse.duration \in CompleteDurations
      BY <2>2
    <3>. QED  BY <1>2, <3>1
  <2>. QED  BY <1>3, <2>1, <2>2
<1>. QED  BY <1>1, <1>2, <1>4

\* The next state of an item is a state.
LEMMA NextStatesTyped ==
  ASSUME NEW s \in States, NEW tr \in Controls
  PROVE  NextStates(s, tr) \subseteq States
<1>1. DOMAIN Successor = {"IDLE", "SAMPLE", "HOLD", "COMPARE"}
      /\ \A x \in DOMAIN Successor : Successor[x] \in States
  BY DEF Successor, States
<1>. QED  BY <1>1 DEF NextStates, Controls, States

\* Every stage starts in a state, with a kind of transition.
LEMMA StagesTyped ==
  ASSUME StageAssumption, NEW i \in 1..Len(Stages)
  PROVE  Stages[i].start \in States /\ Stages[i].state_transition \in Controls
<1>1. Stages \in Seq(Stage)
  BY DEF StageAssumption
<1>2. Stages[i] \in Stage
  BY <1>1
<1>. QED  BY <1>2 DEF Stage

\* Every thread waits for a time from now that is a number.
LEMMA WaitsTyped ==
  ASSUME IInv PROVE Waits \subseteq Nat
<1>1. \A p \in AnalogPins : phase = "item" => ends[p] \in Nat
  BY DEF IInv, PlayTimeLeft
<1>. QED  BY <1>1 DEF Waits, IInv, WaitsAreTimes

-----------------------------------------------------------------------------
\* Steps that leave the item and the analog threads alone.
LEMMA PlayUntouched ==
  ASSUME IInv, UNCHANGED <<stage, phase, req, ends, age>>
  PROVE  InStage' /\ PlayTimeLeft'
BY DEF IInv, InStage, PlayTimeLeft, Wave, PlayTime, NumSamples

\* Every step of the driver keeps the inductive invariant.
LEMMA Inductive ==
  ASSUME ItemAssumption, StageAssumption, IInv, [FreeNext]_vars
  PROVE  IInv'
<1>1. ASSUME NEW it \in Items(tracker, Stages[stage].state_transition,
                              Stages[stage].timing),
             TakeItem(it)
      PROVE  IInv'
  <2>1. /\ it.state = tracker /\ it.delay \in Nat
        /\ it.invert_to_sample \in Nat /\ it.short_to_invert \in Nat
        /\ it.pulse.delay \in Nat /\ it.pulse.duration \in Nat
        /\ it.next_state \in NextStates(tracker, Stages[stage].state_transition)
    BY ItemsTyped
  <2>0. tracker \in States /\ it.next_state \in States
    BY <2>1, StagesTyped, NextStatesTyped DEF IInv, InStage
  <2>2. /\ stage' = stage /\ req' = it /\ tracker' = it.next_state /\ age' = 0 /\ wait' = 0 /\ pc' = 1
        /\ ends' = [p \in AnalogPins |-> PlayTime(it.delay, Wave(p))]
        /\ pulses' = IF it.pulse = NoPulse THEN pulses
                     ELSE pulses \cup {[wait |-> it.pulse.delay, high |-> FALSE,
                                        duration |-> it.pulse.duration]}
    BY <1>1 DEF TakeItem
  <2>3. InStage'
    BY <2>2 DEF IInv, InStage
  <2>4. ASSUME NEW p \in AnalogPins
        PROVE  /\ ends'[p] \in Nat
               /\ age' + ends'[p] = PlayTime(req.delay, Wave(p))'
    <3>1. ends'[p] = PlayTime(it.delay, Wave(p))
      BY <2>2
    <3>2. PlayTime(it.delay, Wave(p)) \in Nat
      BY <2>1, PlayTimeBounded DEF IInv
    <3>3. PlayTime(req.delay, Wave(p))' = PlayTime(it.delay, Wave(p))
      BY <2>2 DEF PlayTime, NumSamples, Wave
    <3>. QED  BY <2>2, <3>1, <3>2, <3>3
  <2>5. PlayTimeLeft'
    BY <2>1, <2>2, <2>4 DEF PlayTimeLeft
  <2>6. WaitsAreTimes'
    BY <2>1, <2>2 DEF IInv, WaitsAreTimes
  <2>7. ItemInForce'
    BY <2>0, <2>1, <2>2 DEF ItemInForce
  <2>. QED  BY <2>0, <2>2, <2>3, <2>5, <2>6, <2>7 DEF IInv
<1>2. ASSUME ControlStep PROVE IInv'
  <2>1. /\ phase = "item" /\ pc <= Len(Program(req)) /\ pc' = pc + 1
        /\ wait' = Program(req)[pc].wait
        /\ UNCHANGED <<stage, tracker, phase, req, ends, age, pulses>>
    BY <1>2 DEF ControlStep, sequence
  <2>2. /\ req.state \in States /\ pc \in Nat \ {0}
        /\ req.delay \in Nat
        /\ req.invert_to_sample \in Nat /\ req.short_to_invert \in Nat
    BY <2>1 DEF IInv, ItemInForce
  <2>3. wait' \in Nat
    BY <2>1, <2>2, ProgramWaits
  <2>4. WaitsAreTimes' /\ ItemInForce'
    BY <2>1, <2>2, <2>3 DEF IInv, WaitsAreTimes, ItemInForce
  <2>. QED  BY <2>1, <2>4, PlayUntouched DEF IInv
<1>3. ASSUME PulseStep PROVE IInv'
  <2>1. UNCHANGED <<stage, tracker, phase, req, ends, age, wait, pc>>
    BY <1>3 DEF PulseStep, sequence, threads
  <2>2. PICK pl \in pulses : Rise(pl) \/ Fall(pl)
    BY <1>3 DEF PulseStep
  <2>3. pulses' \subseteq pulses
                  \cup {[wait |-> pl.duration, high |-> TRUE, duration |-> 0]}
    BY <2>2 DEF Rise, Fall
  <2>4. WaitsAreTimes'
    BY <2>1, <2>2, <2>3 DEF IInv, WaitsAreTimes
  <2>. QED  BY <2>1, <2>4, PlayUntouched DEF IInv, ItemInForce
<1>4. ASSUME NextStage PROVE IInv'
  <2>1. /\ phase' # "item" /\ UNCHANGED pulses
        /\ wait' \in {wait, DrainTime}
        /\ \/ stage < Len(Stages) /\ stage' = stage + 1
              /\ tracker' = Stages[stage'].start
           \/ stage' = stage /\ tracker' = tracker
    BY <1>4 DEF NextStage, sequence
  <2>2. DrainTime \in Nat /\ Len(Stages) \in Nat
    BY DEF StageAssumption
  <2>3. stage' \in 1..Len(Stages)
    BY <2>1, <2>2 DEF IInv, InStage
  <2>4. tracker' \in States
    BY <2>1, <2>3, StagesTyped DEF IInv
  <2>. QED
    BY <2>1, <2>2, <2>3, <2>4 DEF IInv, InStage, PlayTimeLeft, WaitsAreTimes, ItemInForce
<1>5. ASSUME EndItem \/ EndTest PROVE IInv'
  <2>1. /\ phase' # "item" /\ UNCHANGED <<stage, tracker>>
        /\ wait' \in {0, wait} /\ pulses' \subseteq pulses
    BY <1>5 DEF EndItem, EndTest, sequence, threads
  <2>. QED  BY <2>1 DEF IInv, InStage, PlayTimeLeft, WaitsAreTimes, ItemInForce
<1>6. ASSUME NEW d \in Nat, Advance(d) PROVE IInv'
  <2>1. /\ phase \in {"item", "drain"}
        /\ d > 0 /\ \A w \in Waits : d <= w
        /\ wait' = wait - d
        /\ pulses' = {[pl EXCEPT !.wait = @ - d] : pl \in pulses}
        /\ UNCHANGED <<stage, tracker, phase, req, pc>>
    BY <1>6 DEF Advance, CanAdvance, sequence
  <2>2. wait \in Waits /\ \A pl \in pulses : pl.wait \in Waits
    BY <2>1 DEF Waits
  <2>4. WaitsAreTimes'
    <3>1. wait' \in Nat
      BY <2>1, <2>2 DEF IInv, WaitsAreTimes
    <3>2. ASSUME NEW q \in pulses'
          PROVE  q.wait \in Nat /\ q.duration \in Nat
      <4>1. PICK pl \in pulses : q = [pl EXCEPT !.wait = @ - d]
        BY <2>1
      <4>2. pl.wait \in Nat /\ pl.duration \in Nat /\ d <= pl.wait
        BY <2>1, <2>2 DEF IInv, WaitsAreTimes
      <4>. QED  BY <4>1, <4>2
    <3>. QED  BY <3>1, <3>2 DEF WaitsAreTimes
  <2>5. InStage' /\ ItemInForce'
    BY <2>1 DEF IInv, InStage, ItemInForce
  <2>6. CASE phase = "item"
    <3>1. ends' = [p \in AnalogPins |-> ends[p] - d] /\ age' = age + d
      BY <1>6, <2>6 DEF Advance
    <3>2. \A p \in AnalogPins : ends[p] \in Waits
      BY <2>6 DEF Waits
    <3>3. req.delay \in Nat /\ age \in Nat
      BY <2>6 DEF IInv, PlayTimeLeft
    <3>4. ASSUME NEW p \in AnalogPins
          PROVE  /\ ends'[p] \in Nat
                 /\ age' + ends'[p] = PlayTime(req.delay, Wave(p))'
      <4>1. ends'[p] = ends[p] - d /\ d <= ends[p] /\ ends[p] \in Nat
        BY <2>1, <2>6, <3>1, <3>2 DEF IInv, PlayTimeLeft
      <4>2. age + ends[p] = PlayTime(req.delay, Wave(p))
        BY <2>6 DEF IInv, PlayTimeLeft
      <4>3. PlayTime(req.delay, Wave(p))' = PlayTime(req.delay, Wave(p))
        BY <2>1 DEF PlayTime, NumSamples, Wave
      <4>4. ends'[p] \in Nat  BY <4>1
      <4>. DEFINE e == ends[p]
                  now == ends'[p]
      <4>5. now = e - d /\ e \in Nat  BY <4>1
      <4>6. age' = age + d  BY <3>1
      <4>7. age' + now = age + e
        <5>. HIDE DEF e, now
        <5>. QED  BY <3>3, <4>5, <4>6
      <4>. QED  BY <4>2, <4>3, <4>4, <4>7
    <3>5. PlayTimeLeft'
      BY <2>1, <3>1, <3>3, <3>4 DEF PlayTimeLeft
    <3>. QED  BY <2>1, <2>4, <2>5, <3>5 DEF IInv
  <2>7. CASE phase # "item"
    BY <2>1, <2>4, <2>5, <2>7 DEF IInv, PlayTimeLeft
  <2>. QED  BY <2>6, <2>7
<1>7. ASSUME UNCHANGED <<stage, tracker, phase, req, ends, age, wait, pc, pulses>>
      PROVE  IInv'
  BY <1>7, PlayUntouched DEF IInv, WaitsAreTimes, ItemInForce
<1>8. ASSUME NEW p \in AnalogPins, NEW v, BeginPlay(p) \/ Resample(p, v)
      PROVE  UNCHANGED <<stage, tracker, phase, req, ends, age, wait, pc, pulses>>
  BY <1>8 DEF BeginPlay, Resample, sequence, threads
<1>9. ASSUME Commit \/ CommitComplete \/ UNCHANGED vars
      PROVE  UNCHANGED <<stage, tracker, phase, req, ends, age, wait, pc, pulses>>
  BY <1>9 DEF Commit, CommitComplete, vars, sequence, threads
<1>. QED
  BY <1>1, <1>2, <1>3, <1>4, <1>5, <1>6, <1>7, <1>8, <1>9, WaitsTyped
     DEF FreeNext, Next, Progress, Elapse

\* It holds at the start.
LEMMA InitInvariant ==
  ASSUME StageAssumption PROVE Init => IInv
<1>1. Len(Stages) \in Nat /\ Len(Stages) > 0
  BY DEF StageAssumption
<1>2. 1 \in 1..Len(Stages)
  BY <1>1
<1>3. Stages[1].start \in States
  BY <1>2, StagesTyped
<1>. QED
  BY <1>2, <1>3 DEF Init, IInv, InStage, PlayTimeLeft, WaitsAreTimes, ItemInForce

\* However the unsigned remainder of the control thread wraps, the item is
\* over, through join_any and a wave that has been played, by its own delay.
THEOREM NeverOverruns == Spec => []ItemNeverOverruns
<1>. USE ItemAssumption, StageAssumption
<1>1. Init => IInv
  BY InitInvariant
<1>2. IInv => ItemNeverOverruns
  <2>. SUFFICES ASSUME IInv, phase = "item" PROVE age <= req.delay
    BY DEF ItemNeverOverruns
  <2>1. "vdd" \in AnalogPins
    BY DEF AnalogPins
  <2>2. /\ req.delay \in Nat /\ age \in Nat /\ ends["vdd"] \in Nat
        /\ age + ends["vdd"] = PlayTime(req.delay, Wave("vdd"))
    BY <2>1 DEF IInv, PlayTimeLeft
  <2>3. PlayTime(req.delay, Wave("vdd")) <= req.delay
    BY <2>1, <2>2, PlayTimeBounded DEF IInv
  <2>. DEFINE t == PlayTime(req.delay, Wave("vdd"))
              e == ends["vdd"]
  <2>4. age \in Nat /\ e \in Nat /\ req.delay \in Nat /\ age + e = t /\ t <= req.delay
    BY <2>2, <2>3
  <2>. HIDE DEF t, e
  <2>. QED  BY <2>4
<1>. QED  BY <1>1, <1>2, Inductive, PTL DEF Spec, FreeNext

-----------------------------------------------------------------------------
(* The variables stay in their ranges. *)

GlitchInForce == phase = "item" /\ req.state = "GLITCH" => req.glitch \in GlitchVectors

TInv == TypeOK /\ IInv /\ GlitchInForce

\* The control thread writes control pins, and no more than twice.
LEMMA ProgramWrites ==
  ASSUME ItemAssumption, NEW it, NEW i \in Nat \ {0}, i <= Len(Program(it)), it.state \in States,
         it.state = "GLITCH" => it.glitch \in GlitchVectors
  PROVE  /\ i <= 2
         /\ DOMAIN Program(it)[i].writes \subseteq ControlPins
         /\ \A p \in DOMAIN Program(it)[i].writes : Program(it)[i].writes[p] \in Bit
<1>1. CASE it.state = "SAMPLE"
  BY <1>1 DEF Program, Statement, ControlPins, Bit
<1>2. CASE it.state = "HOLD"
  BY <1>2 DEF Program, Statement, ControlPins, Bit
<1>3. CASE it.state = "COMPARE"
  BY <1>3 DEF Program, Statement, ControlPins, Bit
<1>4. CASE it.state = "IDLE"
  BY <1>4 DEF Program, Statement, ControlPins, Bit
<1>5. CASE it.state = "GLITCH"
  <2>1. it.glitch.clk \in Bit /\ it.glitch.inv \in Bit /\ it.glitch.sh \in Bit
    BY <1>5 DEF ItemAssumption
  <2> QED BY <1>5, <2>1 DEF Program, Statement, ControlPins
<1> QED BY <1>1, <1>2, <1>3, <1>4, <1>5 DEF States

\* The levels of a wave are numbers.
LEMMA WaveLevels ==
  ASSUME StageAssumption, InStage, NEW p \in AnalogPins
  PROVE  Wave(p).levels \subseteq Int
<1>1. Stages \in Seq(Stage) /\ stage \in 1..Len(Stages)
  BY DEF StageAssumption, InStage
<1>2. Stages[stage] \in Stage
  BY <1>1
<1>3. Stages[stage].wave \in [AnalogPins -> WaveConfig]
  BY <1>2 DEF Stage
<1>4. Stages[stage].wave[p] \in WaveConfig
  BY <1>3
<1> QED BY <1>4 DEF Wave, WaveConfig

\* A stage has a number of items.
LEMMA StageItems ==
  ASSUME StageAssumption, NEW i \in 1..Len(Stages)
  PROVE  Stages[i].num \in Nat
<1>1. Stages \in Seq(Stage)
  BY DEF StageAssumption
<1>2. Stages[i] \in Stage
  BY <1>1
<1> QED BY <1>2 DEF Stage

\* Every step keeps the types, and the glitch of an item one of those there are.
LEMMA TypesInductive ==
  ASSUME ItemAssumption, StageAssumption, TInv, [FreeNext]_vars
  PROVE  TypeOK' /\ GlitchInForce'
<1> USE DEF TInv
<1>0. IInv'
  BY Inductive
<1>1. ASSUME NEW it \in Items(tracker, Stages[stage].state_transition,
                              Stages[stage].timing),
             TakeItem(it)
      PROVE  TypeOK' /\ GlitchInForce'
  <2>1. /\ req' = it /\ phase' = "item" /\ left > 0 /\ left' = left - 1 /\ pc' = 1 /\ wait' = 0
        /\ age' = 0 /\ forked' = AnalogPins
        /\ ends' = [p \in AnalogPins |-> PlayTime(it.delay, Wave(p))]
        /\ UNCHANGED <<stage, nba, cpl_nba, pin, am_complete, analog>>
    BY <1>1 DEF TakeItem
  <2>2. /\ it.delay \in Nat /\ it.state = tracker
    BY ItemsTyped
  <2>3. it.state = "GLITCH" => it.glitch \in GlitchVectors
    <3>1. it.glitch \in Glitches(tracker)
      BY DEF Items
    <3> QED BY <2>2, <3>1 DEF Glitches
  <2>4. ends' \in [AnalogPins -> Nat]
    <3>1. \A p \in AnalogPins : PlayTime(it.delay, Wave(p)) \in Nat
      BY <2>2, PlayTimeBounded DEF IInv
    <3> QED BY <2>1, <3>1
  <2>5. \A pl \in pulses' : pl.high \in BOOLEAN
    <3>1. pulses' \subseteq pulses \cup {[wait |-> it.pulse.delay, high |-> FALSE,
                                          duration |-> it.pulse.duration]}
      BY <1>1 DEF TakeItem
    <3>2. \A q \in pulses : q.high \in BOOLEAN
      BY DEF TypeOK
    <3> DEFINE new == [wait |-> it.pulse.delay, high |-> FALSE, duration |-> it.pulse.duration]
    <3>3. new.high \in BOOLEAN
      OBVIOUS
    <3>4. pulses' \subseteq pulses \cup {new}
      BY <3>1
    <3> HIDE DEF new
    <3> QED BY <3>2, <3>3, <3>4
  <2>6. TypeOK'
    BY <1>0, <2>1, <2>4, <2>5 DEF TypeOK, IInv, InStage, WaitsAreTimes
  <2> QED BY <2>1, <2>3, <2>6 DEF GlitchInForce
<1>2. ASSUME ControlStep PROVE TypeOK' /\ GlitchInForce'
  <2> DEFINE next == Program(req)[pc].writes
  <2>1. /\ phase = "item" /\ pc <= Len(Program(req)) /\ pc' = pc + 1
        /\ nba' = Merged(next, nba)
        /\ cpl_nba' = IF req.state = "GLITCH" THEN req.glitch.cpl ELSE cpl_nba
        /\ UNCHANGED <<stage, left, tracker, phase, req, forked, ends, pulses, pin, am_complete,
                       analog, age>>
    BY <1>2 DEF ControlStep, sequence
  <2>2. req.state \in States /\ pc \in Nat \ {0}
    BY <2>1 DEF IInv, ItemInForce
  <2>3. pc <= 2 /\ DOMAIN next \subseteq ControlPins /\ \A p \in DOMAIN next : next[p] \in Bit
    BY <2>1, <2>2, ProgramWrites DEF GlitchInForce
  <2>4. DOMAIN nba' \subseteq ControlPins /\ \A p \in DOMAIN nba' : nba'[p] \in Bit
    <3> HIDE DEF next
    <3> QED BY <2>1, <2>3 DEF TypeOK, Merged
  <2>5. cpl_nba' \in Bit \cup {"none"}
    <3>1. req.state = "GLITCH" => req.glitch.cpl \in Bit
      BY <2>1 DEF GlitchInForce, ItemAssumption
    <3> QED BY <2>1, <3>1 DEF TypeOK
  <2>6. TypeOK'
    <3>1. pc' \in 1..3
      <4>1. pc' = pc + 1 /\ pc \in Nat \ {0} /\ pc <= 2
        BY <2>1, <2>2, <2>3
      <4> QED BY <4>1
    <3> QED BY <1>0, <2>1, <2>4, <2>5, <3>1 DEF TypeOK, IInv, InStage, WaitsAreTimes
  <2> QED BY <2>1, <2>6 DEF GlitchInForce
<1>3. ASSUME NEW p \in AnalogPins, NEW v \in Wave(p).levels,
             Resample(p, v)
      PROVE  TypeOK' /\ GlitchInForce'
  <2>1. /\ UNCHANGED <<sequence, phase, req, pc, wait, ends, pulses, nba, cpl_nba, pin,
                       am_complete, age>>
        /\ forked' \subseteq forked
    BY <1>3 DEF Resample, threads
  <2>2. Wave(p).levels \subseteq Int
    BY WaveLevels DEF IInv
  <2>3. analog' \in [AnalogPins -> Int]
    BY <1>3, <2>2 DEF Resample, TypeOK
  <2> QED BY <2>1, <2>3 DEF TypeOK, GlitchInForce, sequence
<1>4. ASSUME PulseStep PROVE TypeOK' /\ GlitchInForce'
  <2>1. UNCHANGED <<sequence, phase, req, threads, nba, pin, am_complete, analog, age>>
    BY <1>4 DEF PulseStep
  <2>2. PICK pl \in pulses : Rise(pl) \/ Fall(pl)
    BY <1>4 DEF PulseStep
  <2>3. \A q \in pulses' : q.high \in BOOLEAN
    <3>1. pulses' \subseteq pulses \cup {[wait |-> pl.duration, high |-> TRUE, duration |-> 0]}
      BY <2>2 DEF Rise, Fall
    <3>2. \A q \in pulses : q.high \in BOOLEAN
      BY DEF TypeOK
    <3> DEFINE new == [wait |-> pl.duration, high |-> TRUE, duration |-> 0]
    <3>3. new.high \in BOOLEAN
      OBVIOUS
    <3>4. pulses' \subseteq pulses \cup {new}
      BY <3>1
    <3> HIDE DEF new
    <3> QED BY <3>2, <3>3, <3>4
  <2>4. cpl_nba' \in Bit
    BY <2>2 DEF Rise, Fall, Bit
  <2> QED BY <1>0, <2>1, <2>3, <2>4
      DEF TypeOK, GlitchInForce, sequence, threads, IInv, WaitsAreTimes
<1>5. ASSUME EndItem \/ EndTest PROVE TypeOK' /\ GlitchInForce'
  <2>1. /\ UNCHANGED <<sequence, req, nba, cpl_nba, pin, am_complete, analog>>
        /\ phase' \in {"get_next_item", "over"}
        /\ pc' \in {1, pc} /\ wait' \in {0, wait} /\ age' \in {0, age}
        /\ forked' \subseteq forked /\ ends' \in {[p \in AnalogPins |-> 0], ends}
        /\ pulses' \subseteq pulses
    BY <1>5 DEF EndItem, EndTest, threads
  <2>2. ends' \in [AnalogPins -> Nat]
    BY <2>1 DEF TypeOK
  <2>3. pc' \in 1..3
    BY <2>1 DEF TypeOK
  <2> QED BY <1>0, <2>1, <2>2, <2>3 DEF TypeOK, GlitchInForce, sequence, IInv, WaitsAreTimes
<1>6. ASSUME NextStage PROVE TypeOK' /\ GlitchInForce'
  <2>1. /\ UNCHANGED <<req, pc, forked, ends, pulses, nba, cpl_nba, pin, am_complete, analog, age>>
        /\ phase' \in {"get_next_item", "drain"}
        /\ left' \in {left, Stages[stage'].num}
    BY <1>6 DEF NextStage, sequence
  <2>2. Stages[stage'].num \in Nat
    BY <1>0, StageItems DEF IInv, InStage
  <2>3. left' \in Nat
    BY <2>1, <2>2 DEF TypeOK
  <2> QED BY <1>0, <2>1, <2>3 DEF TypeOK, GlitchInForce, IInv, InStage, WaitsAreTimes
<1>7. ASSUME NEW d \in Nat, Advance(d) PROVE TypeOK' /\ GlitchInForce'
  <2>1. /\ UNCHANGED <<sequence, phase, req, pc, forked, nba, cpl_nba, pin, am_complete, analog>>
        /\ ends' = IF phase = "item" THEN [p \in AnalogPins |-> ends[p] - d] ELSE ends
        /\ age' = IF phase = "item" THEN age + d ELSE age
        /\ pulses' = {[pl EXCEPT !.wait = @ - d] : pl \in pulses}
        /\ \A w \in Waits : d <= w
    BY <1>7 DEF Advance
  <2>3. ends' \in [AnalogPins -> Nat]
    <3>1. CASE phase = "item"
      <4>1. \A p \in AnalogPins : ends[p] \in Nat /\ d <= ends[p]
        <5>1. \A p \in AnalogPins : ends[p] \in Nat
          BY DEF TypeOK
        <5>2. \A p \in AnalogPins : ends[p] \in Waits
          BY <3>1 DEF Waits
        <5> QED BY <2>1, <5>1, <5>2
      <4>2. \A p \in AnalogPins : ends[p] - d \in Nat
        BY <4>1
      <4> QED BY <2>1, <3>1, <4>2
    <3>2. CASE phase # "item"
      BY <2>1, <3>2 DEF TypeOK
    <3> QED BY <3>1, <3>2
  <2>4. \A q \in pulses' : q.high \in BOOLEAN
    <3> SUFFICES ASSUME NEW q \in pulses' PROVE q.high \in BOOLEAN
      OBVIOUS
    <3>1. PICK pl \in pulses : q = [pl EXCEPT !.wait = @ - d]
      BY <2>1
    <3>2. q.high = pl.high
      BY <3>1
    <3> QED BY <3>2 DEF TypeOK
  <2>5. age' \in Nat
    <3>1. age \in Nat /\ age' \in {age, age + d}
      BY <2>1 DEF TypeOK
    <3> QED BY <3>1
  <2> QED BY <1>0, <2>1, <2>3, <2>4, <2>5
      DEF TypeOK, GlitchInForce, sequence, IInv, InStage, WaitsAreTimes
<1>8. ASSUME Commit PROVE TypeOK' /\ GlitchInForce'
  <2>1. /\ UNCHANGED <<sequence, phase, req, threads, pulses, cpl_nba, am_complete, analog, age>>
        /\ pin' = Merged(nba, pin) /\ nba' = NoWrites
    BY <1>8 DEF Commit
  <2>2. pin' \in [ControlPins -> Bit \cup {"X"}]
    BY <2>1 DEF Merged, TypeOK
  <2>3. DOMAIN nba' = {}
    BY <2>1 DEF NoWrites
  <2> QED BY <2>1, <2>2, <2>3 DEF TypeOK, GlitchInForce, sequence, threads
<1>9. ASSUME CommitComplete PROVE TypeOK' /\ GlitchInForce'
  BY <1>9 DEF CommitComplete, TypeOK, GlitchInForce, sequence, threads
<1>10. ASSUME UNCHANGED vars PROVE TypeOK' /\ GlitchInForce'
  BY <1>10 DEF TypeOK, GlitchInForce, vars, sequence, threads
<1>11. ASSUME NEW p \in AnalogPins, BeginPlay(p) PROVE TypeOK' /\ GlitchInForce'
  <2>1. /\ UNCHANGED <<sequence, phase, req, pc, wait, ends, pulses, nba, cpl_nba, pin,
                       am_complete, age>>
        /\ forked' \subseteq forked
    BY <1>11 DEF BeginPlay
  <2>2. Wave(p).levels \subseteq Int
    BY WaveLevels DEF IInv
  <2>3. analog' \in [AnalogPins -> Int]
    BY <1>11, <2>2 DEF BeginPlay, TypeOK
  <2> QED BY <2>1, <2>3 DEF TypeOK, GlitchInForce, sequence
<1> QED
  BY <1>1, <1>2, <1>3, <1>4, <1>5, <1>6, <1>7, <1>8, <1>9, <1>10, <1>11, WaitsTyped
     DEF FreeNext, Next, Progress, Elapse

\* They hold at the start.
LEMMA InitTypes ==
  ASSUME StageAssumption PROVE Init => TInv
<1> SUFFICES ASSUME Init PROVE TInv
  OBVIOUS
<1>1. IInv
  BY InitInvariant
<1>2. Stages[1].num \in Nat
  BY <1>1, StageItems DEF Init, IInv, InStage
<1>3. DOMAIN nba = {}
  BY DEF Init, NoWrites
<1>4. TypeOK
  BY <1>1, <1>2, <1>3 DEF Init, TypeOK, IInv, InStage, Bit
<1> QED BY <1>1, <1>4 DEF TInv, GlitchInForce, Init

\* Every variable of the stimulus stays in its range, for every test and every
\* item: no wait is negative, although the remainder wraps, and the control pins
\* are only written "0" or "1".
THEOREM DriverTypeCorrect == Spec => []TypeOK
<1>. USE ItemAssumption, StageAssumption
<1>1. Init => TInv
  BY InitTypes
<1>2. TInv /\ [Next]_vars => TInv'
  BY Inductive, TypesInductive DEF TInv, FreeNext
<1>3. TInv => TypeOK
  BY DEF TInv
<1>. QED  BY <1>1, <1>2, <1>3, PTL DEF Spec

-----------------------------------------------------------------------------
(* Pulses. *)

\* No glitch raises am_complete by itself, or there are none.
SilentVectors == \A g \in GlitchVectors : g.cpl = "0"
CorrectStages ==
  \A i \in 1..Len(Stages) :
    Stages[i].start \in DOMAIN Successor /\ Stages[i].state_transition = "CORRECT"
QuietGlitches == SilentVectors \/ CorrectStages

QuietItem ==
  \/ SilentVectors
  \/ /\ CorrectStages /\ tracker \in DOMAIN Successor
     /\ phase = "item" => req.state \in DOMAIN Successor

\* Every step keeps to glitches without am_complete, or to items without a glitch.
LEMMA QuietInductive ==
  ASSUME StageAssumption, IInv, QuietItem, [FreeNext]_vars
  PROVE  QuietItem'
<1>1. CASE SilentVectors
  BY <1>1 DEF QuietItem
<1>2. CASE /\ CorrectStages /\ tracker \in DOMAIN Successor
           /\ phase = "item" => req.state \in DOMAIN Successor
  <2>1. ASSUME NEW it \in Items(tracker, Stages[stage].state_transition, Stages[stage].timing),
               TakeItem(it)
        PROVE  QuietItem'
    <3>1. it.state \in {tracker} /\ it.next_state \in NextStates(tracker, "CORRECT")
      BY <1>2 DEF Items, CorrectStages, IInv, InStage
    <3>2. it.next_state \in DOMAIN Successor
      BY <1>2, <3>1 DEF NextStates, Successor
    <3> QED BY <1>2, <2>1, <3>1, <3>2 DEF TakeItem, QuietItem
  <2>2. ASSUME NextStage PROVE QuietItem'
    <3>1. phase' # "item" /\ (tracker' = tracker \/ tracker' = Stages[stage'].start)
      BY <2>2 DEF NextStage, sequence
    <3>2. stage' \in 1..Len(Stages)
      BY <2>2 DEF NextStage, sequence, IInv, InStage
    <3> QED BY <1>2, <3>1, <3>2 DEF QuietItem, CorrectStages
  <2>3. ASSUME EndItem \/ EndTest PROVE QuietItem'
    BY <1>2, <2>3 DEF EndItem, EndTest, sequence, QuietItem
  <2>4. ASSUME UNCHANGED <<tracker, phase, req>> PROVE QuietItem'
    BY <1>2, <2>4 DEF QuietItem
  <2>5. ASSUME NEW p, NEW v, BeginPlay(p) \/ Resample(p, v) PROVE UNCHANGED <<tracker, phase, req>>
    BY <2>5 DEF BeginPlay, Resample, sequence
  <2>6. ASSUME NEW d, Advance(d) PROVE UNCHANGED <<tracker, phase, req>>
    BY <2>6 DEF Advance, sequence
  <2>7. ASSUME ControlStep \/ PulseStep \/ Commit \/ CommitComplete \/ UNCHANGED vars
        PROVE  UNCHANGED <<tracker, phase, req>>
    BY <2>7 DEF ControlStep, PulseStep, Commit, CommitComplete, vars, sequence
  <2> QED BY <2>1, <2>2, <2>3, <2>4, <2>5, <2>6, <2>7 DEF FreeNext, Next, Progress, Elapse
<1> QED BY <1>1, <1>2 DEF QuietItem

\* While am_complete is up, or about to be, a pulse is.
PulseUp ==
  phase # "over" /\ (cpl_nba = "1" \/ (am_complete = "1" /\ cpl_nba = "none"))
    => \E pl \in pulses : pl.high

\* Every step leaves a pulse up while am_complete is, or is about to be.
LEMMA PulseInductive ==
  ASSUME GlitchInForce, QuietItem, PulseUp, [FreeNext]_vars
  PROVE  PulseUp'
<1>1. ASSUME NEW it, TakeItem(it) PROVE PulseUp'
  BY <1>1 DEF TakeItem, PulseUp
<1>2. ASSUME ControlStep PROVE PulseUp'
  <2>1. /\ phase = "item" /\ UNCHANGED <<phase, pulses, am_complete>>
        /\ cpl_nba' = IF req.state = "GLITCH" THEN req.glitch.cpl ELSE cpl_nba
    BY <1>2 DEF ControlStep
  <2>2. req.state = "GLITCH" => cpl_nba' = "0"
    BY <2>1 DEF GlitchInForce, QuietItem, SilentVectors, Successor
  <2> QED BY <2>1, <2>2 DEF PulseUp
<1>3. ASSUME PulseStep PROVE PulseUp'
  <2>1. PICK pl \in pulses : Rise(pl) \/ Fall(pl)
    BY <1>3 DEF PulseStep
  <2>2. CASE Rise(pl)
    <3> DEFINE up == [wait |-> pl.duration, high |-> TRUE, duration |-> 0]
    <3>1. up \in pulses' /\ up.high
      BY <2>2 DEF Rise
    <3> QED BY <3>1 DEF PulseUp
  <2>3. CASE Fall(pl)
    BY <2>3 DEF Fall, PulseUp
  <2> QED BY <2>1, <2>2, <2>3
<1>4. ASSUME EndItem \/ NextStage PROVE PulseUp'
  <2>1. UNCHANGED <<pulses, cpl_nba, am_complete>> /\ phase # "over"
    BY <1>4 DEF EndItem, NextStage
  <2> QED BY <2>1 DEF PulseUp
<1>5. ASSUME EndTest PROVE PulseUp'
  BY <1>5 DEF EndTest, PulseUp
<1>6. ASSUME NEW d, Advance(d) PROVE PulseUp'
  <2>1. /\ pulses' = {[pl EXCEPT !.wait = @ - d] : pl \in pulses}
        /\ UNCHANGED <<phase, cpl_nba, am_complete>>
    BY <1>6 DEF Advance
  <2>2. ASSUME NEW pl \in pulses, pl.high PROVE \E q \in pulses' : q.high
    <3>1. [pl EXCEPT !.wait = @ - d] \in pulses' /\ [pl EXCEPT !.wait = @ - d].high = pl.high
      BY <2>1
    <3> QED BY <2>2, <3>1
  <2> QED BY <2>1, <2>2 DEF PulseUp
<1>7. ASSUME CommitComplete PROVE PulseUp'
  BY <1>7 DEF CommitComplete, PulseUp
<1>8. ASSUME UNCHANGED <<phase, pulses, cpl_nba, am_complete>> PROVE PulseUp'
  BY <1>8 DEF PulseUp
<1>9. ASSUME NEW p, NEW v, BeginPlay(p) \/ Resample(p, v)
      PROVE  UNCHANGED <<phase, pulses, cpl_nba, am_complete>>
  BY <1>9 DEF BeginPlay, Resample
<1>10. ASSUME Commit \/ UNCHANGED vars
       PROVE  UNCHANGED <<phase, pulses, cpl_nba, am_complete>>
  BY <1>10 DEF Commit, vars
<1> QED
  BY <1>1, <1>2, <1>3, <1>4, <1>5, <1>6, <1>7, <1>8, <1>9, <1>10 DEF FreeNext, Next, Progress, Elapse

\* Unless a glitch raises it, am_complete is up only while a pulse thread lives
\* that will lower it, however many overlap and whichever item has ended.
THEOREM CompleteKept == ASSUME QuietGlitches PROVE Spec => []CompleteOnlyInPulse
<1>. USE ItemAssumption, StageAssumption
<1>1. Init => TInv /\ QuietItem /\ PulseUp
  <2>1. Init => TInv
    BY InitTypes
  <2>2. Init => QuietItem
    <3>1. 1 \in 1..Len(Stages)
      BY DEF StageAssumption
    <3> QED BY <3>1 DEF QuietGlitches, QuietItem, CorrectStages, Init
  <2> QED BY <2>1, <2>2 DEF Init, PulseUp
<1>2. TInv /\ QuietItem /\ PulseUp /\ [Next]_vars => (TInv /\ QuietItem /\ PulseUp)'
  BY Inductive, TypesInductive, QuietInductive, PulseInductive DEF TInv, FreeNext
<1>3. PulseUp => CompleteOnlyInPulse
  BY DEF PulseUp, CompleteOnlyInPulse
<1>. QED  BY <1>1, <1>2, <1>3, PTL DEF Spec
-----------------------------------------------------------------------------
(* The stimulus implements SampleProtocol: while it is asked for correct   *)
(* transitions, stage by stage in whole cycles, and no wave runs out of    *)
(* samples before an item has made its writes, the control pins move in    *)
(* the order of a sampling cycle, whatever the delays and the number of    *)
(* items and stages.                                                       *)

Regular == {"IDLE", "SAMPLE", "HOLD", "COMPARE"}

-----------------------------------------------------------------------------
(* The pins within an item. *)

Last(s) == IF s = "SAMPLE" THEN 1 ELSE 2

\* The pins after n of the writes of an item.
At(s, n, c, i, h) ==
  \/ s = "IDLE" /\ n = 0 /\ <<c, i, h>> \in {<<"X", "X", "X">>, <<"0", "1", "0">>}
  \/ s = "IDLE" /\ n = 1 /\ <<c, i, h>> \in {<<"X", "0", "X">>, <<"0", "0", "0">>}
  \/ s = "IDLE" /\ n = 2 /\ <<c, i, h>> \in {<<"X", "0", "0">>, <<"0", "0", "0">>}
  \/ s = "SAMPLE" /\ n = 0 /\ <<c, i, h>> \in {<<"X", "0", "0">>, <<"0", "0", "0">>}
  \/ s = "SAMPLE" /\ n = 1 /\ <<c, i, h>> = <<"1", "1", "1">>
  \/ s = "HOLD" /\ n = 0 /\ <<c, i, h>> = <<"1", "1", "1">>
  \/ s = "HOLD" /\ n = 1 /\ <<c, i, h>> = <<"1", "0", "1">>
  \/ s = "HOLD" /\ n = 2 /\ <<c, i, h>> = <<"0", "0", "1">>
  \/ s = "COMPARE" /\ n = 0 /\ <<c, i, h>> = <<"0", "0", "1">>
  \/ s = "COMPARE" /\ n = 1 /\ <<c, i, h>> = <<"0", "0", "0">>
  \/ s = "COMPARE" /\ n = 2 /\ <<c, i, h>> = <<"0", "1", "0">>

\* What write n of an item does to the pins.
Moves(s, n, c, i, h, cc, ii, hh) ==
  \/ s = "IDLE" /\ n = 1 /\ cc = c /\ ii = "0" /\ hh = h
  \/ s = "IDLE" /\ n = 2 /\ cc = c /\ ii = i /\ hh = "0"
  \/ s = "SAMPLE" /\ n = 1 /\ cc = "1" /\ ii = "1" /\ hh = "1"
  \/ s = "HOLD" /\ n = 1 /\ cc = c /\ ii = "0" /\ hh = h
  \/ s = "HOLD" /\ n = 2 /\ cc = "0" /\ ii = i /\ hh = h
  \/ s = "COMPARE" /\ n = 1 /\ cc = c /\ ii = i /\ hh = "0"
  \/ s = "COMPARE" /\ n = 2 /\ cc = c /\ ii = "1" /\ hh = h

\* The next write of a state leads from its n-th place to the next.
LEMMA MovesReach ==
  ASSUME NEW s, NEW n \in Nat, NEW c, NEW i, NEW h, NEW cc, NEW ii, NEW hh,
         At(s, n, c, i, h), Moves(s, n + 1, c, i, h, cc, ii, hh)
  PROVE  At(s, n + 1, cc, ii, hh)
BY DEF At, Moves

\* Where the control pins are when a state ends, its successor starts.
LEMMA ItemsConnect ==
  ASSUME NEW s \in Regular, NEW c, NEW i, NEW h, At(s, Last(s), c, i, h)
  PROVE  At(Successor[s], 0, c, i, h)
BY DEF At, Last, Successor, Regular

\* A pin as it will be when the pending writes have committed.
Driven(x) == IF x \in DOMAIN nba THEN nba[x] ELSE pin[x]

\* How many writes of the item in force have been made; none before the first
\* item, all of them after an item.
Written == IF phase = "item" THEN pc - 1
           ELSE IF tracker = req.state THEN 0 ELSE Last(req.state)

-----------------------------------------------------------------------------
(* The invariant. *)

Rest == [IDLE |-> 0, COMPARE |-> 1, HOLD |-> 2, SAMPLE |-> 3]

\* The sequence is where the items it has left say.
CycleKept ==
  /\ tracker \in Regular /\ req.state \in Regular
  /\ \/ tracker = Successor[req.state]
     \/ tracker = "IDLE" /\ req.state = "IDLE" /\ phase # "item"
  /\ stage < Len(Stages) => \E k \in Nat : left = 4 * k + Rest[tracker]

\* No analog thread ends before the writes have been made.
WavesLast ==
  phase = "item" =>
    /\ req.invert_to_sample \in Nat \ {0} /\ req.short_to_invert \in Nat \ {0}
    /\ pc \in 1..(Last(req.state) + 1)
    /\ \A p \in AnalogPins :
         /\ pc = 1 => ends[p] > req.invert_to_sample /\ ends[p] > req.short_to_invert
         /\ pc = 2 /\ req.state # "SAMPLE" => ends[p] > wait
    /\ pc = 1 => wait = 0

\* The pins are where the writes have brought them, or the last one is pending.
PinsFollow ==
  /\ At(req.state, Written, Driven("am_clk_sample"), Driven("am_invert"), Driven("am_short"))
  /\ \/ \A x \in ControlPins : Driven(x) = pin[x]
     \/ /\ Written \in Nat \ {0}
        /\ At(req.state, Written - 1, pin["am_clk_sample"], pin["am_invert"], pin["am_short"])
        /\ Moves(req.state, Written, pin["am_clk_sample"], pin["am_invert"], pin["am_short"],
                 Driven("am_clk_sample"), Driven("am_invert"), Driven("am_short"))
        /\ phase = "item" /\ Written < Last(req.state) => wait > 0

PInv == TInv /\ CycleKept /\ WavesLast /\ PinsFollow

\* A regular state makes as many writes as it has places.
LEMMA ProgramLength ==
  ASSUME NEW it, it.state \in Regular
  PROVE  Len(Program(it)) = Last(it.state)
BY DEF Program, Last, Regular

\* Every stage but the last takes the four states around a number of times.
LEMMA WholeCycles ==
  ASSUME StageAssumption, CorrectStimulus, NEW i \in 1..Len(Stages), i < Len(Stages)
  PROVE  \E k \in Nat : Stages[i].num = 4 * k
<1>1. Stages[i].num \in Nat /\ Stages[i].num % 4 = 0
  BY StageItems DEF CorrectStimulus
<1>2. \A n \in Nat : n % 4 = 0 => n \div 4 \in Nat /\ n = 4 * (n \div 4)
  OBVIOUS
<1> QED BY <1>1, <1>2

\* The start is at a place of the cycle, with nothing to write.
LEMMA InitProtocol == CorrectStimulus /\ StageAssumption /\ Init => CycleKept /\ WavesLast /\ PinsFollow
<1> SUFFICES ASSUME CorrectStimulus, StageAssumption, Init PROVE CycleKept /\ WavesLast /\ PinsFollow
  OBVIOUS
<1>1. 1 \in 1..Len(Stages)
  BY DEF StageAssumption
<1>2. /\ tracker = "IDLE" /\ req.state = "IDLE" /\ phase = "get_next_item"
      /\ stage < Len(Stages) => \E k \in Nat : left = 4 * k
  BY <1>1, WholeCycles DEF Init, Boot, CorrectStimulus
<1>3. CycleKept
  BY <1>2 DEF CycleKept, Regular, Rest
<1>4. DOMAIN nba = {} /\ \A x \in ControlPins : pin[x] = "X"
  BY DEF Init, NoWrites
<1>5. PinsFollow
  BY <1>2, <1>4 DEF PinsFollow, Written, Driven, At, ControlPins
<1> QED BY <1>2, <1>3, <1>5 DEF WavesLast

\* An item of correct stimulus goes to the next state of the cycle, and its
\* delays end before its waves do.
LEMMA CorrectItems ==
  ASSUME ItemAssumption, StageAssumption, CorrectStimulus, NEW i \in 1..Len(Stages), NEW s \in Regular,
         NEW it \in Items(s, Stages[i].state_transition, Stages[i].timing)
  PROVE  /\ it.state = s /\ it.next_state = Successor[s]
         /\ it.invert_to_sample \in Nat \ {0} /\ it.short_to_invert \in Nat \ {0}
         /\ \A p \in AnalogPins :
              /\ it.invert_to_sample < PlayTime(it.delay, Stages[i].wave[p])
              /\ it.short_to_invert < PlayTime(it.delay, Stages[i].wave[p])
<1>1. Stages[i].state_transition = "CORRECT"
  BY DEF CorrectStimulus
<1>0. s \in DOMAIN Successor
  BY DEF Successor, Regular
<1>2. /\ it.state \in {s} /\ it.next_state \in NextStates(s, "CORRECT")
      /\ it.delay \in {d \in Delays : Legal(d, s, Stages[i].timing)}
      /\ it.invert_to_sample \in Setups /\ it.short_to_invert \in Setups
  BY <1>1 DEF Items
<1>3. NextStates(s, "CORRECT") = {Successor[s]}
  BY DEF NextStates, Successor, Regular
<1>4. Setups \subseteq Nat \ {0}
  BY DEF ItemAssumption
<1> QED BY <1>0, <1>2, <1>3, <1>4 DEF CorrectStimulus

\* Every step stays in the cycle, keeps a wave past the control thread, and
\* writes what the control thread has set.
LEMMA ProtocolInductive ==
  ASSUME ItemAssumption, StageAssumption, CorrectStimulus, PInv, [FreeNext]_vars
  PROVE  CycleKept' /\ WavesLast' /\ PinsFollow'
<1> USE DEF PInv, TInv
<1>1. ASSUME NEW it \in Items(tracker, Stages[stage].state_transition, Stages[stage].timing),
             TakeItem(it)
      PROVE  CycleKept' /\ WavesLast' /\ PinsFollow'
  <2>1. /\ phase = "get_next_item" /\ left > 0 /\ nba = NoWrites
        /\ req' = it /\ tracker' = it.next_state /\ left' = left - 1 /\ phase' = "item"
        /\ pc' = 1 /\ wait' = 0
        /\ ends' = [p \in AnalogPins |-> PlayTime(it.delay, Wave(p))]
        /\ UNCHANGED <<stage, nba, pin>>
    BY <1>1 DEF TakeItem
  <2>2. /\ it.state = tracker /\ it.next_state = Successor[tracker]
        /\ it.invert_to_sample \in Nat \ {0} /\ it.short_to_invert \in Nat \ {0}
        /\ \A p \in AnalogPins : /\ it.invert_to_sample < PlayTime(it.delay, Wave(p))
                                 /\ it.short_to_invert < PlayTime(it.delay, Wave(p))
    BY CorrectItems DEF CycleKept, IInv, InStage, Wave
  <2>3. CycleKept'
    <3>2. tracker \in Regular /\ left \in Nat
      BY DEF CycleKept, TypeOK
    <3>3. tracker' \in Regular
      BY <2>1, <2>2, <3>2 DEF Successor, Regular
    <3>4. ASSUME NEW k \in Nat, left = 4 * k + Rest[tracker]
          PROVE  \E m \in Nat : left' = 4 * m + Rest[tracker']
      <4>1. CASE tracker = "IDLE"
        <5>1. Rest[tracker] = 0 /\ Rest[tracker'] = 3
          BY <2>1, <2>2, <4>1 DEF Rest, Successor
        <5>2. k - 1 \in Nat /\ left' = 4 * (k - 1) + 3
          BY <2>1, <3>4, <3>2, <5>1
        <5> QED BY <5>1, <5>2
      <4>2. CASE tracker # "IDLE"
        <5>1. Rest[tracker'] = Rest[tracker] - 1 /\ Rest[tracker] \in Nat
          BY <2>1, <2>2, <3>2, <4>2 DEF Rest, Successor, Regular
        <5> QED BY <2>1, <3>4, <5>1
      <4> QED BY <4>1, <4>2
    <3> QED BY <2>1, <2>2, <3>2, <3>3, <3>4 DEF CycleKept
  <2>4. WavesLast'
    <3>1. \A p \in AnalogPins : ends'[p] = PlayTime(it.delay, Wave(p))
      BY <2>1
    <3> QED BY <2>1, <2>2, <3>1 DEF WavesLast, Last
  <2>5. PinsFollow'
    <3>1. DOMAIN nba = {} /\ DOMAIN nba' = {}
      BY <2>1 DEF NoWrites
    <3>2. At(tracker, 0, pin["am_clk_sample"], pin["am_invert"], pin["am_short"])
      <4>1. At(req.state, Written, pin["am_clk_sample"], pin["am_invert"], pin["am_short"])
        BY <3>1 DEF PinsFollow, Driven
      <4>2. CASE tracker = req.state
        BY <2>1, <4>1, <4>2 DEF Written
      <4>3. CASE tracker # req.state
        <5>1. tracker = Successor[req.state] /\ Written = Last(req.state)
          BY <2>1, <4>3 DEF CycleKept, Written
        <5> QED BY <4>1, <5>1, ItemsConnect DEF CycleKept
      <4> QED BY <4>2, <4>3
    <3>3. Written' = 0 /\ req'.state = tracker
      BY <2>1, <2>2 DEF Written
    <3> QED BY <2>1, <3>1, <3>2, <3>3 DEF PinsFollow, Driven
  <2> QED BY <2>3, <2>4, <2>5
<1>2. ASSUME ControlStep PROVE CycleKept' /\ WavesLast' /\ PinsFollow'
  <2> DEFINE w == Program(req)[pc].writes
  <2>1. /\ phase = "item" /\ wait = 0 /\ pc <= Len(Program(req)) /\ pc' = pc + 1
        /\ nba' = Merged(w, nba) /\ wait' = Program(req)[pc].wait
        /\ UNCHANGED <<stage, left, tracker, phase, req, ends, pin>>
    BY <1>2 DEF ControlStep, sequence
  <2>2. /\ req.state \in Regular /\ pc \in 1..Last(req.state)
        /\ req.invert_to_sample \in Nat \ {0} /\ req.short_to_invert \in Nat \ {0}
    <3>1. req.state \in Regular
      BY DEF CycleKept
    <3>2. Len(Program(req)) = Last(req.state) /\ Last(req.state) \in Nat
      BY <3>1, ProgramLength DEF Last
    <3>3. /\ pc \in 1..(Last(req.state) + 1)
          /\ req.invert_to_sample \in Nat \ {0} /\ req.short_to_invert \in Nat \ {0}
      BY <2>1 DEF WavesLast
    <3>4. pc \in 1..Last(req.state)
      BY <2>1, <3>2, <3>3
    <3> QED BY <3>1, <3>3, <3>4
  <2>3. CycleKept'
    BY <2>1 DEF CycleKept
  <2>4. pc < Last(req.state) =>
          pc = 1 /\ req.state # "SAMPLE" /\ wait' \in {req.invert_to_sample, req.short_to_invert}
    <3>1. pc < Last(req.state) => pc = 1 /\ req.state # "SAMPLE"
      BY <2>2 DEF Last
    <3>2. ASSUME req.state # "SAMPLE", pc = 1
          PROVE  Program(req)[pc].wait \in {req.invert_to_sample, req.short_to_invert}
      BY <2>2, <3>2 DEF Program, Statement, Regular
    <3> QED BY <2>1, <3>1, <3>2
  <2>5. WavesLast'
    <3>1. pc' \in 2..(Last(req.state) + 1)
      BY <2>1, <2>2 DEF Last
    <3>2. pc' = 2 /\ req.state # "SAMPLE" => \A p \in AnalogPins : ends[p] > wait'
      BY <2>1, <2>2, <2>4 DEF WavesLast, Last
    <3>3. pc' # 1 /\ pc' \in 1..(Last(req.state) + 1)
      BY <3>1 DEF Last
    <3> QED BY <2>1, <2>2, <3>2, <3>3 DEF WavesLast
  <2>6. \A x \in ControlPins : Driven(x) = pin[x]
    <3>1. Written < Last(req.state)
      BY <2>1, <2>2 DEF Written, Last
    <3> QED BY <2>1, <3>1 DEF PinsFollow
  <2>7. \A x : Driven(x)' = IF x \in DOMAIN w THEN w[x] ELSE Driven(x)
    <3> HIDE DEF w
    <3> QED BY <2>1 DEF Driven, Merged
  <2>8. Written = pc - 1 /\ Written' = pc /\ req' = req
    BY <2>1, <2>2 DEF Written, Last
  <2>9. Moves(req.state, pc, Driven("am_clk_sample"), Driven("am_invert"), Driven("am_short"),
              Driven("am_clk_sample")', Driven("am_invert")', Driven("am_short")')
    <3>1. CASE req.state = "IDLE" /\ pc = 1
      <4>1. DOMAIN w = {"am_invert"} /\ w["am_invert"] = "0"
        BY <3>1 DEF Program, Statement
      <4> HIDE DEF w
      <4> QED BY <2>7, <3>1, <4>1 DEF Moves
    <3>2. CASE req.state = "IDLE" /\ pc = 2
      <4>1. DOMAIN w = {"am_short"} /\ w["am_short"] = "0"
        BY <3>2 DEF Program, Statement
      <4> HIDE DEF w
      <4> QED BY <2>7, <3>2, <4>1 DEF Moves
    <3>3. CASE req.state = "HOLD" /\ pc = 1
      <4>1. DOMAIN w = {"am_invert"} /\ w["am_invert"] = "0"
        BY <3>3 DEF Program, Statement
      <4> HIDE DEF w
      <4> QED BY <2>7, <3>3, <4>1 DEF Moves
    <3>4. CASE req.state = "HOLD" /\ pc = 2
      <4>1. DOMAIN w = {"am_clk_sample"} /\ w["am_clk_sample"] = "0"
        BY <3>4 DEF Program, Statement
      <4> HIDE DEF w
      <4> QED BY <2>7, <3>4, <4>1 DEF Moves
    <3>5. CASE req.state = "COMPARE" /\ pc = 1
      <4>1. DOMAIN w = {"am_short"} /\ w["am_short"] = "0"
        BY <3>5 DEF Program, Statement
      <4> HIDE DEF w
      <4> QED BY <2>7, <3>5, <4>1 DEF Moves
    <3>6. CASE req.state = "COMPARE" /\ pc = 2
      <4>1. DOMAIN w = {"am_invert"} /\ w["am_invert"] = "1"
        BY <3>6 DEF Program, Statement
      <4> HIDE DEF w
      <4> QED BY <2>7, <3>6, <4>1 DEF Moves
    <3>7. CASE req.state = "SAMPLE"
      BY <2>2, <2>7, <3>7 DEF Program, Statement, Moves, Last
    <3> QED BY <2>2, <3>1, <3>2, <3>3, <3>4, <3>5, <3>6, <3>7 DEF Regular, Last
  <2>10. At(req.state, pc - 1, Driven("am_clk_sample"), Driven("am_invert"), Driven("am_short"))
    BY <2>8 DEF PinsFollow
  <2>11. At(req.state, pc, Driven("am_clk_sample")', Driven("am_invert")', Driven("am_short")')
    BY <2>2, <2>9, <2>10 DEF At, Moves, Last
  <2>12. PinsFollow'
    <3>1. pc < Last(req.state) => wait' > 0
      BY <2>2, <2>4
    <3>2. /\ Driven("am_clk_sample") = pin'["am_clk_sample"] /\ Driven("am_invert") = pin'["am_invert"]
          /\ Driven("am_short") = pin'["am_short"]
      BY <2>1, <2>6 DEF ControlPins
    <3>3. At(req.state, pc - 1, pin'["am_clk_sample"], pin'["am_invert"], pin'["am_short"])
      BY <2>10, <3>2
    <3>4. Moves(req.state, pc, pin'["am_clk_sample"], pin'["am_invert"], pin'["am_short"],
                Driven("am_clk_sample")', Driven("am_invert")', Driven("am_short")')
      BY <2>9, <3>2
    <3>5. pc \in Nat \ {0}
      BY <2>2 DEF Last
    <3> QED BY <2>8, <2>11, <3>1, <3>3, <3>4, <3>5 DEF PinsFollow
  <2> QED BY <2>3, <2>5, <2>12
<1>3. ASSUME EndItem PROVE CycleKept' /\ WavesLast' /\ PinsFollow'
  <2>1. /\ phase = "item" /\ phase' = "get_next_item" /\ (ControlDone \/ AnalogDone)
        /\ UNCHANGED <<stage, left, tracker, req, nba, pin>>
    BY <1>3 DEF EndItem, sequence
  <2>2. req.state \in Regular /\ tracker = Successor[req.state]
    BY <2>1 DEF CycleKept
  <2>3. pc = Last(req.state) + 1
    <3>1. pc \in 1..(Last(req.state) + 1) /\ Len(Program(req)) = Last(req.state)
      BY <2>1, <2>2, ProgramLength DEF WavesLast
    <3>2. CASE ControlDone
      BY <3>1, <3>2 DEF ControlDone, Last
    <3>3. CASE AnalogDone
      <4>1. PICK p \in AnalogPins : ends[p] = 0
        BY <3>3 DEF AnalogDone
      <4> QED BY <2>1, <3>1, <4>1 DEF WavesLast, Last, TypeOK
    <3> QED BY <2>1, <3>2, <3>3
  <2>4. Written = Last(req.state) /\ Written' = Last(req.state)
    <3>1. tracker # req.state
      BY <2>2 DEF Successor, Regular
    <3> QED BY <2>1, <2>3, <3>1 DEF Written, Last
  <2>5. \A x : Driven(x)' = Driven(x)
    BY <2>1 DEF Driven
  <2> QED BY <2>1, <2>2, <2>4, <2>5 DEF CycleKept, WavesLast, PinsFollow
<1>4. ASSUME NextStage PROVE CycleKept' /\ WavesLast' /\ PinsFollow'
  <2>1. /\ phase = "get_next_item" /\ left = 0 /\ phase' \in {"get_next_item", "drain"}
        /\ \/ /\ stage < Len(Stages) /\ stage' \in 1..Len(Stages)
              /\ left' = Stages[stage'].num /\ tracker' = Stages[stage'].start
           \/ ~(stage < Len(Stages)) /\ UNCHANGED <<stage, left, tracker>>
        /\ UNCHANGED <<req, pc, ends, nba, pin>>
    BY <1>4, Inductive DEF NextStage, sequence, IInv, InStage
  <2>2. tracker' = tracker /\ (stage' < Len(Stages) => \E k \in Nat : left' = 4 * k + Rest[tracker'])
    <3>1. CASE ~(stage < Len(Stages)) /\ UNCHANGED <<stage, left, tracker>>
      BY <3>1
    <3>2. CASE /\ stage < Len(Stages) /\ stage' \in 1..Len(Stages)
               /\ left' = Stages[stage'].num /\ tracker' = Stages[stage'].start
      <4>1. tracker = "IDLE"
        BY <2>1, <3>2 DEF CycleKept, Rest, Regular
      <4>2. tracker' = "IDLE" /\ (stage' < Len(Stages) => \E k \in Nat : left' = 4 * k)
        BY <3>2, WholeCycles DEF CorrectStimulus
      <4>3. Rest["IDLE"] = 0
        BY DEF Rest
      <4> QED BY <4>1, <4>2, <4>3
    <3> QED BY <2>1, <3>1, <3>2
  <2>3. CycleKept'
    BY <2>1, <2>2 DEF CycleKept
  <2>4. Written' = Written /\ \A x : Driven(x)' = Driven(x)
    BY <2>1, <2>2 DEF Written, Driven
  <2> QED BY <2>1, <2>3, <2>4 DEF WavesLast, PinsFollow
<1>5. ASSUME EndTest PROVE CycleKept' /\ WavesLast' /\ PinsFollow'
  <2>1. /\ phase = "drain" /\ phase' = "over" /\ UNCHANGED <<stage, left, tracker, req, nba, pin>>
    BY <1>5 DEF EndTest, sequence
  <2>2. Written' = Written /\ \A x : Driven(x)' = Driven(x)
    BY <2>1 DEF Written, Driven
  <2> QED BY <2>1, <2>2 DEF CycleKept, WavesLast, PinsFollow
<1>6. ASSUME Commit PROVE CycleKept' /\ WavesLast' /\ PinsFollow'
  <2>1. /\ pin' = Merged(nba, pin) /\ nba' = NoWrites
        /\ UNCHANGED <<stage, left, tracker, phase, req, pc, wait, ends>>
    BY <1>6 DEF Commit, sequence, threads
  <2>2. \A x \in ControlPins : pin'[x] = Driven(x)
    BY <2>1 DEF Driven, Merged, TypeOK
  <2>3. \A x : Driven(x)' = pin'[x]
    <3>1. DOMAIN nba' = {}
      BY <2>1 DEF NoWrites
    <3> QED BY <3>1 DEF Driven
  <2>4. Written' = Written
    BY <2>1 DEF Written
  <2>5. PinsFollow'
    BY <2>1, <2>2, <2>3, <2>4 DEF PinsFollow, ControlPins
  <2> QED BY <2>1, <2>5 DEF CycleKept, WavesLast
<1>7. ASSUME NEW d \in Nat, Advance(d) PROVE CycleKept' /\ WavesLast' /\ PinsFollow'
  <2>1. /\ d > 0 /\ \A u \in Waits : d <= u
        /\ phase \in {"item", "drain"} /\ nba = NoWrites /\ wait' = wait - d
        /\ ends' = IF phase = "item" THEN [p \in AnalogPins |-> ends[p] - d] ELSE ends
        /\ UNCHANGED <<stage, left, tracker, phase, req, pc, nba, pin>>
    BY <1>7 DEF Advance, CanAdvance, sequence
  <2>2. d <= wait
    BY <2>1 DEF Waits, TypeOK
  <2>3. WavesLast'
    <3>1. CASE phase = "item"
      <4>1. pc # 1
        BY <2>1, <2>2, <3>1 DEF WavesLast
      <4>2. \A p \in AnalogPins : ends'[p] = ends[p] - d /\ ends[p] \in Nat
        BY <2>1, <3>1 DEF TypeOK
      <4>3. \A p \in AnalogPins : ends[p] > wait => ends'[p] > wait'
        BY <2>1, <2>2, <4>2 DEF TypeOK
      <4> QED BY <2>1, <3>1, <4>1, <4>3 DEF WavesLast
    <3>2. CASE phase # "item"
      BY <2>1, <3>2 DEF WavesLast
    <3> QED BY <3>1, <3>2
  <2>4. Written' = Written
    BY <2>1 DEF Written
  <2>5. \A x : Driven(x) = pin[x] /\ Driven(x)' = pin[x]
    <3>1. DOMAIN nba = {}
      BY <2>1 DEF NoWrites
    <3> QED BY <2>1, <3>1 DEF Driven
  <2> QED BY <2>1, <2>3, <2>4, <2>5 DEF CycleKept, PinsFollow
<1>8. ASSUME UNCHANGED <<stage, left, tracker, phase, req, pc, wait, ends, nba, pin>>
      PROVE  CycleKept' /\ WavesLast' /\ PinsFollow'
  BY <1>8 DEF CycleKept, WavesLast, PinsFollow, Written, Driven
<1>9. ASSUME NEW p, NEW v, BeginPlay(p) \/ Resample(p, v)
      PROVE  UNCHANGED <<stage, left, tracker, phase, req, pc, wait, ends, nba, pin>>
  BY <1>9 DEF BeginPlay, Resample, sequence, threads
<1>10. ASSUME PulseStep \/ CommitComplete \/ UNCHANGED vars
       PROVE  UNCHANGED <<stage, left, tracker, phase, req, pc, wait, ends, nba, pin>>
  BY <1>10 DEF PulseStep, CommitComplete, vars, sequence, threads
<1> QED
  BY <1>1, <1>2, <1>3, <1>4, <1>5, <1>6, <1>7, <1>8, <1>9, <1>10, WaitsTyped DEF FreeNext, Next, Progress, Elapse

-----------------------------------------------------------------------------
(* The refinement. *)

\* What a write of an item of state s does to the pins where they are.
Edge(s, c, i, h, cc, ii, hh) ==
  \/ s = "IDLE" /\ c # "1" /\ i # "0" /\ h # "1" /\ cc = c /\ ii = "0" /\ hh = h
  \/ s = "IDLE" /\ c # "1" /\ i = "0" /\ h \in {"0", "X"} /\ cc = c /\ ii = i /\ hh = "0"
  \/ s = "SAMPLE" /\ c # "1" /\ i = "0" /\ h = "0" /\ cc = "1" /\ ii = "1" /\ hh = "1"
  \/ s = "HOLD" /\ c = "1" /\ i = "1" /\ h = "1" /\ cc = c /\ ii = "0" /\ hh = h
  \/ s = "HOLD" /\ c = "1" /\ i = "0" /\ h = "1" /\ cc = "0" /\ ii = i /\ hh = h
  \/ s = "COMPARE" /\ c = "0" /\ i = "0" /\ h = "1" /\ cc = c /\ ii = i /\ hh = "0"
  \/ s = "COMPARE" /\ c = "0" /\ i = "0" /\ h = "0" /\ cc = c /\ ii = "1" /\ hh = h

\* An assignment of the control thread is an edge of the protocol.
LEMMA MovesAreEdges ==
  ASSUME NEW s, NEW n \in Nat \ {0}, NEW c, NEW i, NEW h, NEW cc, NEW ii, NEW hh,
         At(s, n - 1, c, i, h), Moves(s, n, c, i, h, cc, ii, hh)
  PROVE  Edge(s, c, i, h, cc, ii, hh)
<1>1. CASE s = "IDLE"
  BY <1>1 DEF At, Moves, Edge
<1>2. CASE s = "SAMPLE"
  BY <1>2 DEF At, Moves, Edge
<1>3. CASE s = "HOLD"
  BY <1>3 DEF At, Moves, Edge
<1>4. CASE s = "COMPARE"
  BY <1>4 DEF At, Moves, Edge
<1> QED BY <1>1, <1>2, <1>3, <1>4 DEF Moves

\* A committed write makes one of these moves, or changes nothing.
LEMMA CommitMoves ==
  ASSUME PInv, Commit
  PROVE  /\ req' = req
         /\ \/ UNCHANGED <<pin["am_clk_sample"], pin["am_invert"], pin["am_short"]>>
            \/ Edge(req.state, pin["am_clk_sample"], pin["am_invert"], pin["am_short"],
                    pin'["am_clk_sample"], pin'["am_invert"], pin'["am_short"])
<1> USE DEF PInv, TInv
<1>1. req' = req /\ pin' = Merged(nba, pin)
  BY DEF Commit
<1>2. \A x \in ControlPins : pin'[x] = Driven(x)
  BY <1>1 DEF Driven, Merged, TypeOK
<1>3. /\ pin'["am_clk_sample"] = Driven("am_clk_sample")
      /\ pin'["am_invert"] = Driven("am_invert") /\ pin'["am_short"] = Driven("am_short")
  BY <1>2 DEF ControlPins
<1>4. CASE \A x \in ControlPins : Driven(x) = pin[x]
  BY <1>1, <1>3, <1>4 DEF ControlPins
<1>5. CASE ~\A x \in ControlPins : Driven(x) = pin[x]
  BY <1>1, <1>3, <1>5, MovesAreEdges DEF PinsFollow
<1> QED BY <1>4, <1>5

\* It is a step of the protocol.
LEMMA CommitImplements ==
  ASSUME PInv, Commit
  PROVE  [Protocol!Next]_(Protocol!vars)
<1> DEFINE c == pin["am_clk_sample"]  cc == pin'["am_clk_sample"]
           i == pin["am_invert"]      ii == pin'["am_invert"]
           h == pin["am_short"]       hh == pin'["am_short"]
           s == req.state
<1>1. req' = req /\ (UNCHANGED <<c, i, h>> \/ Edge(s, c, i, h, cc, ii, hh))
  BY CommitMoves
<1>2. CASE UNCHANGED <<c, i, h>>
  BY <1>1, <1>2 DEF Protocol!vars
<1>3. CASE s = "IDLE" /\ Edge(s, c, i, h, cc, ii, hh)
  BY <1>1, <1>3 DEF Edge, Protocol!Next, Protocol!Finish, Protocol!Release, Protocol!vars
<1>4. CASE s = "SAMPLE" /\ Edge(s, c, i, h, cc, ii, hh)
  BY <1>1, <1>4 DEF Edge, Protocol!Next, Protocol!Sample
<1>5. CASE s = "HOLD" /\ Edge(s, c, i, h, cc, ii, hh)
  BY <1>1, <1>5 DEF Edge, Protocol!Next, Protocol!Store, Protocol!Open, Protocol!vars
<1>6. CASE s = "COMPARE" /\ Edge(s, c, i, h, cc, ii, hh)
  BY <1>1, <1>6 DEF Edge, Protocol!Next, Protocol!Release, Protocol!Compare, Protocol!vars
<1> QED BY <1>1, <1>2, <1>3, <1>4, <1>5, <1>6 DEF Edge

\* The next item makes nothing fresh or stale.
LEMMA TakeImplements ==
  ASSUME ItemAssumption, StageAssumption, CorrectStimulus, PInv,
         NEW it \in Items(tracker, Stages[stage].state_transition, Stages[stage].timing),
         TakeItem(it)
  PROVE  UNCHANGED Protocol!vars
<1> USE DEF PInv, TInv
<1>1. /\ phase = "get_next_item" /\ nba = NoWrites /\ req' = it /\ UNCHANGED pin
  BY DEF TakeItem
<1>2. it.state = tracker
  BY CorrectItems DEF CycleKept, IInv, InStage
<1>3. DOMAIN nba = {}
  BY <1>1 DEF NoWrites
<1>4. At(req.state, Written, pin["am_clk_sample"], pin["am_invert"], pin["am_short"])
  BY <1>3 DEF PinsFollow, Driven
<1>5. CASE tracker = req.state
  BY <1>1, <1>2, <1>5 DEF Protocol!vars
<1>6. CASE tracker # req.state
  <2>1. tracker = Successor[req.state] /\ Written = Last(req.state) /\ req.state \in Regular
    BY <1>1, <1>6 DEF CycleKept, Written
  <2> DEFINE i == pin["am_invert"]  h == pin["am_short"]
  <2>2. \/ req.state = "IDLE" /\ tracker = "SAMPLE" /\ h = "0"
        \/ req.state = "SAMPLE" /\ tracker = "HOLD" /\ i = "1"
        \/ req.state = "HOLD" /\ tracker = "COMPARE" /\ i = "0" /\ h = "1"
        \/ req.state = "COMPARE" /\ tracker = "IDLE" /\ i = "1"
    BY <1>4, <2>1 DEF At, Last, Successor, Regular
  <2> QED BY <1>1, <1>2, <2>2 DEF Protocol!vars
<1> QED BY <1>5, <1>6

\* Every step of the driver is a step of the protocol, or changes none of its pins.
LEMMA StepImplements ==
  ASSUME ItemAssumption, StageAssumption, CorrectStimulus, PInv, [FreeNext]_vars
  PROVE  [Protocol!Next]_(Protocol!vars)
<1>1. CASE Commit
  BY <1>1, CommitImplements
<1>2. ASSUME NEW it \in Items(tracker, Stages[stage].state_transition, Stages[stage].timing),
             TakeItem(it)
      PROVE  [Protocol!Next]_(Protocol!vars)
  BY <1>2, TakeImplements
<1>3. ASSUME UNCHANGED <<req, pin>> PROVE [Protocol!Next]_(Protocol!vars)
  BY <1>3 DEF Protocol!vars
<1>4. ASSUME NEW p, NEW v, BeginPlay(p) \/ Resample(p, v) PROVE UNCHANGED <<req, pin>>
  BY <1>4 DEF BeginPlay, Resample
<1>5. ASSUME NEW d, Advance(d) PROVE UNCHANGED <<req, pin>>
  BY <1>5 DEF Advance
<1>6. ASSUME ControlStep \/ PulseStep \/ EndItem \/ NextStage \/ EndTest \/ CommitComplete
             \/ UNCHANGED vars
      PROVE  UNCHANGED <<req, pin>>
  BY <1>6 DEF ControlStep, PulseStep, EndItem, NextStage, EndTest, CommitComplete, vars
<1> QED BY <1>1, <1>2, <1>3, <1>4, <1>5, <1>6 DEF FreeNext, Next, Progress, Elapse

\* The stimulus implements the protocol: asked for correct transitions in whole
\* cycles, with waves that outlast the writes of an item, the control pins sample,
\* hold and compare in their order, and every comparison uses a fresh current.
THEOREM ImplementsProtocol == ASSUME CorrectStimulus PROVE Spec => ProtocolKept
<1>. USE ItemAssumption, StageAssumption
<1>1. Init => PInv
  BY InitTypes, InitProtocol DEF PInv
<1>2. PInv /\ [Next]_vars => PInv'
  BY Inductive, TypesInductive, ProtocolInductive DEF PInv, TInv, FreeNext
<1>3. Init => Protocol!Init
  BY DEF Init, Boot, ControlPins, Protocol!Init
<1>4. PInv /\ [Next]_vars => [Protocol!Next]_(Protocol!vars)
  BY StepImplements DEF FreeNext
<1>. QED  BY <1>1, <1>2, <1>3, <1>4, PTL DEF Spec, ProtocolKept, Protocol!Spec
=============================================================================
