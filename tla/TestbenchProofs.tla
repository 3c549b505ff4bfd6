--------------------------- MODULE TestbenchProofs ---------------------------
(***************************************************************************)
(* Theorems about Testbench, for every test, wave and decision time: the   *)
(* stimulus does what it does alone, the monitor follows the protocol, and *)
(* a decision is over before the next sample.                              *)
(***************************************************************************)
EXTENDS Testbench, DriverProofs

Off == DUT!Off

\* The delays of the comparator are times.
ResponseTyped ==
  /\ az_wait \in Nat \cup {Off}
  /\ cmp_wait \in 0..DecTime \cup {Off}

\* Every step but the reaction to a commit, the comparator's own and time: the
\* comparator keeps its delays and its output, the pins do not move.
Aside ==
  /\ UNCHANGED <<pin, az_wait, cmp_wait, cmpr_out, compares>>
  /\ UNCHANGED monitor_state \/ Mon!React
  /\ \/ \E it \in Items(tracker, Stages[stage].state_transition, Stages[stage].timing) :
          TakeItem(it)
     \/ EndItem \/ NextStage \/ EndTest
     \/ UNCHANGED <<req, phase, age, tracker>>

\* What a step of the testbench can be, as far as a verdict is concerned.
LEMMA TestbenchStep ==
  ASSUME [TbNext]_tb_vars
  PROVE  ControlEdges \/ Response \/ TimePasses \/ Aside
<1>1. CASE Stimulus
  <2>1. UNCHANGED <<pin, az_wait, cmp_wait, cmpr_out, compares, monitor_state>>
    BY <1>1 DEF Stimulus, dut_state, TakeItem, ControlStep, PulseStep, EndItem, NextStage, EndTest
  <2>2. ASSUME ControlStep \/ PulseStep PROVE UNCHANGED <<req, phase, age, tracker>>
    BY <2>2 DEF ControlStep, PulseStep, sequence
  <2> QED BY <1>1, <2>1, <2>2 DEF Stimulus, Aside
<1>2. CASE AnalogStep
  <2>1. UNCHANGED <<pin, req, phase, age, tracker>>
    BY <1>2 DEF AnalogStep, BeginPlay, Resample, sequence
  <2>2. UNCHANGED <<az_wait, cmp_wait, cmpr_out, compares>> /\ Mon!React
    BY <1>2 DEF AnalogStep, dut_state, DUT!DriveIn, DUT!DriveBias, DUT!DriveVdd
  <2> QED BY <2>1, <2>2 DEF Aside
<1>3. CASE CompleteEdge
  <2>1. UNCHANGED <<pin, req, phase, age, tracker>>
    BY <1>3 DEF CompleteEdge, CommitComplete, sequence
  <2>2. UNCHANGED <<az_wait, cmp_wait, cmpr_out, compares>> /\ Mon!React
    BY <1>3 DEF CompleteEdge, DUT!DriveComplete
  <2> QED BY <2>1, <2>2 DEF Aside
<1>4. CASE UNCHANGED tb_vars
  BY <1>4 DEF tb_vars, driver_vars, vars, sequence, dut_state, Aside
<1> QED BY <1>1, <1>2, <1>3, <1>4 DEF TbNext, Activity, Finished

\* A step of the testbench is one of the stimulus, whose clock may stop where
\* the comparator wakes.
LEMMA StimulusStep ==
  ASSUME IInv, ResponseTyped, [TbNext]_tb_vars
  PROVE  [FreeNext]_vars
<1>1. CASE Stimulus
  BY <1>1 DEF Stimulus, FreeNext, Next, Progress
<1>2. CASE AnalogStep
  BY <1>2 DEF AnalogStep, FreeNext, Next, Progress
<1>3. CASE ControlEdges \/ CompleteEdge
  BY <1>3 DEF ControlEdges, CompleteEdge, FreeNext, Next, Progress
<1>4. CASE Response \/ UNCHANGED tb_vars
  BY <1>4 DEF Response, tb_vars, driver_vars
<1>5. CASE TimePasses
  <2>1. PICK d \in Waits \cup DutWaits : Advance(d)
    BY <1>5 DEF TimePasses
  <2>2. DutWaits \subseteq Nat
    BY DEF DutWaits, ResponseTyped, Off
  <2> QED BY <2>1, <2>2, WaitsTyped DEF FreeNext
<1> QED BY <1>1, <1>2, <1>3, <1>4, <1>5 DEF TbNext, Activity, Finished

\* A decision of the comparator in the testbench takes at most DecTime.
LEMMA DecisionsTyped ==
  ASSUME ItemAssumption, ResponseAssumption
  PROVE  DUT!DecisionTimes \subseteq 0..DecTime
<1> SUFFICES ASSUME NEW d \in DUT!DecisionTimes PROVE d \in 0..DecTime
  OBVIOUS
<1>1. DecTime \in Nat /\ DecisionGrid \subseteq Nat
  BY DEF ItemAssumption, ResponseAssumption
<1>2. d \in DecisionGrid /\ d <= DecTime
  BY DEF DUT!DecisionTimes
<1>3. d \in Nat
  BY <1>1, <1>2
<1> QED BY <1>1, <1>2, <1>3

\* Every step keeps the types of the comparator in the testbench.
LEMMA ResponseTypesInductive ==
  ASSUME ItemAssumption, ResponseAssumption, IInv, ResponseTyped, [TbNext]_tb_vars
  PROVE  ResponseTyped'
<1>1. CASE ControlEdges
  <2>1. /\ az_wait' \in {az_wait, HoldTime}
        /\ cmp_wait' = cmp_wait \/ cmp_wait' \in DUT!DecisionTimes
    BY <1>1 DEF ControlEdges, DUT!DriveControl
  <2>2. HoldTime \in Nat /\ DUT!DecisionTimes \subseteq 0..DecTime
    BY DecisionsTyped DEF ResponseAssumption
  <2> QED BY <2>1, <2>2 DEF ResponseTyped, Off
<1>2. CASE Response
  BY <1>2 DEF Response, DUT!AutoZero, DUT!Compare, ResponseTyped, Off
<1>3. CASE TimePasses
  <2>1. PICK d \in Waits \cup DutWaits : DUT!Advance(d)
    BY <1>3 DEF TimePasses
  <2>2. d \in Nat
    BY WaitsTyped DEF DutWaits, ResponseTyped, Off
  <2>3. /\ az_wait = Off \/ d <= az_wait
        /\ cmp_wait = Off \/ d <= cmp_wait
        /\ az_wait' = IF az_wait = Off THEN Off ELSE az_wait - d
        /\ cmp_wait' = IF cmp_wait = Off THEN Off ELSE cmp_wait - d
    BY <2>1 DEF DUT!Advance, DUT!Waits, DUT!Left, Off
  <2>4. DecTime \in Nat
    BY DEF ItemAssumption
  <2> QED BY <2>2, <2>3, <2>4 DEF ResponseTyped, Off
<1>4. CASE Aside
  BY <1>4 DEF Aside, ResponseTyped, Off
<1> QED BY <1>1, <1>2, <1>3, <1>4, TestbenchStep

-----------------------------------------------------------------------------
(* The monitor follows the protocol. *)

\* A current is held that no comparison has used: see Driver!Protocol.
Fresh == /\ pin["am_invert"] = "0"
         /\ pin["am_short"] = "1" \/ (pin["am_short"] = "0" /\ req.state = "COMPARE")

\* What the monitor waits for follows from where the pins are in a cycle.
WatchKept ==
  awaits = IF Fresh THEN "compare"
           ELSE IF pin["am_invert"] # "1" THEN "sample"
           ELSE IF pin["am_short"] = "1" THEN "store" ELSE "verdict"

\* One comparison more has been asked for than reported while it is under way.
CountKept ==
  /\ published \in Nat
  /\ compares = IF awaits = "verdict" THEN published + 1 ELSE published

\* Where the pins it waits for stand still, the monitor neither waits for another
\* nor publishes.
LEMMA MonitorIdles ==
  ASSUME UNCHANGED <<pin["am_clk_sample"], pin["am_invert"], pin["am_short"]>>,
         UNCHANGED monitor_state \/ Mon!React
  PROVE  UNCHANGED <<awaits, published>>
BY DEF monitor_state, Mon!React, Mon!Sampling, Mon!Storing, Mon!Comparing, Mon!Deciding,
       Mon!Publishing, Mon!Missing, Mon!Posedge, Mon!Negedge, Mon!state

\* The next item makes nothing fresh or stale.
LEMMA AsideFresh ==
  ASSUME ItemAssumption, StageAssumption, CorrectStimulus, PInv, Aside
  PROVE  Fresh' = Fresh
<1>1. UNCHANGED pin
  BY DEF Aside
<1>2. CASE UNCHANGED req
  BY <1>1, <1>2 DEF Fresh
<1>3. ASSUME NEW it \in Items(tracker, Stages[stage].state_transition, Stages[stage].timing),
             TakeItem(it)
      PROVE  Fresh' = Fresh
  BY <1>3, TakeImplements DEF Protocol!vars, Fresh
<1>4. CASE EndItem \/ NextStage \/ EndTest
  BY <1>2, <1>4 DEF EndItem, NextStage, EndTest
<1> QED BY <1>2, <1>3, <1>4 DEF Aside

\* Every step keeps what the monitor waits for next, and how many it has published.
LEMMA WatchInductive ==
  ASSUME ItemAssumption, StageAssumption, ResponseAssumption, CorrectStimulus,
         PInv, WatchKept, CountKept, [TbNext]_tb_vars
  PROVE  WatchKept' /\ CountKept'
<1>1. CASE ControlEdges
  <2> DEFINE c == pin["am_clk_sample"]  cc == pin'["am_clk_sample"]
             i == pin["am_invert"]      ii == pin'["am_invert"]
             h == pin["am_short"]       hh == pin'["am_short"]
             s == req.state
  <2>1. /\ Commit /\ Mon!React
        /\ compares' = IF DUT!Posedge(i, ii) /\ hh = "0" THEN compares + 1 ELSE compares
    BY <1>1 DEF ControlEdges
  <2>2. req' = req /\ (UNCHANGED <<c, i, h>> \/ Edge(s, c, i, h, cc, ii, hh))
    BY <2>1, CommitMoves
  <2> USE DEF Mon!React, Mon!Sampling, Mon!Storing, Mon!Comparing, Mon!Deciding,
              Mon!Publishing, Mon!Missing, Mon!Posedge, Mon!Negedge, Mon!state, DUT!Posedge
  <2>3. CASE UNCHANGED <<c, i, h>>
    <3>1. UNCHANGED <<awaits, published>>
      BY <2>1, <2>3, MonitorIdles
    <3>2. compares' = compares
      BY <2>1, <2>3
    <3> QED BY <2>2, <2>3, <3>1, <3>2 DEF WatchKept, CountKept, Fresh
  <2>4. CASE s = "IDLE" /\ Edge(s, c, i, h, cc, ii, hh)
    <3>1. c # "1" /\ h # "1" /\ cc = c /\ ii = "0" /\ hh # "1" /\ (i # "0" => hh = h)
      BY <2>4 DEF Edge
    <3>2. compares' = compares /\ awaits = IF i = "1" THEN "verdict" ELSE "sample"
      BY <2>1, <2>4, <3>1 DEF WatchKept, Fresh
    <3>3. awaits' = "sample" /\ published' = IF i = "1" THEN published + 1 ELSE published
      BY <2>1, <3>1, <3>2
    <3>4. WatchKept'
      BY <2>2, <2>4, <3>1, <3>3 DEF WatchKept, Fresh
    <3>5. CountKept'
      BY <3>2, <3>3 DEF CountKept
    <3> QED BY <3>4, <3>5
  <2>5. CASE s = "SAMPLE" /\ Edge(s, c, i, h, cc, ii, hh)
    BY <2>1, <2>2, <2>5 DEF Edge, WatchKept, CountKept, Fresh
  <2>6. CASE s = "HOLD" /\ Edge(s, c, i, h, cc, ii, hh)
    BY <2>1, <2>2, <2>6 DEF Edge, WatchKept, CountKept, Fresh, ResponseAssumption
  <2>7. CASE s = "COMPARE" /\ Edge(s, c, i, h, cc, ii, hh)
    BY <2>1, <2>2, <2>7 DEF Edge, WatchKept, CountKept, Fresh
  <2> QED BY <2>2, <2>3, <2>4, <2>5, <2>6, <2>7 DEF Edge
<1>2. CASE Response
  <2>1. UNCHANGED <<pin, req, compares>> /\ Mon!React
    BY <1>2 DEF Response, driver_vars, vars
  <2>2. UNCHANGED <<awaits, published>>
    BY <2>1, MonitorIdles
  <2> QED BY <2>1, <2>2 DEF WatchKept, CountKept, Fresh
<1>3. CASE TimePasses
  <2>1. UNCHANGED <<pin, req, compares, awaits, published>>
    BY <1>3 DEF TimePasses, Advance, monitor_state
  <2> QED BY <2>1 DEF WatchKept, CountKept, Fresh
<1>4. CASE Aside
  <2>1. UNCHANGED <<pin, compares>> /\ (UNCHANGED monitor_state \/ Mon!React)
    BY <1>4 DEF Aside
  <2>2. UNCHANGED <<awaits, published>> /\ Fresh' = Fresh
    BY <1>4, <2>1, MonitorIdles, AsideFresh
  <2> QED BY <2>1, <2>2 DEF WatchKept, CountKept
<1> QED BY <1>1, <1>2, <1>3, <1>4, TestbenchStep

-----------------------------------------------------------------------------
(* A decision is over before the next sample. *)

\* How much of an IDLE item has passed, and that it lasts as long as a decision.
IdleTimed ==
  phase = "item" /\ req.state = "IDLE" =>
    /\ pc = 1 => age = 0
    /\ pc = 2 => age + wait = req.invert_to_sample
    /\ pc = 3 => age + wait = req.invert_to_sample + Remainder(req)
    /\ DecTime <= req.invert_to_sample + Remainder(req)
    /\ \A p \in AnalogPins : DecTime <= PlayTime(req.delay, Wave(p))

\* A decision is under way only in the comparing item and the IDLE item after
\* it, of which no more than the rest of the decision is left to wait for.
DecisionInTime ==
  cmp_wait # Off =>
    /\ cmp_wait \in 0..DecTime /\ pin["am_short"] = "0"
    /\ \/ req.state = "COMPARE" /\ pin["am_invert"] = "1"
       \/ req.state = "IDLE" /\ phase = "item" /\ age + cmp_wait <= DecTime
       \/ req.state = "IDLE" /\ phase # "item" /\ tracker = "SAMPLE" /\ cmp_wait = 0
       \/ req.state = "SAMPLE" /\ cmp_wait = 0

\* Every step keeps how much of an IDLE item has passed.
LEMMA IdleInductive ==
  ASSUME ItemAssumption, StageAssumption, CorrectStimulus, DecisionFits,
         PInv, IdleTimed, [FreeNext]_vars
  PROVE  IdleTimed'
<1> USE DEF PInv, TInv
<1>1. ASSUME NEW it \in Items(tracker, Stages[stage].state_transition, Stages[stage].timing),
             TakeItem(it)
      PROVE  IdleTimed'
  <2>1. req' = it /\ pc' = 1 /\ age' = 0 /\ UNCHANGED stage
    BY <1>1 DEF TakeItem
  <2>2. it.state = tracker /\ stage \in 1..Len(Stages)
    BY CorrectItems DEF CycleKept, IInv, InStage
  <2>3. Stages[stage].state_transition = "CORRECT"
    BY <2>2 DEF CorrectStimulus
  <2>4. it.state = "IDLE" =>
          /\ DecTime <= it.invert_to_sample + Remainder(it)
          /\ \A p \in AnalogPins : DecTime <= PlayTime(it.delay, Wave(p))
    BY <2>2, <2>3 DEF DecisionFits, Wave
  <2>5. Remainder(req)' = Remainder(it)
        /\ \A p : PlayTime(req.delay, Wave(p))' = PlayTime(it.delay, Wave(p))
    BY <2>1 DEF Remainder, PlayTime, NumSamples, Wave
  <2> QED BY <2>1, <2>4, <2>5 DEF IdleTimed
<1>2. ASSUME ControlStep PROVE IdleTimed'
  <2>1. /\ phase = "item" /\ wait = 0 /\ pc <= Len(Program(req)) /\ pc' = pc + 1
        /\ wait' = Program(req)[pc].wait
        /\ UNCHANGED <<stage, phase, req, age>>
    BY <1>2 DEF ControlStep, sequence
  <2>2. req.state = "IDLE" =>
          pc \in {1, 2} /\ wait' = IF pc = 1 THEN req.invert_to_sample ELSE Remainder(req)
    <3> SUFFICES ASSUME req.state = "IDLE"
                 PROVE  pc \in {1, 2}
                        /\ wait' = IF pc = 1 THEN req.invert_to_sample ELSE Remainder(req)
      OBVIOUS
    <3>1. Program(req) = << Statement([am_invert |-> "0"], req.invert_to_sample),
                            Statement([am_short |-> "0"], Remainder(req)) >>
      BY DEF Program
    <3>2. pc \in {1, 2}
      BY <2>1, <3>1 DEF TypeOK
    <3>3. Program(req)[1].wait = req.invert_to_sample /\ Program(req)[2].wait = Remainder(req)
      BY <3>1 DEF Statement
    <3> QED BY <2>1, <3>2, <3>3
  <2>3. Remainder(req)' = Remainder(req)
        /\ \A p : PlayTime(req.delay, Wave(p))' = PlayTime(req.delay, Wave(p))
    BY <2>1 DEF Remainder, PlayTime, NumSamples, Wave
  <2>4. CASE req.state = "IDLE"
    <3>1. age \in Nat /\ req.invert_to_sample \in Nat
      BY <2>1 DEF TypeOK, WavesLast
    <3>2. CASE pc = 1
      <4>1. age' = 0 /\ pc' = 2 /\ wait' = req.invert_to_sample
        BY <2>1, <2>2, <2>4, <3>2 DEF IdleTimed
      <4>2. age' + wait' = req.invert_to_sample
        BY <3>1, <4>1
      <4> QED BY <2>1, <2>3, <2>4, <4>1, <4>2 DEF IdleTimed
    <3>3. CASE pc = 2
      <4>1. age' = age /\ age + wait = req.invert_to_sample /\ pc' = 3 /\ wait' = Remainder(req)
        BY <2>1, <2>2, <2>4, <3>3 DEF IdleTimed
      <4>2. age = req.invert_to_sample
        BY <2>1, <3>1, <4>1
      <4>3. age' + wait' = req.invert_to_sample + Remainder(req)
        BY <4>1, <4>2
      <4> QED BY <2>1, <2>3, <2>4, <4>1, <4>3 DEF IdleTimed
    <3> QED BY <2>2, <2>4, <3>2, <3>3
  <2>5. CASE req.state # "IDLE"
    BY <2>1, <2>5 DEF IdleTimed
  <2> QED BY <2>4, <2>5
<1>3. ASSUME NEW d \in Nat, Advance(d) PROVE IdleTimed'
  <2>1. /\ d > 0 /\ wait' = wait - d
        /\ \A w \in Waits : d <= w
        /\ phase = "item" => age' = age + d
        /\ UNCHANGED <<stage, phase, req, pc>>
    BY <1>3 DEF Advance, sequence
  <2>2. phase = "item" => pc # 1
    <3>1. phase = "item" => wait \in Waits
      BY DEF Waits
    <3>2. phase = "item" => wait > 0
      BY <2>1, <3>1 DEF TypeOK
    <3> QED BY <3>2 DEF WavesLast
  <2>3. Remainder(req)' = Remainder(req)
        /\ \A p : PlayTime(req.delay, Wave(p))' = PlayTime(req.delay, Wave(p))
    BY <2>1 DEF Remainder, PlayTime, NumSamples, Wave
  <2>4. phase = "item" => age' + wait' = age + wait
    BY <2>1 DEF TypeOK
  <2> QED BY <2>1, <2>2, <2>3, <2>4 DEF IdleTimed
<1>4. ASSUME UNCHANGED <<stage, phase, req, pc, wait, age>> PROVE IdleTimed'
  <2>1. Remainder(req)' = Remainder(req)
        /\ \A p : PlayTime(req.delay, Wave(p))' = PlayTime(req.delay, Wave(p))
    BY <1>4 DEF Remainder, PlayTime, NumSamples, Wave
  <2> QED BY <1>4, <2>1 DEF IdleTimed
<1>5. ASSUME NEW p, NEW v, BeginPlay(p) \/ Resample(p, v)
      PROVE  UNCHANGED <<stage, phase, req, pc, wait, age>>
  BY <1>5 DEF BeginPlay, Resample, sequence, threads
<1>6. ASSUME PulseStep \/ Commit \/ CommitComplete \/ UNCHANGED vars
      PROVE  UNCHANGED <<stage, phase, req, pc, wait, age>>
  BY <1>6 DEF PulseStep, Commit, CommitComplete, vars, sequence, threads
<1>7. ASSUME EndItem \/ NextStage \/ EndTest PROVE IdleTimed'
  <2>1. phase' # "item"
    BY <1>7 DEF EndItem, NextStage, EndTest
  <2> QED BY <2>1 DEF IdleTimed
<1> QED
  BY <1>1, <1>2, <1>3, <1>4, <1>5, <1>6, <1>7, WaitsTyped DEF FreeNext, Next, Progress, Elapse

\* What the comparator does on the edges of a commit, while an "iff" guard reads
\* what the commit leaves.
LEMMA EdgesDecide ==
  ASSUME ItemAssumption, ResponseAssumption, DecisionFits, PInv, DecisionInTime, ControlEdges
  PROVE  /\ cmp_wait' # Off =>
              \/ cmp_wait' = cmp_wait /\ req.state = "IDLE" /\ pin'["am_short"] = "0"
              \/ cmp_wait' = cmp_wait /\ UNCHANGED <<pin["am_invert"], pin["am_short"]>>
              \/ /\ cmp_wait' \in 0..DecTime /\ req.state = "COMPARE"
                 /\ pin'["am_invert"] = "1" /\ pin'["am_short"] = "0"
         /\ compares' # compares => cmp_wait = Off
         /\ cmpr_out' = IF pin["am_short"] # "1" /\ pin'["am_short"] = "1" THEN "1" ELSE cmpr_out
<1> DEFINE c == pin["am_clk_sample"]  cc == pin'["am_clk_sample"]
           i == pin["am_invert"]      ii == pin'["am_invert"]
           h == pin["am_short"]       hh == pin'["am_short"]
           s == req.state
           sampling == DUT!Posedge(c, cc)
           comparing == DUT!Posedge(i, ii) /\ hh = "0"
<1>1. /\ Commit /\ cmp_wait # 0
      /\ cmpr_out' = IF sampling THEN "1" ELSE cmpr_out
      /\ IF comparing /\ cmp_wait = Off THEN cmp_wait' \in DUT!DecisionTimes
                                        ELSE cmp_wait' = cmp_wait
      /\ compares' = IF comparing THEN compares + 1 ELSE compares
  <2>1. IffViews = {"after"}
    BY DEF DecisionFits
  <2>2. /\ Commit /\ DUT!DriveControl(cc, ii, hh)
        /\ compares' = IF comparing THEN compares + 1 ELSE compares
    BY DEF ControlEdges
  <2>3. /\ cmp_wait # 0
        /\ cmpr_out' = IF sampling THEN "1" ELSE cmpr_out
        /\ IF comparing /\ cmp_wait = Off THEN cmp_wait' \in DUT!DecisionTimes
                                          ELSE cmp_wait' = cmp_wait
    BY <2>1, <2>2 DEF DUT!DriveControl, DUT!ActiveDrained, DUT!Samples, Off
  <2> QED BY <2>2, <2>3
<1>2. UNCHANGED <<c, i, h>> \/ Edge(s, c, i, h, cc, ii, hh)
  BY <1>1, CommitMoves
<1>3. cmp_wait # Off => (s = "COMPARE" /\ i = "1" /\ h = "0") \/ (s = "IDLE" /\ h = "0")
  BY <1>1 DEF DecisionInTime
<1>4. CASE UNCHANGED <<c, i, h>>
  BY <1>1, <1>4 DEF DUT!Posedge
<1>5. CASE s = "IDLE" /\ Edge(s, c, i, h, cc, ii, hh)
  BY <1>1, <1>3, <1>5 DEF DUT!Posedge, Edge
<1>6. CASE s = "SAMPLE" /\ Edge(s, c, i, h, cc, ii, hh)
  BY <1>1, <1>3, <1>6 DEF DUT!Posedge, Edge
<1>7. CASE s = "HOLD" /\ Edge(s, c, i, h, cc, ii, hh)
  BY <1>1, <1>3, <1>7 DEF DUT!Posedge, Edge
<1>8. CASE s = "COMPARE" /\ Edge(s, c, i, h, cc, ii, hh)
  <2>1. cmp_wait = Off
    BY <1>3, <1>8 DEF Edge
  <2>2. DUT!DecisionTimes \subseteq 0..DecTime
    BY DecisionsTyped
  <2> QED BY <1>1, <1>8, <2>1, <2>2 DEF DUT!Posedge, Edge
<1> QED BY <1>2, <1>4, <1>5, <1>6, <1>7, <1>8 DEF Edge

\* The driver goes on to its next item, the sequence to its next stage.
LEMMA ItemsPass ==
  ASSUME ItemAssumption, StageAssumption, CorrectStimulus,
         PInv, IdleTimed, DecisionInTime, cmp_wait # Off, Aside
  PROVE  DecisionInTime'
<1> USE DEF PInv, TInv
<1>0. UNCHANGED <<pin, cmp_wait>>
  BY DEF Aside
<1>1. ASSUME NEW it \in Items(tracker, Stages[stage].state_transition, Stages[stage].timing),
             TakeItem(it)
      PROVE  DecisionInTime'
  <2>1. phase = "get_next_item" /\ nba = NoWrites
        /\ req' = it /\ phase' = "item" /\ age' = 0
    BY <1>1 DEF TakeItem
  <2>2. it.state = tracker
    BY CorrectItems DEF CycleKept, IInv, InStage
  <2>3. CASE req.state = "COMPARE"
    <3>1. tracker = "IDLE" /\ cmp_wait \in 0..DecTime /\ DecTime \in Nat
      BY <2>3 DEF CycleKept, Successor, DecisionInTime, ItemAssumption
    <3> QED BY <1>0, <2>1, <2>2, <3>1 DEF DecisionInTime
  <2>4. CASE req.state = "SAMPLE"
    <3>1. DOMAIN nba = {}
      BY <2>1 DEF NoWrites
    <3>2. At("SAMPLE", 1, pin["am_clk_sample"], pin["am_invert"], pin["am_short"])
      BY <2>1, <2>4, <3>1 DEF PinsFollow, Driven, Written, CycleKept, Successor, Last
    <3>3. pin["am_short"] = "1"
      BY <3>2 DEF At
    <3> QED BY <3>3 DEF DecisionInTime
  <2>5. CASE req.state = "IDLE"
    BY <1>0, <2>1, <2>2, <2>5 DEF DecisionInTime
  <2> QED BY <2>3, <2>4, <2>5 DEF DecisionInTime
<1>2. CASE EndItem
  <2>1. phase = "item" /\ phase' # "item" /\ (ControlDone \/ AnalogDone) /\ UNCHANGED <<req, tracker>>
    BY <1>2 DEF EndItem, sequence
  <2>2. CASE req.state = "IDLE"
    <3>1. /\ age \in Nat /\ DecTime \in Nat /\ cmp_wait \in 0..DecTime
          /\ age + cmp_wait <= DecTime /\ tracker = "SAMPLE"
      BY <2>1, <2>2 DEF TypeOK, DecisionInTime, CycleKept, Successor, ItemAssumption
    <3>2. DecTime <= age
      <4>1. CASE ControlDone
        <5>1. Len(Program(req)) = 2
          BY <2>2, ProgramLength DEF Regular, Last
        <5>2. pc = 3 /\ wait = 0
          BY <4>1, <5>1 DEF ControlDone, TypeOK
        <5> QED BY <2>1, <2>2, <3>1, <5>2 DEF IdleTimed
      <4>2. CASE AnalogDone
        <5>1. PICK p \in AnalogPins : ends[p] = 0
          BY <4>2 DEF AnalogDone
        <5>2. age + ends[p] = PlayTime(req.delay, Wave(p))
          BY <2>1 DEF IInv, PlayTimeLeft
        <5> QED BY <2>1, <2>2, <3>1, <5>1, <5>2 DEF IdleTimed
      <4> QED BY <2>1, <4>1, <4>2
    <3>3. cmp_wait = 0
      BY <3>1, <3>2
    <3> QED BY <1>0, <2>1, <2>2, <3>1, <3>3 DEF DecisionInTime
  <2>3. CASE req.state # "IDLE"
    BY <1>0, <2>1, <2>3 DEF DecisionInTime
  <2> QED BY <2>2, <2>3
<1>3. CASE NextStage
  <2>1. /\ phase = "get_next_item" /\ left = 0 /\ phase' # "item" /\ UNCHANGED req
        /\ stage < Len(Stages) \/ UNCHANGED tracker
    BY <1>3 DEF NextStage, sequence
  <2>2. stage < Len(Stages) => tracker = "IDLE"
    BY <2>1 DEF CycleKept, Rest, Regular
  <2> QED BY <1>0, <2>1, <2>2 DEF DecisionInTime
<1>4. CASE EndTest
  <2>1. phase = "drain" /\ phase' # "item" /\ UNCHANGED <<req, tracker>>
    BY <1>4 DEF EndTest, sequence
  <2> QED BY <1>0, <2>1 DEF DecisionInTime
<1>5. CASE UNCHANGED <<req, phase, age, tracker>>
  BY <1>0, <1>5 DEF DecisionInTime
<1> QED BY <1>1, <1>2, <1>3, <1>4, <1>5 DEF Aside

VInv == /\ PInv /\ ResponseTyped /\ CountKept /\ WatchKept
        /\ IdleTimed /\ DecisionInTime /\ NoVerdictWhileSampling

\* Every step leaves a decision to end before the next sample starts.
LEMMA VerdictInductive ==
  ASSUME ItemAssumption, StageAssumption, ResponseAssumption, CorrectStimulus, DecisionFits,
         VInv, [TbNext]_tb_vars
  PROVE  DecisionInTime' /\ NoVerdictWhileSampling'
<1> USE DEF VInv
<1>1. CASE ControlEdges
  <2>1. UNCHANGED <<req, phase, age, tracker>>
    BY <1>1 DEF ControlEdges, Commit, sequence
  <2>2. cmp_wait' = cmp_wait => cmp_wait' # 0
    BY <1>1 DEF ControlEdges, DUT!DriveControl, DUT!ActiveDrained
  <2>3. DecisionInTime'
    BY <1>1, <2>1, <2>2, EdgesDecide DEF DecisionInTime
  <2>4. NoVerdictWhileSampling'
    BY <1>1, EdgesDecide DEF NoVerdictWhileSampling
  <2> QED BY <2>3, <2>4
<1>2. CASE Response
  <2>1. UNCHANGED <<pin, req, phase, age, tracker>>
    BY <1>2 DEF Response, driver_vars, vars, sequence
  <2>2. CASE DUT!AutoZero
    BY <2>1, <2>2 DEF DUT!AutoZero, DecisionInTime, NoVerdictWhileSampling
  <2>3. CASE DUT!Compare
    <3>1. cmp_wait # Off /\ cmp_wait' = Off
      BY <2>3 DEF DUT!Compare, Off, DUT!Off
    <3>2. pin["am_short"] = "0"
      BY <3>1 DEF DecisionInTime
    <3> QED BY <2>1, <3>1, <3>2 DEF DecisionInTime, NoVerdictWhileSampling
  <2> QED BY <1>2, <2>2, <2>3 DEF Response
<1>3. CASE TimePasses
  <2>1. PICK d \in Waits \cup DutWaits : Advance(d) /\ DUT!Advance(d)
    BY <1>3 DEF TimePasses
  <2>2. d \in Nat
    BY WaitsTyped DEF DutWaits, ResponseTyped, Off, PInv, TInv
  <2>3. /\ d > 0 /\ UNCHANGED <<pin, req, phase, tracker, cmpr_out>>
        /\ phase = "item" => age' = age + d
        /\ cmp_wait = Off \/ d <= cmp_wait
        /\ cmp_wait' = IF cmp_wait = Off THEN Off ELSE cmp_wait - d
    BY <2>1 DEF Advance, sequence, DUT!Advance, DUT!Waits, DUT!Left, Off
  <2>4. age \in Nat /\ DecTime \in Nat
    BY DEF PInv, TInv, TypeOK, ItemAssumption
  <2>5. NoVerdictWhileSampling'
    BY <2>3 DEF NoVerdictWhileSampling
  <2>6. DecisionInTime'
    <3>1. CASE cmp_wait = Off
      BY <2>3, <3>1 DEF DecisionInTime
    <3>2. CASE cmp_wait # Off
      <4>1. cmp_wait \in 0..DecTime /\ d <= cmp_wait /\ cmp_wait' = cmp_wait - d
        BY <2>3, <3>2 DEF DecisionInTime
      <4>2. cmp_wait' \in 0..DecTime /\ cmp_wait # 0
        BY <2>2, <2>3, <2>4, <4>1
      <4>3. pin["am_short"] = "0"
        BY <3>2 DEF DecisionInTime
      <4>4. \/ req.state = "COMPARE" /\ pin["am_invert"] = "1"
            \/ req.state = "IDLE" /\ phase = "item" /\ age + cmp_wait <= DecTime
        BY <3>2, <4>2 DEF DecisionInTime
      <4>5. phase = "item" => age' + cmp_wait' = age + cmp_wait
        BY <2>2, <2>3, <2>4, <4>1
      <4> QED BY <2>3, <4>2, <4>3, <4>4, <4>5 DEF DecisionInTime
    <3> QED BY <3>1, <3>2
  <2> QED BY <2>5, <2>6
<1>4. CASE Aside
  <2>1. UNCHANGED <<pin, cmp_wait, cmpr_out>>
    BY <1>4 DEF Aside
  <2>2. CASE cmp_wait = Off
    BY <2>1, <2>2 DEF DecisionInTime, NoVerdictWhileSampling
  <2>3. CASE cmp_wait # Off
    BY <1>4, <2>1, <2>3, ItemsPass DEF NoVerdictWhileSampling
  <2> QED BY <2>2, <2>3
<1> QED BY <1>1, <1>2, <1>3, <1>4, TestbenchStep

-----------------------------------------------------------------------------
(* The theorems. *)

\* The types hold at the start.
LEMMA InitStimulus ==
  ASSUME StageAssumption, TbInit PROVE TInv /\ ResponseTyped
<1>1. Init /\ DUT!Init
  BY DEF TbInit
<1> QED BY <1>1, InitTypes DEF ResponseTyped, DUT!Init, Off

\* The monitor waits for what comes first at the start.
LEMMA InitWatch ==
  ASSUME StageAssumption, CorrectStimulus, TbInit
  PROVE  PInv /\ WatchKept /\ CountKept
<1>1. Init /\ Mon!Init /\ compares = 0
  BY DEF TbInit
<1>2. pin["am_invert"] = "X"
  BY <1>1 DEF Init, ControlPins
<1>3. PInv
  BY <1>1, InitTypes, InitProtocol DEF PInv
<1> QED BY <1>1, <1>2, <1>3 DEF Mon!Init, WatchKept, CountKept, Fresh

\* The invariant of the decisions holds at the start.
LEMMA InitVerdict ==
  ASSUME StageAssumption, CorrectStimulus, TbInit
  PROVE  VInv
<1>1. Init /\ DUT!Init
  BY DEF TbInit
<1>2. cmp_wait = Off /\ cmpr_out = "1" /\ phase # "item"
  BY <1>1 DEF Init, DUT!Init, Off
<1> QED BY <1>2, InitStimulus, InitWatch
        DEF VInv, IdleTimed, DecisionInTime, NoVerdictWhileSampling

\* What is proved of the stimulus alone holds in the testbench, where the clock
\* also stops for the comparator: the variables stay in their ranges.
THEOREM TestbenchTypeCorrect == TbSpec => []TypeOK
<1>. USE ItemAssumption, StageAssumption, ResponseAssumption
<1>1. TbInit => TInv /\ ResponseTyped
  BY InitStimulus
<1>2. TInv /\ ResponseTyped /\ [TbNext]_tb_vars => (TInv /\ ResponseTyped)'
  BY StimulusStep, Inductive, TypesInductive, ResponseTypesInductive DEF TInv
<1>3. TInv => TypeOK
  BY DEF TInv
<1>. QED  BY <1>1, <1>2, <1>3, PTL DEF TbSpec

\* The pins the comparator and the monitor share move by the protocol.
THEOREM TestbenchImplementsProtocol == ASSUME CorrectStimulus PROVE TbSpec => ProtocolKept
<1>. USE ItemAssumption, StageAssumption, ResponseAssumption
<1>1. TbInit => PInv /\ ResponseTyped
  BY InitStimulus, InitWatch
<1>2. PInv /\ ResponseTyped /\ [TbNext]_tb_vars => (PInv /\ ResponseTyped)'
  BY StimulusStep, Inductive, TypesInductive, ProtocolInductive, ResponseTypesInductive
     DEF PInv, TInv
<1>3. TbInit => Protocol!Init
  BY DEF TbInit, Init, Boot, ControlPins, Protocol!Init
<1>4. PInv /\ ResponseTyped /\ [TbNext]_tb_vars => [Protocol!Next]_(Protocol!vars)
  BY StimulusStep, StepImplements DEF PInv, TInv
<1>. QED  BY <1>1, <1>2, <1>3, <1>4, PTL DEF TbSpec, ProtocolKept, Protocol!Spec

\* The monitor reports each comparison before the next one is asked for: between
\* two edges it hears nothing else, yet it is back at its first wait in time,
\* however an "iff" guard reads the pins and whatever the item lasts.
THEOREM MonitorReports == ASSUME CorrectStimulus PROVE TbSpec => []MonitorKeepsUp
<1>. USE ItemAssumption, StageAssumption, ResponseAssumption
<1>. DEFINE WInv == PInv /\ ResponseTyped /\ WatchKept /\ CountKept
<1>1. TbInit => WInv
  BY InitStimulus, InitWatch
<1>2. WInv /\ [TbNext]_tb_vars => WInv'
  BY StimulusStep, Inductive, TypesInductive, ProtocolInductive, ResponseTypesInductive,
     WatchInductive DEF PInv, TInv
<1>3. WInv => MonitorKeepsUp
  BY DEF CountKept, MonitorKeepsUp
<1>. HIDE DEF WInv
<1>. QED  BY <1>1, <1>2, <1>3, PTL DEF TbSpec

\* Every step of the testbench keeps all of its invariants.
LEMMA TestbenchInductive ==
  ASSUME ItemAssumption, StageAssumption, ResponseAssumption, CorrectStimulus, DecisionFits,
         VInv, [TbNext]_tb_vars
  PROVE  VInv'
<1>1. [FreeNext]_vars
  BY StimulusStep DEF VInv, PInv, TInv
<1>2. PInv' /\ ResponseTyped'
  BY <1>1, Inductive, TypesInductive, ProtocolInductive, ResponseTypesInductive
     DEF VInv, PInv, TInv
<1>3. IdleTimed' /\ CountKept' /\ WatchKept'
  BY <1>1, IdleInductive, WatchInductive DEF VInv
<1> QED BY <1>2, <1>3, VerdictInductive DEF VInv

\* From the edge that starts a sample until am_short is released the comparator
\* shows "comparator invalid": where an IDLE item leaves room for a decision, no
\* verdict of an earlier comparison lands there.
THEOREM SamplingIsSilent ==
  ASSUME CorrectStimulus, DecisionFits PROVE TbSpec => []NoVerdictWhileSampling
<1>. USE ItemAssumption, StageAssumption, ResponseAssumption
<1>1. TbInit => VInv
  BY InitVerdict
<1>2. VInv /\ [TbNext]_tb_vars => VInv'
  BY TestbenchInductive
<1>3. VInv => NoVerdictWhileSampling
  BY DEF VInv
<1>. QED  BY <1>1, <1>2, <1>3, PTL DEF TbSpec

\* Every comparison the driver asks for is made: the COMPARE block, deaf while it
\* decides, has always woken from the one before.
THEOREM ComparesAreMade ==
  ASSUME CorrectStimulus, DecisionFits PROVE TbSpec => NoCompareLost
<1>. USE ItemAssumption, StageAssumption, ResponseAssumption
<1>1. TbInit => VInv
  BY InitVerdict
<1>2. VInv /\ [TbNext]_tb_vars => VInv'
  BY TestbenchInductive
<1>3. VInv /\ [TbNext]_tb_vars => [compares' > compares => cmp_wait = DUT!Off]_tb_vars
  <2>. SUFFICES ASSUME VInv, [TbNext]_tb_vars, compares' > compares PROVE cmp_wait = Off
    BY DEF Off
  <2>1. compares \in Nat
    BY DEF VInv, CountKept
  <2>2. compares' # compares
    BY <2>1
  <2>3. ControlEdges
    BY <2>2, TestbenchStep DEF Response, TimePasses, Aside
  <2> QED BY <2>2, <2>3, EdgesDecide DEF VInv
<1>. QED  BY <1>1, <1>2, <1>3, PTL DEF TbSpec, NoCompareLost
=============================================================================
