----------------------------- MODULE Testbench ------------------------------
(***************************************************************************)
(* tb_top without the netlist: the driver and the sequence, the comparator *)
(* model and the monitor on one interface (tb/comp_if.sv, tb/tb_top.sv).   *)
(* They share the pins and the clock: a commit of the driver is the edge   *)
(* the comparator and the monitor react to, and time moves to the next     *)
(* instant at which the driver or the comparator wakes.                    *)
(***************************************************************************)
EXTENDS Driver

CONSTANTS
  MaxCurrent, BiasCurrent, SupplyMin, SupplyMax, MinErr, MaxErr,
  HoldTime, DecisionGrid, ChargePct, IffViews, BiasWakesInOk, MaxBias

VARIABLES
  in_ok, stored_current, cmpr_out, realtime, since_sample,   \* comparator
  az_wait, cmp_wait, fatal,
  awaits, item, published,                                   \* monitor
  compares    \* comparisons the driver has asked for (observes only)

ASSUME ResponseAssumption ==
  /\ DecisionGrid \subseteq Nat /\ HoldTime \in Nat
  /\ IffViews \subseteq {"before", "after"} /\ IffViews # {}

driver_vars  == vars
dut_state    == <<in_ok, stored_current, cmpr_out, realtime, since_sample,
                  az_wait, cmp_wait, fatal>>
monitor_state == <<awaits, item, published>>
tb_vars == <<driver_vars, dut_state, monitor_state, compares>>

DUT == INSTANCE Comparator WITH
  am_clk_sample <- pin["am_clk_sample"], am_invert <- pin["am_invert"],
  am_short <- pin["am_short"],
  in <- analog["in"], inv_bias <- analog["inv_bias"], vdd <- analog["vdd"],
  AcqHalf <- AcqTime \div 2, DecisionTime <- DecTime,
  InLevels <- {}, BiasLevels <- {}, VddLevels <- {}, MaxAdvance <- 0

Mon == INSTANCE Monitor WITH
  clk <- pin["am_clk_sample"], inv <- pin["am_invert"], sh <- pin["am_short"],
  in <- analog["in"], out <- DUT!AmCmprOut

-----------------------------------------------------------------------------
TbInit == Init /\ DUT!Init /\ Mon!Init /\ compares = 0

\* The driver acts and no pin moves.
Stimulus ==
  /\ \/ \E it \in Items(tracker, Stages[stage].state_transition,
                        Stages[stage].timing) : TakeItem(it)
     \/ ControlStep
     \/ PulseStep
     \/ EndItem
     \/ NextStage
     \/ EndTest
  /\ UNCHANGED <<dut_state, monitor_state, compares>>

\* An analog pin moves, or is written what it shows.
AnalogStep ==
  /\ \E p \in AnalogPins :
       \/ BeginPlay(p)
       \/ \E v \in Wave(p).levels : Resample(p, v)
  /\ \/ analog' = analog /\ UNCHANGED dut_state
     \/ analog'["in"] # analog["in"] /\ DUT!DriveIn(analog'["in"])
     \/ analog'["inv_bias"] # analog["inv_bias"] /\ DUT!DriveBias(analog'["inv_bias"])
     \/ analog'["vdd"] # analog["vdd"] /\ DUT!DriveVdd(analog'["vdd"])
  /\ Mon!React
  /\ UNCHANGED compares

ControlEdges ==
  /\ Commit
  /\ DUT!DriveControl(pin'["am_clk_sample"], pin'["am_invert"], pin'["am_short"])
  /\ Mon!React
  /\ compares' = IF DUT!Posedge(pin["am_invert"], pin'["am_invert"])
                    /\ pin'["am_short"] = "0"
                 THEN compares + 1 ELSE compares

CompleteEdge ==
  /\ CommitComplete
  /\ DUT!DriveComplete(am_complete')
  /\ Mon!React
  /\ UNCHANGED compares

\* The comparator wakes.
Response ==
  /\ phase # "over"
  /\ UNCHANGED <<driver_vars, compares>>
  /\ DUT!AutoZero \/ DUT!Compare
  /\ Mon!React

DutWaits == {w \in {az_wait, cmp_wait} : w # DUT!Off}

\* To the least of all waits.
TimePasses ==
  /\ \E d \in Waits \cup DutWaits : Advance(d) /\ DUT!Advance(d)
  /\ UNCHANGED <<monitor_state, compares>>

\* The simulation is over: the run phase has ended, or $fatal has been called.
Finished == (phase = "over" \/ fatal) /\ UNCHANGED tb_vars

Activity == Stimulus \/ AnalogStep \/ ControlEdges \/ CompleteEdge \/ Response
              \/ TimePasses

TbNext == (~fatal /\ Activity) \/ Finished

TbSpec == TbInit /\ [][TbNext]_tb_vars

\* Every step that is not one more sample of a wave.
Steps == ~fatal /\ (Stimulus \/ ControlEdges \/ CompleteEdge \/ Response
                      \/ TimePasses
                      \/ (AnalogStep /\ forked' # forked))

\* The simulator runs what it has woken and its clock goes on.
FairTbSpec == TbSpec /\ WF_tb_vars(Steps)

-----------------------------------------------------------------------------
\* What the verdicts need of a test, beside CorrectStimulus: an "iff" guard reads
\* what the commit leaves, and an IDLE item lasts as long as a decision may,
\* whichever thread ends it.
DecisionFits ==
  /\ IffViews = {"after"}
  /\ \A i \in 1..Len(Stages) : \A it \in Items("IDLE", "CORRECT", Stages[i].timing) :
       /\ DecTime <= it.invert_to_sample + Remainder(it)
       /\ \A p \in AnalogPins : DecTime <= PlayTime(it.delay, Stages[i].wave[p])

\* From the edge that starts a sample until am_short is released the comparator
\* shows "comparator invalid": no verdict of an earlier comparison lands there.
NoVerdictWhileSampling ==
  pin["am_short"] = "1" => cmpr_out = "1"

\* Every comparison the driver asks for is made: no earlier one is still
\* under way.
NoCompareLost == [][compares' > compares => cmp_wait = DUT!Off]_tb_vars

\* The monitor reports each comparison before the next one is asked for.
MonitorKeepsUp == compares - published \in 0..1

\* No output change heard before am_invert falls: the comparator has held its
\* state, rather than not decided yet.
SilenceMeansHeld ==
  [][published' > published /\ ~item.heard => cmp_wait = DUT!Off]_tb_vars

\* Every comparison of the test has been reported when the run phase ends.
AllReported == phase = "over" => published = compares

\* The test gets through all its stages.
AllStagesRun == <>(phase = "over")
=============================================================================
