------------------------------- MODULE Driver -------------------------------
(***************************************************************************)
(* The stimulus side of the testbench: a test that starts comp_sequence    *)
(* once per stage (tb/tests), the sequence that randomizes the items       *)
(* (tb/uvc/comp_sequence.sv) and the driver that plays them on the pins    *)
(* (tb/uvc/comp_driver.sv).                                                *)
(*                                                                         *)
(* For one item the driver forks a control thread and three analog threads *)
(* and goes on as soon as ANY of them has ended, killing the others.       *)
(* am_complete pulses run in threads of their own that nothing kills.      *)
(* Digital pins are written by non-blocking assignments: a write is        *)
(* pending until every process of that instant has run.  Time jumps to the *)
(* next instant at which a thread wakes.                                   *)
(*                                                                         *)
(* A definition marked "mutant" is a wrong version of the one below it,    *)
(* kept to show that the properties tell them apart; nothing uses it.      *)
(***************************************************************************)
EXTENDS CompItem, Sequences

CONSTANTS
  Stages,     \* what a test does: one record per start() of the sequence
  Wrap,       \* 2^32: comp_delay_ps, invert_to_sample, ... are unsigned
  Shortest,   \* the 1ps an item of no length waits
  DrainTime   \* from the last dropped objection to the end of the run phase

AnalogPins  == {"in", "inv_bias", "vdd"}
ControlPins == {"am_clk_sample", "am_invert", "am_short"}

\* A wave: the time between two samples and the values samples can have.
WaveConfig == [step : Nat \ {0}, levels : SUBSET Int]
Stage == [num : Nat, start : States, state_transition : Controls,
          timing : Controls, am_complete_en : BOOLEAN,
          wave : [AnalogPins -> WaveConfig]]

ASSUME StageAssumption ==
  /\ Stages \in Seq(Stage) /\ Len(Stages) > 0
  /\ Wrap \in Nat \ {0} /\ Shortest \in Nat /\ DrainTime \in Nat \ {0}
  /\ \A d \in Delays : d < Wrap

VARIABLES
  stage,        \* which start() of the sequence
  left,         \* items it still has to send
  tracker,      \* current_tracker
  phase,        \* "get_next_item", "item", "drain" or "over"
  req,          \* the item the driver plays, or played last
  pc, wait,     \* control thread: next statement, time until it runs
  forked,       \* analog threads that have not begun
  ends,         \* analog threads: time until each runs out of samples
  pulses,       \* drive_async_complete threads (two that are alike act alike)
  nba,          \* pending writes of the control pins
  cpl_nba,      \* pending write of am_complete, or "none"
  pin,          \* the control pins
  am_complete,
  analog,       \* the analog pins
  age           \* time since the item was taken

threads == <<pc, wait, forked, ends>>
sequence == <<stage, left, tracker>>
vars == <<sequence, phase, req, threads, pulses, nba, cpl_nba, pin,
          am_complete, analog, age>>

-----------------------------------------------------------------------------
\* The writes of each control task and the delay after them.  The rest of the
\* item's time is computed on unsigned integers.
RemainderSigned(it) ==    \* mutant: as if the fields were signed
  IF it.delay > 0
  THEN it.delay - it.invert_to_sample - it.short_to_invert
  ELSE Shortest
Remainder(it) ==
  IF it.delay > 0
  THEN (it.delay - it.invert_to_sample - it.short_to_invert) % Wrap
  ELSE Shortest

Statement(writes, delay) == [writes |-> writes, wait |-> delay]

Program(it) ==
  CASE it.state = "SAMPLE" ->
         << Statement([am_invert |-> "1", am_short |-> "1",
                       am_clk_sample |-> "1"], Remainder(it)) >>
    [] it.state = "HOLD" ->
         << Statement([am_invert |-> "0"], it.invert_to_sample),
            Statement([am_clk_sample |-> "0"], Remainder(it)) >>
    [] it.state = "COMPARE" ->
         << Statement([am_short |-> "0"], it.short_to_invert),
            Statement([am_invert |-> "1"], Remainder(it)) >>
    [] it.state = "IDLE" ->
         << Statement([am_invert |-> "0"], it.invert_to_sample),
            Statement([am_short |-> "0"], Remainder(it)) >>
    [] it.state = "GLITCH" ->
         << Statement([am_clk_sample |-> it.glitch.clk,
                       am_invert |-> it.glitch.inv,
                       am_short |-> it.glitch.sh], Remainder(it)) >>

\* create_waveform divides the item's time by the step; it takes the time as
\* an int, for which more than half of Wrap is negative, and an array of a
\* negative size as empty.  The thread that plays the samples waits one step
\* after each.
NumSamplesInclusive(delay, wave) ==   \* mutant: one sample too many
  IF delay < Wrap \div 2 THEN delay \div wave.step + 1 ELSE 0
NumSamples(delay, wave) ==
  IF delay < Wrap \div 2 THEN delay \div wave.step ELSE 0
PlayTime(delay, wave) == NumSamples(delay, wave) * wave.step

Wave(p) == Stages[stage].wave[p]

NoWrites == <<>>
Boot == [state |-> "IDLE", delay |-> 0]   \* req before the first item

Init ==
  /\ stage = 1 /\ left = Stages[1].num /\ tracker = Stages[1].start
  /\ phase = "get_next_item" /\ req = Boot
  /\ pc = 1 /\ wait = 0
  /\ forked = {} /\ ends = [p \in AnalogPins |-> 0]
  /\ pulses = {}
  /\ nba = NoWrites
  /\ cpl_nba = "0"                        \* init_signals
  /\ pin = [p \in ControlPins |-> "X"] /\ am_complete = "X"
  /\ analog = [p \in AnalogPins |-> 0]
  /\ age = 0

-----------------------------------------------------------------------------
\* Of two writes to a pin the later one counts.
Merged(later, earlier) ==
  [p \in DOMAIN later \cup DOMAIN earlier |->
     IF p \in DOMAIN later THEN later[p] ELSE earlier[p]]

\* The sequence randomizes an item for the state its tracker holds, and the
\* driver forks the threads.
TakeItem(it) ==
  /\ phase = "get_next_item" /\ left > 0
  /\ nba = NoWrites /\ cpl_nba = "none"   \* the handshake lets these commit
  /\ req' = it /\ tracker' = it.next_state /\ left' = left - 1
  /\ phase' = "item" /\ age' = 0
  /\ pc' = 1 /\ wait' = 0
  /\ forked' = AnalogPins
  /\ ends' = [p \in AnalogPins |-> PlayTime(it.delay, Wave(p))]
  /\ pulses' = IF it.pulse = NoPulse THEN pulses
               ELSE pulses \cup {[wait |-> it.pulse.delay, high |-> FALSE,
                                  duration |-> it.pulse.duration]}
  /\ UNCHANGED <<stage, nba, cpl_nba, pin, am_complete, analog>>

\* The control thread begins or wakes, and runs up to its next delay.
ControlStep ==
  /\ phase = "item" /\ wait = 0 /\ pc <= Len(Program(req))
  /\ LET next == Program(req)[pc]
     IN  nba' = Merged(next.writes, nba) /\ wait' = next.wait
  /\ cpl_nba' = IF req.state = "GLITCH" THEN req.glitch.cpl ELSE cpl_nba
  /\ pc' = pc + 1
  /\ UNCHANGED <<sequence, phase, req, forked, ends, pulses, pin, am_complete,
                 analog, age>>

\* An analog thread begins: it writes its first sample, if it has one.
BeginPlay(p) ==
  /\ phase = "item" /\ p \in forked
  /\ forked' = forked \ {p}
  /\ IF ends[p] > 0
     THEN \E v \in Wave(p).levels : analog' = [analog EXCEPT ![p] = v]
     ELSE UNCHANGED analog
  /\ UNCHANGED <<sequence, phase, req, pc, wait, ends, pulses, nba, cpl_nba,
                 pin, am_complete, age>>

\* An analog thread that still has samples writes another one.
Resample(p, v) ==
  /\ phase = "item" /\ p \notin forked /\ ends[p] > 0
  /\ v # analog[p]
  /\ analog' = [analog EXCEPT ![p] = v]
  /\ UNCHANGED <<sequence, phase, req, threads, pulses, nba, cpl_nba, pin,
                 am_complete, age>>

\* drive_async_complete: up after its delay, down after its duration.
Rise(pl) ==
  /\ pl.wait = 0 /\ ~pl.high
  /\ cpl_nba' = "1"
  /\ pulses' = (pulses \ {pl})
                 \cup {[wait |-> pl.duration, high |-> TRUE, duration |-> 0]}

Fall(pl) ==
  /\ pl.wait = 0 /\ pl.high
  /\ cpl_nba' = "0"
  /\ pulses' = pulses \ {pl}

PulseStep ==
  /\ phase # "over"
  /\ \E pl \in pulses : Rise(pl) \/ Fall(pl)
  /\ UNCHANGED <<sequence, phase, req, threads, nba, pin, am_complete, analog, age>>

\* join_any: one thread at its end is enough; disable fork kills the others.
ControlDone == pc > Len(Program(req)) /\ wait = 0
AnalogDone  == \E p \in AnalogPins \ forked : ends[p] = 0

EndItemKillsPulses ==     \* mutant: disable fork reaches the pulses, too
  /\ phase = "item" /\ (ControlDone \/ AnalogDone)
  /\ phase' = "get_next_item"
  /\ pc' = 1 /\ wait' = 0 /\ age' = 0
  /\ forked' = {} /\ ends' = [p \in AnalogPins |-> 0]
  /\ pulses' = {}
  /\ UNCHANGED <<sequence, req, nba, cpl_nba, pin, am_complete, analog>>
EndItem ==
  /\ phase = "item" /\ (ControlDone \/ AnalogDone)
  /\ phase' = "get_next_item"
  /\ pc' = 1 /\ wait' = 0 /\ age' = 0
  /\ forked' = {} /\ ends' = [p \in AnalogPins |-> 0]
  /\ UNCHANGED <<sequence, req, pulses, nba, cpl_nba, pin, am_complete, analog>>

\* The body of the sequence is over: the test starts it again for its next
\* stage or drops its objection.
NextStageStays ==         \* mutant: the stage just played is started again
  /\ phase = "get_next_item" /\ left = 0
  /\ left' = Stages[stage].num /\ tracker' = Stages[stage].start
  /\ UNCHANGED <<stage, phase, wait, req, pc, forked, ends, pulses, nba, cpl_nba,
                 pin, am_complete, analog, age>>
NextStage ==
  /\ phase = "get_next_item" /\ left = 0
  /\ IF stage < Len(Stages)
     THEN /\ stage' = stage + 1
          /\ left' = Stages[stage'].num /\ tracker' = Stages[stage'].start
          /\ UNCHANGED <<phase, wait>>
     ELSE /\ phase' = "drain" /\ wait' = DrainTime
          /\ UNCHANGED sequence
  /\ UNCHANGED <<req, pc, forked, ends, pulses, nba, cpl_nba, pin, am_complete, analog, age>>

\* The drain time is over: the run phase ends and kills every thread.
EndTest ==
  /\ phase = "drain" /\ wait = 0
  /\ phase' = "over" /\ pulses' = {}
  /\ UNCHANGED <<sequence, req, threads, nba, cpl_nba, pin, am_complete,
                 analog, age>>

-----------------------------------------------------------------------------
\* Nothing is left to run at this instant; then non-blocking writes commit,
\* then time goes on.
Drained ==
  /\ \A pl \in pulses : pl.wait > 0
  /\ phase = "item" => wait > 0 /\ forked = {} /\ ~AnalogDone
  /\ phase = "drain" => wait > 0

Commit ==
  /\ Drained /\ phase # "over" /\ nba # NoWrites
  /\ pin' = Merged(nba, pin) /\ nba' = NoWrites
  /\ UNCHANGED <<sequence, phase, req, threads, pulses, cpl_nba, am_complete,
                 analog, age>>

CommitComplete ==
  /\ Drained /\ phase # "over" /\ cpl_nba # "none"
  /\ am_complete' = cpl_nba /\ cpl_nba' = "none"
  /\ UNCHANGED <<sequence, phase, req, threads, pulses, nba, pin, analog, age>>

Waits == (IF phase \in {"item", "drain"} THEN {wait} ELSE {})
           \cup {pl.wait : pl \in pulses}
           \cup (IF phase = "item" THEN {ends[p] : p \in AnalogPins} ELSE {})

CanAdvance ==
  /\ phase \in {"item", "drain"}
  /\ Drained /\ nba = NoWrites /\ cpl_nba = "none"

Advance(d) ==
  /\ CanAdvance
  /\ d > 0 /\ \A w \in Waits : d <= w
  /\ wait' = wait - d
  /\ ends' = IF phase = "item" THEN [p \in AnalogPins |-> ends[p] - d] ELSE ends
  /\ pulses' = {[pl EXCEPT !.wait = @ - d] : pl \in pulses}
  /\ age' = IF phase = "item" THEN age + d ELSE age
  /\ UNCHANGED <<sequence, phase, req, pc, forked, nba, cpl_nba, pin,
                 am_complete, analog>>

\* The least of the waits.
Elapse == \E d \in Waits : Advance(d)

Progress ==
  \/ \E it \in Items(tracker, Stages[stage].state_transition,
                     Stages[stage].timing) : TakeItem(it)
  \/ ControlStep
  \/ \E p \in AnalogPins : BeginPlay(p)
  \/ PulseStep
  \/ EndItem
  \/ NextStage
  \/ EndTest
  \/ Commit
  \/ CommitComplete
  \/ Elapse

Next ==
  \/ Progress
  \/ \E p \in AnalogPins : \E v \in Wave(p).levels : Resample(p, v)
  \/ phase = "over" /\ UNCHANGED vars

Spec == Init /\ [][Next]_vars

-----------------------------------------------------------------------------
\* Every variable stays in its range: no wait is negative, however the
\* unsigned arithmetic goes, and the control pins are written "0" or "1".
TypeOK ==
  /\ stage \in 1..Len(Stages) /\ left \in Nat /\ tracker \in States
  /\ phase \in {"get_next_item", "item", "drain", "over"}
  /\ pc \in 1..3 /\ wait \in Nat /\ forked \subseteq AnalogPins /\ ends \in [AnalogPins -> Nat]
  /\ \A pl \in pulses : pl.wait \in Nat /\ pl.duration \in Nat /\ pl.high \in BOOLEAN
  /\ DOMAIN nba \subseteq ControlPins /\ \A p \in DOMAIN nba : nba[p] \in Bit
  /\ cpl_nba \in Bit \cup {"none"} /\ am_complete \in Bit \cup {"X"}
  /\ pin \in [ControlPins -> Bit \cup {"X"}]
  /\ analog \in [AnalogPins -> Int] /\ age \in Nat

\* However the unsigned arithmetic of the control thread wraps, no item is
\* played longer than the time it was given.
ItemNeverOverruns == phase = "item" => age <= req.delay

\* The pins go through sampling, holding and comparing in their order: see
\* SampleProtocol.  The sampled current is fresh from the edge that stores it
\* to the edge that compares it.
Protocol == INSTANCE SampleProtocol WITH
  clk <- pin["am_clk_sample"], inv <- pin["am_invert"], sh <- pin["am_short"],
  fresh <- /\ pin["am_invert"] = "0"
           /\ pin["am_short"] = "1" \/ (pin["am_short"] = "0" /\ req.state = "COMPARE")

ProtocolKept == Protocol!Spec

\* What ProtocolKept needs of a test: it asks for correct transitions, a stage
\* that another one follows sends whole cycles, and no wave runs out of samples
\* before an item has made its writes.
CorrectStimulus ==
  \A i \in 1..Len(Stages) :
    /\ Stages[i].start = "IDLE" /\ Stages[i].state_transition = "CORRECT"
    /\ i < Len(Stages) => Stages[i].num % 4 = 0
    /\ \A d \in Delays, s \in DOMAIN Successor, setup \in Setups, p \in AnalogPins :
         Legal(d, s, Stages[i].timing) => setup < PlayTime(d, Stages[i].wave[p])

\* am_complete is up only while some pulse is: every thread that raises it
\* lives on to lower it, whatever happens to the item it came with.
CompleteOnlyInPulse ==
  phase # "over" /\ am_complete = "1" /\ cpl_nba = "none"
    => \E pl \in pulses : pl.high

\* A pulse holds am_complete up as long as it was asked to.
PulseKept ==
  \A pl \in pulses : pl.high /\ cpl_nba = "none" => am_complete = "1"

-----------------------------------------------------------------------------
\* The simulator runs every process it has woken and its clock goes on, however
\* often the analog pins move; an item is always found.
FairSpec == Spec /\ WF_vars(Progress)

\* The test reaches its last stage and ends.
TestEnds == <>(phase = "over")
=============================================================================
