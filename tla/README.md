# TLA+ models of the sampled-current-comparator testbench

The repository holds a real-number model (RNM) of a sampled current comparator,
a UVM testbench that stimulates it, and the UVM library the testbench is built
with. A comparator cycle is IDLE, SAMPLE (switches close, a capacitor charges to
the input current), HOLD (the switches open, the current is kept) and COMPARE
(the input is compared with the kept current). This directory models the
program's own SystemVerilog and the C code of the library, checks both with TLC
and proves the central facts with TLAPS. Paths below are relative to
`src/RNM_testbench/src/`; `dpi/` and `base/` are those of
`src/RNM_testbench/uvm/uvm-2020/src/`.

## Inventory

| Component | State it keeps | Operations | Interacts with |
|---|---|---|---|
| Comparator RNM `model/comparator_RNM.sv` | `stored_current`, `cmpr_out`, `sample_start_time`, the nets `in_ok`, `inv_bias_ok`, three sleeping always blocks | SAMPLE, store on `negedge am_invert`, AUTO-ZERO, COMPARE, supply check | reads the pins, drives `am_cmpr_out` |
| Item `tb/uvc/comp_item.sv` | one randomized item | its constraints | made by the sequence, played by the driver |
| Sequence `tb/uvc/comp_sequence.sv` | `current_tracker`, items left, `seq_timer_ps` | `body`, `create_waveform`, `calculate_waveform` | started by the tests, hands items to the driver |
| Driver `tb/uvc/comp_driver.sv` | its threads: control, three analog, detached `am_complete` pulses | `comparator_control`, `drive_*_pin`, `drive_async_complete` | writes every pin |
| Monitor `tb/uvc/comp_monitor.sv` | the edge it waits for, the item in the making | one cycle of `run_phase` | reads pins and output, publishes to scoreboard and coverage |
| Interface, top `tb/comp_if.sv`, `tb/tb_top.sv` | the pins | | connects all of them |
| Tests `tb/tests/` | | one or more `start()` of the sequence, each with its knobs | |
| Scoreboard, coverage | last item | print, sample bins | fed by the monitor |
| Environment, agent, packages | | construction | |
| Netlist `ams/`, scripts | | | |
| Value-change probes `dpi/uvm_hdl_polling.c`, `base/uvm_hdl_polling.svh` | hook records, `changeList`, `notifier`, VPI callbacks, the draining thread | `uvm_polling_create`, `set_enable_callback`, the value-change handler, `process_changelist`, the reset callback | the simulator calls it, it calls SystemVerilog back |
| HDL access `dpi/uvm_hdl_{vcs,questa,xcelium}.c` | the flag `partsel`, else none | `uvm_hdl_check_path`, `read`, `deposit`, `force`, `release`, `release_and_read` | reads and writes objects of the simulation through VPI, MHPI, FLI, VHPI |
| Expressions `dpi/uvm_regex.cc`, `dpi/uvm_regex.svh`, `base/uvm_lru_cache.svh`, `base/uvm_regex_cache.svh` | one static buffer, compiled expressions, the cache | `uvm_re_match`, `uvm_glob_to_re`, `set_max_size`, `flush` | called wherever the library matches names |
| Command line `dpi/uvm_svcmd_dpi.c`, the library's classes | | | |

What is hard here: sleeping always blocks that miss edges and wake into a later
phase; guards that race with writes of the same batch; a fork in which any
thread ends the item and kills the others; detached threads that outlive their
item; unsigned arithmetic that wraps; a monitor that hears one edge at a time;
the end of the run phase in the middle of a cycle. In the library: handlers that
run while a list is being drained; memory of the C side that outlives or
predeceases what SystemVerilog knows of it; a list with several ends to keep;
slices taken apart into bits, any of which may fail; vectors, strings and buffers
of different widths.

What makes each part correct:

* comparator: the kept current is between the old one and the input, a verdict
  is right outside a dead zone and a relative error band, every started
  comparison answers, no verdict appears in a sample;
* item, sequence, driver: the pins move in the order of a cycle, an item does
  not take longer than its delay, a pulse of `am_complete` is lowered again,
  the test ends;
* monitor: one report per comparison, of the verdict of that comparison;
* tests: every stage is played;
* probes: every change is reported, once, in the end; callbacks neither leak nor
  outlive their record;
* HDL access: a call does what it says when it returns 1, touches only the bits it
  names, and a failed one leaves a prefix of its work;
* expressions: the conversion keeps the meaning of a glob and stays in its buffer;
  the cache changes no result and neither leaks nor frees twice; its list is in the
  order of use.

## Modules

| Module | Models |
|---|---|
| `Comparator` | `comparator_RNM.sv`, under any movement of its pins |
| `ToleranceComparator` | what a comparator promises, without pins, time or processes; `Comparator` implements it |
| `ComparatorProofs` | its theorems |
| `CompItem` | the solutions of the constraints of `comp_item.sv` |
| `Tests` | the stages of `tb/tests/`, from the defaults of `comp_base_test` |
| `Driver` | a test (the constant `Stages`), sequence and driver, down to the pins |
| `SampleProtocol` | the order in which the control pins are to move; `Driver` implements it while asked for correct transitions and timing |
| `DriverProofs` | its theorems; that it implements `SampleProtocol` |
| `Monitor` | `comp_monitor.sv` as a reaction to changes of what it observes |
| `Testbench` | `Driver`, an instance of `Comparator` and an instance of `Monitor` on the same pins and clock |
| `TestbenchProofs` | its theorems |
| `Polling` | the probes: C side, the SystemVerilog thread, the simulator's callbacks, reset |
| `PollingProofs` | its theorems |
| `HdlObject` | an object of the simulation, paths, vectors, the put and get routines; `uvm_polling_getValue32` |
| `HdlVcs`, `HdlQuesta`, `HdlXcelium` | the six functions of one backend each, as operators from an object to an object, a result and an output |
| `Hdl` | the calls, in any order, on one object through one backend |
| `HdlProofs` | its theorems |
| `Glob` | expressions: conversion, regular expressions, the Verilog only matcher, and what a glob means |
| `GlobProofs` | what the conversion and the matchers do, for every glob |
| `RegexCache` | the least recently used cache, node by node |
| `RecencyList` | what such a cache keeps: its keys in the order of their last use, dropped from the end; the cache implements it while its links are whole |
| `Regex` | `uvm_re_match` in its three builds, and the cache's operations |
| `RegexProofs` | its theorems: results, memory, buffer, and the list of the cache |
| `Induction` | induction over numbers, as facts about sets of numbers; powers of 2 |
| `MCComparator`, `MCDriver`, `MCTestbench`, `MCPolling`, `MCHdl`, `MCRegex` | constant values for TLC |

### How state and actions correspond to the code

**Simulator.** An action is one activation of a process. Blocking code between
two delays or event controls is one step. Non-blocking writes are pending
(`nba`, `cpl_nba`) until nothing is left to run at this instant, then commit
together (`Commit`, `CommitComplete`); the zero-time reaction of the blocks an
edge wakes belongs to that step. Then time goes on to the next instant at which
a thread wakes. A delay is a count-down; `Off` is a process that waits at its
event control and can be woken.

**Comparator.** `DriveControl` is a commit to `am_clk_sample`, `am_invert`,
`am_short` with the SAMPLE block, the store block and the start of AUTO-ZERO and
COMPARE. `AutoZero` and `Compare` are what those two do after their delays.
`DriveIn`, `DriveBias`, `DriveVdd`, `DriveComplete` are the other pins, with the
assignments that wake. Two things the language leaves open are constants:
`IffViews` says whether an `iff` guard reads a pin before or after its write in
the same commit, `BiasWakesInOk` whether `assign in_ok = apply_saturation(in)`
wakes on `inv_bias_ok`, which only the function's body reads. `HeldCurrent`
keeps the exponential of the code as a table of percents. The offset error is
any integer permil between the limits, of either sign. `realtime` and
`since_sample` are capped at `ACQ_TIME/2`, the only threshold they meet.

**Item, sequence, driver.** `Items(state, transition, timing)` is the set of
items the constraints allow. `TakeItem` is one turn of the loop in `body()` with
the forks of `run_phase`; `ControlStep` runs the control thread to its next
delay; `BeginPlay`/`Resample` are the analog threads; `Rise`/`Fall` a pulse
thread; `EndItem` is `join_any` with `disable fork`; `NextStage` the next
`start()` of a test; `EndTest` the end of the drain time. `req`, `tracker`,
`left` and `phase` are the variables of the same names, the loop counter and
where the driver is. The previous item's writes commit before the next item is
taken, because `get_next_item` waits for the NBA region
(`uvm_sequencer_base.svh:1381`).

**Waves.** A wave is the time between its samples and the set of its levels; a
thread may write any of them at any time while it has samples. This allows
every wave the source computes, and more. A negative number of samples (`new[n]` with
`n < 0`, which the language calls an error) is taken as an empty array.

**Monitor.** `awaits` is the event control the loop is at. `Missing` is what
happens to every other change: nothing.

**Probes.** A C function that does not call back is one step. `SignalChange` is a
change the simulator sees; `due` are the records whose handler it has yet to call,
in any order (`value_change_callback`). A notification runs SystemVerilog code,
which may write a signal: `SignalChange` also happens between two turns of the
loop in `process_changelist` (`DrainPop`), at most `MaxReentrant` times per drain.
`thread` is where each forked `probes_run` is; `owed` is a history variable, what
SystemVerilog has not been told. `Reset` is `cbStartOfReset` with the restart of
the SystemVerilog side: it frees the records and leaves `changeList` and `notifier`
as they are. A new record may lie in any chunk of memory that holds none, also in one
`changeList` still points to (`allocate_hook_record`); it is then live and marked as
not listed, and a push makes the C list run back into itself. In the model the record
is then in the sequence twice. No code reads such a list, which is what
`DrainsLiveRecords` says; `stale` remembers that a reset left records on it.

**HDL access.** One step is one call, and one the caller's taking of its result.
The output vector starts as `?`: what is still `?` afterwards was never written.
`Hdl` leaves the choice of the backend and of the kind of object (a Verilog
variable, one the PLI may not write, an unpacked one, a VHDL signal) to `Init`.
What a backend is known not to do is written down as predicates above the
properties (`TooWide`, `Unchecked`, `VhdlWriteLoses`, `VhdlReadLoses`,
`ReleaseReadsNot`), each with its reason; the properties say that everything else
is done. Where Xcelium's code may bring the simulator down, it may (`Stop`). So it may
where Questa's VHDL access writes beyond an array on the stack (`Overruns`): such a
call has no result in the model, and nothing is claimed of what comes after it.

**Expressions.** An expression is a sequence of characters, since the conversion is
about them. `regcomp` and `regexec` are modelled as sets of reached positions, for
the patterns of `Understood`: characters, `.`, `*`, `+`, `?`, anchors and alternatives;
no groups, bracket expressions, intervals, escapes with a meaning of their own, and no
repetition of a repetition. A node of the cache is named by its key
and a number, because links and `m_end` may go on naming one that has left the
hash. A null handle that is dereferenced, and a loop that does not end, lower `ok`
and end the simulation.

## Runs

Times are in units of 100 ps and every number of the source is kept (10 us is
100000), except in `MCComparator`, where the behaviour depends on an order of
few durations and small numbers show all of it.

| Run | Asks | Result |
|---|---|---|
| `comparator` | type, input, contract, under all pin movements and both readings of each open point; does every comparison answer | holds, 314 thousand states |
| `driver_sanity` | sanity test with `am_complete` pulses, two stages: pin order, `am_complete` always lowered again, the test ends | holds, 395 thousand states |
| `driver_violations` | types and item length under incorrect and random timing and transitions, glitches included | holds, 357 thousand states |
| `testbench_sanity` | the same test on the whole testbench: no verdict in a sample, no comparison lost, no report missed although pulses turn the output to X, all stages played | holds, 330 thousand states |
| `driver_pulse_kept` | does a pulse last as long as asked | **violated** |
| `testbench_silence` | does silence mean a held state | **violated** |
| `testbench_reports` | is every comparison reported | **violated** |
| `testbench_race` | no verdict in a sample, with an open `iff` reading | **violated** |
| `polling` | probes: one report per change and in the end, no freed record read, callbacks, one drain per fill | holds, 579 thousand states |
| `polling_reset` | is a notification never missed, resets included | **violated** |
| `hdl_access` | HDL access, four builds, all kinds of objects | holds, 480 thousand states |
| `regex` | globs and both matchers; buffer; memory, results and order of the cache | holds, 119 thousand states |

### What the violations show

* `driver_pulse_kept`: pulse threads overlap; the first to end lowers
  `am_complete` for both.
* `testbench_silence`: a correct COMPARE may take 0.4 us and a decision at least
  1 us. The monitor then reports the output of before the comparison as a held
  state (`tb/uvc/comp_monitor.sv:67`).
* `testbench_reports`: the last COMPARE of a test sees no falling edge of
  `am_invert`, so 24 of 25 cycles are reported.
* `testbench_race`: `am_invert` and `am_short` rise in one batch; the guard of
  COMPARE may read the old `am_short`. The other runs of the testbench take the
  new value (`IffViews = {"after"}`), the reading under which the model works as
  meant; this run leaves both open.
* `polling_reset`: the reset callback frees the records and releases the notifier, but
  neither empties `changeList` nor clears `notifier` (`dpi/uvm_hdl_polling.c:287`). In
  the trace a new probe changes after the reset, before the notifier is set up again:
  its handler toggles the released handle instead of reporting a missing notifier, and
  nobody is told. From then on no handler finds the list empty, so no later change is
  reported. A change that is pending at the reset does the same, with a list that
  points to a freed record.

What the properties of the library carve out, because the code does not do it:

* cache: `put` never evicts although its comment says it shall
  (`base/uvm_lru_cache.svh:102`); a hit on the last node leaves `m_end` on the node
  that is now first, so the next eviction takes the key used last, dereferences
  null or goes on for ever; the key does not contain `deglob`;
* buffer: a glob with its own `^` is copied before its length is compared; `/` as a
  regular expression copies `size_t` -1 characters; the Verilog only matcher does
  not know `+` and takes the empty glob for everything;
* globs: the conversion escapes `.`, brackets and parentheses only, and `regcomp` is
  called with `REG_EXTENDED` (`dpi/uvm_regex.cc:154-176, 290`). `|` and `{` keep the
  meaning they have there: the glob `a|b` becomes `^a|b$`, two alternatives with one
  anchor each, and `a{2}` matches `aa`, where the Verilog only build compares both
  literally. `MatchIsGlob` and `VerilogAgrees` are about globs without them. `|` is
  modelled and in the run's letters, as an alternation; intervals are not modelled;
* probes: a change between the first probe and the thread forked with it finds no
  notifier and is fatal;
* HDL access: a failed slice leaves its prefix written, and in Questa the flag
  `partsel` up; VHDL vectors wider than a word come back with their words in
  reverse (Questa, Xcelium) or their digits shifted (VCS); refused writes are
  reported as done (Questa, Xcelium); `release_and_read` does not read (VCS) or
  reads one bit of a slice (Questa); Xcelium frees a wide VHDL vector once per word;
* Questa's buffers: a write to selected bits of a VHDL signal copies the string of the
  whole signal into `vector_val[128]` (`dpi/uvm_hdl_questa.c:535-537, 563-565`), and a
  read of a slice its digits into `reduced_vector[256]` (425-429), without a comparison
  of lengths. From 128 bits and above 256 bits the call overruns the stack; it is an
  exception of `DoneWhenTold`, `ReadIsTrue` and `CheckedPathReads` (`Overruns`);
* `uvm_polling_getValue32` with a chunk beyond the object: its documentation says the
  function "yields an error" (`dpi/uvm_hdl_polling.c:98`), the code takes the last word
  (593) and returns 1. `ChunksExtend` is about the chunks of the object.

Four more things the models show, which no statement of the repository
contradicts:

* under incorrect timing (`cfg_state_transition` correct) an analog thread without
  samples ends an item, through `join_any` (`tb/uvc/comp_driver.sv:58`), before its
  second or even its first control write, so the pins leave their order although the
  transitions are correct;
* the same happens under correct timing where the step of a wave is longer than an
  item. `comp_test_power` gives the supply steps of 5 us and 10 us
  (`tb/tests/comp_test_power.sv:45, 54`). A COMPARE item takes 0.4 us to 2 us, a SAMPLE
  item 2 us to 10 us and a HOLD item 5 us to 10 us: where the item is shorter than the
  step the supply thread has no sample and ends it at once. This test does not satisfy
  `CorrectStimulus`, so what is proved under it is not claimed of this test;
* with random timing a decision that is late lands in the next sample, over the
  auto-zero state;
* the high-voltage stage of `comp_test_power` fails the supply assertion, whose
  `$fatal` (`model/comparator_RNM.sv:97`) ends the simulation before the other two
  stages are played.

### Bounds, and why they are enough

* Comparator: inputs above `MAX_CURRENT` with a negative sign, just below it,
  and one the bias swallows; a bias above and one below `BIAS_CURRENT`; a supply
  above and one in between; two ticks of acquisition, decision and one of hold,
  so that a sample is cut early or not and a verdict falls before, with and after
  the auto-zero. The error band reaches past the dead zone for one input.
  The proofs remove all these bounds.
* Driver and testbench: 4 or 8 items per stage instead of 20 to 100. Four correct
  items bring the pins back to where they were; eight make two full cycles, and a
  second stage starts where one has ended. Ranges of delays are met at their ends
  and at the threshold that matters; setup times at both ends; the drain time, the
  pulses and the steps of the waves are those of the source. `driver_violations`
  adds delays of 0, below the setup times, and above 2^31 ps.
* Probes: three chunks of memory and two signals, so that two records watch the same
  one while a third changes inside the drain; four probes created, so that memory is
  handed out again after the one reset; one change per drain. The proofs remove these
  bounds.
* HDL access: words of two bits and vectors of two words; objects of one word, of
  part of the second, of both, and one that does not fit; bits and slices in either
  direction, across the words, and beyond the object; a written number and one with
  X, Z and bits above the object. Questa's arrays of 128 and 256 characters become 5
  and 2, so that one signal and one slice fit and another does not. The proofs remove
  these bounds.
* Expressions: all globs of up to three of nine characters (`|` among them), and runs of up to 16
  around a limit of 9 in place of 2048; texts of up to three characters; three keys
  in the cache, limits of one and two; one key that means two things. The proofs remove
  these bounds.
* The comparator run stops where `$fatal` ends the simulation: deadlock is not
  checked there, nor in the three runs of the library, where a fatal error or a
  crash ends it. The driver and the testbench have an explicit final step.

### Fairness

`FairSpec` of `Comparator`: the simulator runs a process whose delay is over
(`AutoZero`, `Compare`) and its clock goes on (`Elapse`). `FairSpec` of `Driver`
and `FairTbSpec`: some step that is not one more sample of a wave is taken as
long as one is possible; waves have finitely many samples, so they cannot hold
time up. Nothing is assumed about which item, delay, level or thread comes first.
`FairSpec` of `Polling`: the handlers of a change are called (weak), and the threads
get their turn (strong: changes outside them switch them off and on again, and the
simulator runs all ready threads before its clock moves). The number of changes made
inside a drain is bounded; without a bound, notifications that write signals for ever
would starve the oldest entry of the list, which is taken last.

### Mutants

A definition marked `mutant` in a module is a wrong version of the one that
follows it (a forgotten limit, a swapped operand, an inclusive bound, a killed
thread ...). Nothing uses it. Each property of a passing run is shown to fail when
a mutant takes the place of its original; PROJECT.json lists the pairs.

## Proofs

Checked by TLAPS for every value of the constants that satisfies the named
assumptions, all of which TLC evaluates on the values of the runs:

| Assumption | Says |
|---|---|
| `ParamAssumption`, `BuildAssumption`, `StimulusAssumption` | parameters, open readings and pin levels of the comparator are numbers in their ranges |
| `ItemAssumption`, `StageAssumption` | delays and setup times are numbers, a test has at least one stage, delays are below the wrap |
| `ResponseAssumption` | the instants at which a comparator may decide, in the testbench, are numbers |
| `PollingAssumption` | there are records and signals, and the bounds are numbers |
| `HdlAssumption` | words and vectors have bits, a vector is whole words; a path to one bit has equal bounds; the lengths of Questa's arrays are numbers |
| `GlobAssumption` | the limit of an expression is at least 4 (2048 in the code) |
| `CacheAssumption`, `SizesAssumption`, `TextAssumption` | finitely many keys, limits are numbers, expressions and texts are sequences of characters, and no text holds the one that stands for what `getc` gives beyond the end (a SystemVerilog string has no 0); what `regcomp` is given is within what is modelled of it (`Understood`) |

**Comparator, driver**

* `TypeCorrect`: `Spec => []TypeOK` for the comparator. The part that needs an
  argument is the capacitor: `HeldBetween` shows that a partial charge by a
  percentage with rounding stays between the old current and the input
  (`PercentUp`, `PercentDown`), and `Clipping`, `Saturation` that the input stays
  below `MAX_CURRENT`.
* `InputTracked`: `Spec => []InOkTracksInput`, whichever way `assign in_ok` wakes.
* `ContractHolds`: `Spec => Contract!Spec`, a step simulation. `OffsetBounded`
  bounds the error offset, `VerdictAllowed` turns the three-way test of COMPARE
  into the two cases of the contract. The mapping needs both invariants above.
* `NeverOverruns`: `Spec => []ItemNeverOverruns` for the driver. The property is
  not inductive. What ends an item in time is not the control thread, whose delay
  may have wrapped, but an analog thread; the invariant therefore says that the
  age of an item and what each analog thread has left add up to that thread's play
  time (`PlayTimeLeft`), that every wait is a natural number, so that the clock
  never passes one (`WaitsAreTimes`, with `ProgramWaits` for the wrapped
  remainder), and which item is in force. `PlayTimeBounded`: whole steps of a wave
  never exceed the delay they were cut from.
* `DriverTypeCorrect`: `Spec => []TypeOK` for the driver. Beside the invariant above
  it needs to know what the control tasks write (`ProgramWrites`) and which glitch
  is in force (`GlitchInForce`).
* `CompleteKept`: `Spec => []CompleteOnlyInPulse`, if no glitch vector raises
  `am_complete` or no stage has glitches (`QuietGlitches`): a glitch item writes
  the pin itself. The invariant `PulseUp` adds the pending write to the property:
  while `am_complete` is up, *or about to be*, some pulse is. A `Fall` writes "0" for
  all pulses, which is what `driver_pulse_kept` complains of, and what keeps this true.
* `ImplementsProtocol`: `Spec => ProtocolKept`, if the stages ask for correct
  transitions, those that another follows in whole cycles of four items, and no wave
  runs out of samples before the second write of an item (`CorrectStimulus`; `MCDriver`
  lets TLC evaluate it for the sanity test). Without the last condition `join_any` ends
  an item between its writes; the supply steps of `comp_test_power` do not meet it. The invariant says: the sequence is where the number of items left says
  (`CycleKept`), what an analog thread has left outlasts the wait before the second
  write (`WavesLast`), and the pins are at the item's write count or exactly one
  write behind it (`PinsFollow`), which is pending only while the control thread still
  waits. The mapping hides a pending write; a `Commit` is the step of the protocol.

**Testbench**

Proved of `TbSpec` under `CorrectStimulus`, the last two also under `DecisionFits`: an
`iff` guard reads what the commit leaves, and an IDLE item lasts as long as a decision
may, whichever thread ends it. Of the times a verdict takes only the type is assumed.
TLC evaluates both conditions for the sanity test (`SanityLeavesRoom`).

* `TestbenchImplementsProtocol`: the composition keeps the protocol; its steps are
  steps of the driver or leave the driver alone (`TestbenchStep`, `StimulusStep`).
* `MonitorReports`: `[]MonitorKeepsUp`. The invariant relates what the monitor awaits
  and what it has published to the place of the pins in the protocol (`WatchKept`,
  `CountKept`).
* `SamplingIsSilent`, `ComparesAreMade`: `[]NoVerdictWhileSampling` and no comparison
  lost. `VInv` adds to the invariants above how much of an IDLE item has passed
  (`IdleTimed`) and that a decision is under way only in the comparing item and in the
  IDLE item after it, of which no more has passed than of the decision
  (`DecisionInTime`). The COMPARE block thus waits for its edge again when the next
  sample starts, and no verdict is left to land in it.

**HDL access**, all backends, kinds of objects, widths, paths and vectors

* `OnlySelected`: `Spec => []OnlySelectedBits`. Each backend's set routine ends in one
  put routine, which changes the bits it is given (`PutAtWithin`); what is left is that
  those are selected and exist: the loop over a slice only reaches bits it found
  (`PrefixIsSelected`), the FLI's are cut to the string, the others are looked up first.
* `HdlTypeCorrect`, `WritesDoneWhenTold`, `FailedWritesArePrefixes`, `ReadsAreTrue`,
  `ReadsAreCleared`, `FoundPathsRead`: what the result of a call says of the object and
  of the output. One auxiliary invariant, `CheckHolds`, remembers what a successful
  check has looked up; the rest follows from the call alone. The loops over slices are
  the common part: the step of a loop and the bit of the vector it meets
  (`StepsAndBits`), where it stops (`LoopStops`), what it has written by then
  (`SliceWrites`); `StringsGive` does the same for the strings of MHPI and FLI, and
  `ReleaseKeepsValues` for the release. The exceptions are the predicates above the
  properties, so a theorem says that there are no others. `ReadsAreTrue` speaks of the
  bits that fit the vector. `ObjectTypeCorrect` is the part of the type invariant that
  all of these rest on.
* `ChunksAreExtended`: the words of `uvm_polling_getValue32` are the value, extended
  with its sign or with zeros, for any width and word size. It needs that 2^n grows by
  doubling, for the recursive function the model computes it with (`PowerSum`).

**Probes**

* `PollingProofs`: `TypeCorrect`, `PendingIsExact`, `RegistrationsKept`,
  `NoFreedRecordIsRead`, `NothingMissed`, all from one inductive invariant. What it
  adds to the properties: memory that holds no live record has no callback, no handler
  due and nothing owed (`Freed`), a list that a reset left with freed records is never
  empty again and no thread is awake for it (`StaleUntouched`), a handler is only due for a live
  record (`DueIsLive`), `probes_run` is running only with a notifier
  (`NotifierReady`), and, before a reset, a list that is not empty has a thread that
  is awake (`ListHasDrainer`). The last is why the toggle on an empty list is enough:
  the thread goes back to its event control only when the list is empty, in the same
  step, and the next push toggles again. `StaleUntouched` is why reused memory does no
  harm: the only step that wakes a thread is a toggle on an empty list, and only a
  thread that is awake takes anything off it.

**Expressions**

* `RegexTypeCorrect`, `CompiledMemoryIsCached`, `CacheChangesNoResult`, from `RInv`: each
  hash entry is a node of its own key that holds an expression compiled from that key
  (`Sound`), and the memory in use is what those nodes hold. It says nothing of the
  links, so it survives a broken list. Evictions are a loop of turns, each of which
  takes at most one key (`Shrunk`), and there are no more turns than keys; a new node
  that nothing names exists because links and ends name at most two nodes for each key,
  and a key has one number more (`NewIsNode`, a pigeonhole).
* `UseKeepsOrder`, `ListStaysWhole`, `OldestAreEvicted`: the list. `Forward` and
  `Backward` say that a sequence of nodes is what the links spell; there is at most one
  such sequence (`ForwardIsPath`), and each operation transforms it: a hit moves a node
  to the front (`UpdateMoves`), a miss puts one in front (`PutAdds`), an eviction removes
  one (`UnlinkRemoves`), `evict_to_max` cuts the end (`EvictToMaxCuts`), `flush` leaves
  none (`FlushEmpties`). The steps of `RecencyList` are the same on keys. The one step
  that leaves the sequence whole forwards but not backwards is the hit on the last node.
* `GlobsMatchWhatTheyMean`, `ConversionIsKept`, `ConversionStaysInBuffer`, from `CallInv`,
  which records what a call has been asked. The conversion of a glob has a shape
  (`BodyShape`), which `regcomp` reads back piece by piece (`RegcompOfBody`), and which
  `regexec` matches as the glob is meant to (`GlobIsMatched`); brackets and anchors are
  taken off by a second conversion (`BracketsStrip`, `AnchoredShape`); what is written is
  bounded by induction on the characters read (`WrittenFits`).
* `VerilogMatchesAsC`, from `CallInv`: `Ends` says that what is left of a glob matches
  what is left of a text. `LoopOk` is the invariant of the Verilog only loop: the part of
  the glob behind the last `*` fits where the try stands, and a match of the whole needs
  one of that part from there or later. Taking another `*` keeps this because a match
  that begins later is no loss (`TurnKeeps`); so it is enough to go back to the last one.
  `Progress` counts the turns: the loop is over within `MaxTurns`, so the model cuts
  nothing off. What the C code says of the same glob is `CompiledGlobMatches`.

**Induction.** The library states induction for an operator, which the installed
provers cannot instantiate. `NatMin` states it of a set: a set of numbers that is not
empty has a least one. A recursive function of the models is shown to exist by building
it in turns (`Iterated`), and what it computes by induction on the turns.

Model-checked only: liveness (`EveryCompareAnswers`, `TestEnds`, `AllStagesRun`,
`EveryChangeServed`), which needs fairness and `ENABLED`, and the properties the code
violates.

## Not modelled

* the current consumption `idd`, which nothing reads; `vss`, which nothing drives;
* the values of the waves and `seq_timer_ps`; scoreboard and coverage (planned);
* clock and reset, which no component reads (`vif.clk` has a second driver in
  `init_signals`);
* the netlist and the mixed-signal build (`ENABLE_MS`): continuous behaviour;
* construction and connection of the components, scripts;
* of the library: the command line (`dpi/uvm_svcmd_dpi.c`, two passes over an
  argument vector, no shared state), `uvm_memory_load`, which only reports that it is
  not supported or forwards to the simulator, `uvm_hdl_force_time`, messages, and the
  SystemVerilog classes, of which only the handshake with the sequencer and the end of
  the phases appear, where driver and tests use them;
* of the HDL access: the build `VCSMX_FAST_UVM`, VHDL types other than logic, nets
  (a force and a release there give the value back to the drivers), slices that are
  wider than the vector: the loops of Questa and Xcelium then write beyond it; what
  follows once Questa's VHDL access has overrun an array on the stack; path names longer
  than the buffers they are copied to (`path_str[80]`, `path_copy[1024]`): a path is a
  name that is known or not, and a selection;
* of the expressions: groups, bracket expressions, intervals and the other patterns
  outside `Understood`, so also globs with `{` or with a backslash before a letter;
* of the probes: the user-defined backdoor, statistics, and enquiries that change no
  state; calls with a handle of before a reset, which may name a new record.

## Plan

Done: the comparator with its contract, the stimulus with its protocol, monitor and
testbench; the C side of the library: probes, HDL access, expressions and the cache.
Left, in this order:

1. `Waveform`: `create_waveform` and `calculate_waveform` on integers, with
   `seq_timer_ps` carried over items: phase within the period, level within
   offset and amplitude for every type, samples of one item against the next;
   32-bit product `i * cfg.step_ps`. Small periods and steps, including zero.
2. `Scoreboard`: the commented-out predictor and `calculate_db_diff` against the
   published items; does the predictor agree with the contract outside the band,
   and where does the input that moves during a decision make it disagree.
   `Coverage`: which bins a published item can reach.
3. Repeated stores without a new sample (`sample_start_time` of 0) as a property
   of `Comparator`, and under `comp_test_sequence_violation` in the testbench.
4. Proofs about `Waveform` and `Scoreboard`, once they are there: the phase within the
   period for every period and step.
