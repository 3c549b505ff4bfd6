------------------------------ MODULE CompItem ------------------------------
(***************************************************************************)
(* The items a randomized comp_item can be (tb/uvc/comp_item.sv): the      *)
(* solutions of its constraints for the state the sequence put into it and *)
(* the two control knobs.  Times are integers; a range of the source is    *)
(* met at the points of Delays, so that TLC can enumerate it.              *)
(***************************************************************************)
EXTENDS Integers

CONSTANTS
  AcqTime, DecTime,    \* param_acq_time_ps, param_dec_time_ps
  HoldMin, HoldMax,    \* comp_delay_ps of a HOLD item, correct timing
  IdleTime, GlitchTime,
  ShortMin, ShortMax,  \* comp_delay_ps, incorrect timing
  AnyMin, AnyMax,      \* comp_delay_ps, random timing
  Delays,              \* the values of comp_delay_ps explored
  Setups,              \* the values of invert_to_sample and short_to_invert
  CompleteDelays, CompleteDurations,
  CompleteChoices,     \* the values of am_complete_en explored
  GlitchVectors        \* the values of glitch_vector explored

Bit == {"0", "1"}

ASSUME ItemAssumption ==
  /\ {AcqTime, DecTime, HoldMin, HoldMax, IdleTime, GlitchTime,
      ShortMin, ShortMax, AnyMin, AnyMax} \subseteq Nat
  /\ Delays \subseteq Nat /\ Setups \subseteq Nat \ {0}
  /\ CompleteDelays \subseteq Nat \ {0}
  /\ CompleteDurations \subseteq Nat \ {0}
  /\ CompleteChoices \subseteq BOOLEAN
  /\ GlitchVectors \subseteq [clk : Bit, inv : Bit, sh : Bit, cpl : Bit]

States   == {"IDLE", "SAMPLE", "HOLD", "COMPARE", "GLITCH"}
Controls == {"CORRECT", "INCORRECT", "RANDOM"}

\* The phase that should follow (GLITCH has none).
SuccessorSkipsHold == [IDLE |-> "SAMPLE", SAMPLE |-> "COMPARE",  \* mutant
                       HOLD |-> "COMPARE", COMPARE |-> "IDLE"]
Successor == [IDLE |-> "SAMPLE", SAMPLE |-> "HOLD", HOLD |-> "COMPARE",
              COMPARE |-> "IDLE"]

\* c_state_transition
NextStates(state, transition) ==
  LET regular == DOMAIN Successor
      due     == IF state \in regular THEN {Successor[state]} ELSE {}
  IN  CASE transition = "CORRECT"   -> IF due = {} THEN regular ELSE due
        [] transition = "INCORRECT" -> regular \ due
        [] transition = "RANDOM"    -> States \ {state}

\* c_timings: IDLE and GLITCH are not constrained when the timing is to be
\* incorrect.
Legal(delay, state, timing) ==
  CASE timing = "RANDOM" -> delay \in AnyMin..AnyMax
    [] timing = "INCORRECT" ->
         state \in {"SAMPLE", "HOLD", "COMPARE"} => delay \in ShortMin..ShortMax
    [] timing = "CORRECT" ->
         CASE state = "SAMPLE"  -> delay \in (AcqTime \div 5)..AcqTime
           [] state = "HOLD"    -> delay \in HoldMin..HoldMax
           [] state = "COMPARE" -> delay \in (DecTime \div 5)..DecTime
           [] state = "IDLE"    -> delay = IdleTime
           [] state = "GLITCH"  -> delay = GlitchTime

\* c_glitch_pins
NoGlitch == [clk |-> "0", inv |-> "0", sh |-> "0", cpl |-> "0"]
Glitches(state) == IF state = "GLITCH" THEN GlitchVectors ELSE {NoGlitch}

\* c_am_complete.  am_complete_en is a rand field that no constraint mentions:
\* what the sequence wrote into it before randomize() does not count.
NoPulse == [delay |-> 0, duration |-> 0]
Pulses ==
  {p \in {NoPulse} \cup [delay : CompleteDelays, duration : CompleteDurations] :
     (p # NoPulse) \in CompleteChoices}

Items(state, transition, timing) ==
  [state            : {state},
   next_state       : NextStates(state, transition),
   delay            : {d \in Delays : Legal(d, state, timing)},
   invert_to_sample : Setups,
   short_to_invert  : Setups,
   glitch           : Glitches(state),
   pulse            : Pulses]
=============================================================================
