------------------------ MODULE ToleranceComparator -------------------------
(***************************************************************************)
(* What a sampled current comparator promises, whatever is done to its     *)
(* pins: it holds a current, and an answer it gives is right except inside *)
(* a dead zone and inside a relative error band.  There is no time, no pin *)
(* and no process here; Comparator implements this specification.          *)
(***************************************************************************)
EXTENDS Integers

CONSTANTS
  MaxCurrent,   \* no current above this is ever sensed
  MaxBias,      \* no bias, hence no dead zone, above this
  MaxErr        \* the error band, in permil of the input

VARIABLES
  magnitude,    \* size of the current at the input
  level,        \* the current the comparator works with
  deadzone,     \* differences below this are not seen
  held,         \* the sampled current
  busy,         \* a comparison is under way
  verdict       \* "0": the input is below the held current

vars == <<magnitude, level, deadzone, held, busy, verdict>>

\* Only a current that some bias can swallow may read as none.
Levels(m) == {m} \cup (IF m < MaxBias THEN {0} ELSE {})

Between(a, b) == IF a <= b THEN a..b ELSE b..a

Init ==
  /\ magnitude = 0 /\ level = 0 /\ deadzone = 0
  /\ held = 0
  /\ busy = FALSE
  /\ verdict = "1"

\* The world moves.
Sense ==
  /\ magnitude' \in 0..MaxCurrent
  /\ level' \in Levels(magnitude')
  /\ deadzone' \in 0..MaxBias
  /\ UNCHANGED <<held, busy, verdict>>

\* A control edge may move the held current towards the input, open a
\* comparison and withdraw the verdict; it never gives one.
Control ==
  /\ held' \in Between(held, level)
  /\ busy' \in {busy, TRUE}
  /\ verdict' \in {verdict, "1"}
  /\ UNCHANGED <<magnitude, level, deadzone>>

\* "0" is never wrong; "1" is wrong at most inside the error band.
Decide ==
  /\ busy
  /\ busy' = FALSE
  /\ \/ /\ verdict' = "0"
        /\ level <= held /\ held - level >= deadzone
     \/ /\ verdict' = "1"
        /\ \/ level > held
           \/ held - level < deadzone
           \/ 1000 * (held - level) < MaxErr * magnitude
  /\ UNCHANGED <<magnitude, level, deadzone, held>>

Next == Sense \/ Control \/ Decide

Spec == Init /\ [][Next]_vars
=============================================================================
