---------------------------- MODULE MCComparator ----------------------------
(***************************************************************************)
(* Constant values for model checking Comparator.  The inputs are one     *)
(* above MAX_CURRENT with a negative sign, one just below it, and one that *)
(* a bias of two swallows.  A bias of one is below BIAS_CURRENT and counts *)
(* as none.  The error band of an input of five is 1.5 wide: it reaches    *)
(* the held current of six, which a valid bias hides in its dead zone.     *)
(* ACQ_TIME/2 is two ticks: a sample can be cut after none or one.         *)
(***************************************************************************)
EXTENDS Comparator

MCChargePct == [t \in 0..1 |-> 60 * t]
MCInLevels == {-7, 1, 5}
MCBiasLevels == {1, 2}
MCVddLevels == {80, 120}
=============================================================================
