--------------------------- MODULE SampleProtocol ---------------------------
(***************************************************************************)
(* The order in which the control pins of the comparator are to move: the  *)
(* abstract specification of the stimulus.  There are no items, threads or *)
(* delays here; Driver implements this specification while it is asked for *)
(* correct transitions.                                                    *)
(***************************************************************************)
VARIABLES
  clk, inv, sh,   \* am_clk_sample, am_invert, am_short; "X" until driven
  fresh           \* a current is held that no comparison has used

vars == <<clk, inv, sh, fresh>>

Init == clk = "X" /\ inv = "X" /\ sh = "X" /\ fresh = FALSE

\* All switches close, never over a current that has not been compared.
Sample ==
  /\ clk # "1" /\ inv = "0" /\ sh = "0" /\ ~fresh
  /\ clk' = "1" /\ inv' = "1" /\ sh' = "1"
  /\ UNCHANGED fresh

\* The falling edge of am_invert keeps the current of that moment.
Store ==
  /\ clk = "1" /\ inv = "1" /\ sh = "1"
  /\ inv' = "0" /\ fresh' = TRUE
  /\ UNCHANGED <<clk, sh>>

Open ==
  /\ clk = "1" /\ inv = "0" /\ sh = "1"
  /\ clk' = "0"
  /\ UNCHANGED <<inv, sh, fresh>>

Release ==
  /\ clk # "1" /\ inv = "0" /\ sh # "0"
  /\ sh' = "0"
  /\ UNCHANGED <<clk, inv, fresh>>

\* The rising edge of am_invert compares with the held current, once.
Compare ==
  /\ clk = "0" /\ inv = "0" /\ sh = "0" /\ fresh
  /\ inv' = "1" /\ fresh' = FALSE
  /\ UNCHANGED <<clk, sh>>

Finish ==
  /\ clk # "1" /\ inv # "0" /\ sh # "1"
  /\ inv' = "0"
  /\ UNCHANGED <<clk, sh, fresh>>

Next == Sample \/ Store \/ Open \/ Release \/ Compare \/ Finish

Spec == Init /\ [][Next]_vars
=============================================================================
