------------------------------ MODULE Monitor -------------------------------
(***************************************************************************)
(* The monitor (tb/uvc/comp_monitor.sv): it waits for the edges of a cycle *)
(* of the comparator one after the other and publishes an item for it.     *)
(* Between two edges it hears nothing else.  Built without the netlist,    *)
(* the second watchdog (am_cmpr_out_spice) only ever sees the falling edge *)
(* of am_invert; the first one ends at that edge or at the first change of *)
(* the output, and the item is published when both have ended.             *)
(***************************************************************************)
EXTENDS Naturals

CONSTANT IffViews     \* what an "iff" guard reads of a pin of the same commit

VARIABLES
  clk, inv, sh,       \* the control pins it looks at
  in, out,            \* the input pin and am_cmpr_out
  awaits,             \* the edge it waits for
  item,               \* m_comp_item
  published           \* how many items it has written to its port

observed == <<clk, inv, sh, in, out>>
state == <<awaits, item, published>>

Posedge(old, new) == old # new /\ (new = "1" \/ old = "0")
Negedge(old, new) == old # new /\ (new = "0" \/ old = "1")

NoItem == [stored |-> 0, compared |-> 0, heard |-> FALSE, out |-> "X"]

Init == awaits = "sample" /\ item = NoItem /\ published = 0

\* @(posedge am_clk_sample)
Sampling ==
  /\ awaits = "sample" /\ Posedge(clk, clk')
  /\ awaits' = "store"
  /\ UNCHANGED <<item, published>>

\* @(negedge am_invert iff am_short)
Storing ==
  /\ awaits = "store" /\ Negedge(inv, inv')
  /\ \E view \in IffViews : (IF view = "after" THEN sh' ELSE sh) = "1"
  /\ awaits' = "compare"
  /\ item' = [NoItem EXCEPT !.stored = in]
  /\ UNCHANGED published

\* @(posedge am_invert)
Comparing ==
  /\ awaits = "compare" /\ Posedge(inv, inv')
  /\ awaits' = "verdict"
  /\ item' = [item EXCEPT !.compared = in]
  /\ UNCHANGED published

\* The output changes: the watchdog notes when.
DecidingEnds ==          \* mutant: only a timeout gets to the port
  /\ awaits = "verdict" /\ out' # out /\ ~Negedge(inv, inv')
  /\ awaits' = "sample"
  /\ UNCHANGED <<item, published>>
Deciding ==
  /\ awaits = "verdict" /\ out' # out /\ ~Negedge(inv, inv')
  /\ item' = [item EXCEPT !.heard = TRUE]
  /\ UNCHANGED <<awaits, published>>

\* @(negedge am_invert): whatever the output is now is published; without a
\* change before it, the comparator is taken to have held its state.
Publishing ==
  /\ awaits = "verdict" /\ Negedge(inv, inv')
  /\ item' = [item EXCEPT !.out = out']
  /\ published' = published + 1
  /\ awaits' = "sample"

\* The reaction to a change of the observed signals.
Missing ==
  /\ awaits = "sample"  => ~Posedge(clk, clk')
  /\ awaits = "store"   =>
       ~(/\ Negedge(inv, inv')
         /\ \A view \in IffViews : (IF view = "after" THEN sh' ELSE sh) = "1")
  /\ awaits = "compare" => ~Posedge(inv, inv')
  /\ awaits = "verdict" => ~Negedge(inv, inv') /\ out' = out
  /\ UNCHANGED state

React == Sampling \/ Storing \/ Comparing \/ Deciding \/ Publishing \/ Missing
=============================================================================
