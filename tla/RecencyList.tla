----------------------------- MODULE RecencyList -----------------------------
(***************************************************************************)
(* What a least recently used cache keeps: its keys, the one used last in  *)
(* front.  A key that is used, or added, comes to the front, and the others*)
(* stay in their order; the keys that are dropped are those used least     *)
(* lately.                                                                 *)
(***************************************************************************)
EXTENDS SequencesExt

CONSTANT Keys

VARIABLE keys

Init == keys = <<>>

Add(k) == k \notin ToSet(keys) /\ keys' = <<k>> \o keys

Use(i) == keys' = <<keys[i]>> \o RemoveAt(keys, i)

Drop(n) == keys' = SubSeq(keys, 1, n)

Next ==
  \/ \E k \in Keys : Add(k)
  \/ \E i \in DOMAIN keys : Use(i)
  \/ \E n \in 0..Len(keys) : Drop(n)

Spec == Init /\ [][Next]_keys
=============================================================================
