----------------------------- MODULE MCPolling -----------------------------
(***************************************************************************)
(* Constant values for model checking Polling: a signal that takes probes, *)
(* a second one, and an object that is not integral.  Three records let    *)
(* two of them watch the same signal while a third one changes inside the  *)
(* drain; one change inside a drain meets the list empty and not empty.    *)
(***************************************************************************)
EXTENDS Polling

MCSignals == {"a", "b", "memory"}
MCIntegral == {"a", "b"}
=============================================================================
