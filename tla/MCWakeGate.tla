----------------------------- MODULE MCWakeGate -----------------------------
(* TLC instances of WakeGate: runs, sessions and events are interchangeable.  *)
EXTENDS WakeGate, TLC

Symmetric == Permutations(Runs) \cup Permutations(Sessions) \cup Permutations(Events)
=============================================================================
