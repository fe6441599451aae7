-------------------------- MODULE MCSessionDispatch --------------------------
(* TLC instances of SessionDispatch.  Events of one kind are interchangeable  *)
(* in the runs that check safety only.                                        *)
EXTENDS SessionDispatch, TLC

SameKind == Permutations(Photos) \cup Permutations(Texts)
=============================================================================
