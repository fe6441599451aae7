-------------------------- MODULE MCApprovalQueue --------------------------
(* TLC instances of ApprovalQueue. *)
EXTENDS ApprovalQueue, TLC
=============================================================================
