---------------------------- MODULE MCInboxClaim ----------------------------
(* TLC instances of InboxClaim.  Watcher names and requests are              *)
(* interchangeable in the run that checks safety only.                       *)
EXTENDS InboxClaim, TLC

Interchangeable == Permutations(Watchers) \cup Permutations(Requests)
=============================================================================
