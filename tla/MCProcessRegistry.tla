-------------------------- MODULE MCProcessRegistry --------------------------
(* TLC instance of ProcessRegistry: one local and one sandboxed process.      *)
EXTENDS ProcessRegistry
=============================================================================
