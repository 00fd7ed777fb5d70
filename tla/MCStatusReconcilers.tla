-------------------------- MODULE MCStatusReconcilers --------------------------
(* A small instance of StatusReconcilers for TLC. *)
EXTENDS StatusReconcilers

CONSTANTS t1
=============================================================================
