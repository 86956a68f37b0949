----------------------------- MODULE MCCancelAll -----------------------------
(* Instances of CancelAll for TLC. *)
EXTENDS CancelAll

CONSTANTS o1, o2, o3
=============================================================================
