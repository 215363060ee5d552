------------------------------ MODULE MCRollout ------------------------------
(* RolloutTrigger for TLC. *)
EXTENDS RolloutTrigger
=============================================================================
