----------------------------- MODULE MCNetwork ------------------------------
(* Instances of NetworkPolicies for TLC. *)
EXTENDS NetworkPolicies
=============================================================================
