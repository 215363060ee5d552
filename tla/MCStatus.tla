------------------------------ MODULE MCStatus ------------------------------
(* Instances of StatusConditions for TLC. *)
EXTENDS StatusConditions
=============================================================================
