---------------------------- MODULE MCFinalizer ----------------------------
(* Instances of FinalizerPatch for TLC. *)
EXTENDS FinalizerPatch
=============================================================================
