------------------------------ MODULE MCApply ------------------------------
(* The instances of ApplyWithCache that TLC checks (MCApply_*.cfg).         *)
EXTENDS ApplyWithCache
=============================================================================
