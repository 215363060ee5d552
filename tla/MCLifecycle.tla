---------------------------- MODULE MCLifecycle ----------------------------
(* Small instances of KueueLifecycle for TLC.                               *)
EXTENDS KueueLifecycle
=============================================================================
