--------------------------- MODULE KueueContract ---------------------------
(***************************************************************************)
(* What the operator promises about the Kueue object and the things its    *)
(* cleanup is responsible for.  Nothing of the latter exists before the    *)
(* former is guarded by the finalizer; they come in an order in which each *)
(* finds what it needs; what has no owner to be collected with stays until *)
(* the object is being deleted and all else is gone; and the object goes   *)
(* away only once nothing remains.                                         *)
(***************************************************************************)
VARIABLES
    phase,   \* of the Kueue object
    remains  \* what exists of the things the cleanup must remove

vars == <<phase, remains>>

Phases == {"none", "unguarded", "guarded", "terminating"}

\* The serving certificates' Secrets.
Secrets == {"webhook", "metrics"}

\* What goes along with its owner or, the certificates, with cert-manager.
Collectable == {"certs", "clusterRoles", "clusterRoleBindings", "webhooks"}

\* What only the cleanup removes.
Kept == {"configMap"} \union Secrets

Things == Collectable \union Kept

\* What must be there for a thing to be created.
Needs(thing) ==
    CASE thing = "certs" -> {}
      [] thing \in Secrets -> {"certs"}
      [] thing = "configMap" -> Secrets
      [] thing \in Collectable \ {"certs"} -> Kept

Init == phase = "none" /\ remains = {}

Create == phase = "none" /\ phase' = "unguarded" /\ UNCHANGED remains

Guard == phase = "unguarded" /\ phase' = "guarded" /\ UNCHANGED remains

\* An unguarded object is deleted at once.
Discard == phase = "unguarded" /\ phase' = "none" /\ UNCHANGED remains

Terminate == phase = "guarded" /\ phase' = "terminating" /\ UNCHANGED remains

\* A sync that runs when the object is deleted still goes through with it.
Add ==
    /\ phase \in {"guarded", "terminating"}
    /\ \E thing \in Things \ remains :
         /\ Needs(thing) \subseteq remains
         /\ remains' = remains \union {thing}
    /\ UNCHANGED phase

\* The cleanup, the garbage collector or an uninstalled cert-manager.
Lose ==
    /\ phase \in {"guarded", "terminating"}
    /\ \E thing \in Collectable \intersect remains : remains' = remains \ {thing}
    /\ UNCHANGED phase

\* The last step of the cleanup, which may get only part of its work done.
Purge ==
    /\ phase = "terminating"
    /\ remains \subseteq Kept
    /\ remains' \in SUBSET remains
    /\ UNCHANGED phase

Release ==
    /\ phase = "terminating"
    /\ remains = {}
    /\ phase' = "none"
    /\ UNCHANGED remains

Next == Create \/ Guard \/ Discard \/ Terminate \/ Add \/ Lose \/ Purge \/ Release

Spec == Init /\ [][Next]_vars
=============================================================================
