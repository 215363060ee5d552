-------------------------- MODULE StatusConditions --------------------------
(***************************************************************************)
(* How the conditions of the Kueue object follow the operand's Deployment  *)
(* and the cluster: the Deployment rolls out, loses pods and reports its   *)
(* status on its own, the operator reads it through its lister or live     *)
(* (applyDeploymentWithCache), and applies the conditions it derives from  *)
(* it.  Transition times are left out.                                     *)
(*                                                                         *)
(* A sync is reduced to the three places that decide conditions: the       *)
(* cert-manager gate, the TLS profile and the Deployment.  The Deployment  *)
(* controller and the API server are external; a server-side apply by the  *)
(* only field manager replaces all conditions.                             *)
(***************************************************************************)
EXTENDS Naturals, FiniteSets, TLC

CONSTANTS
    NoDeployment, NoMemo,
    MaxDisturbances   \* edits of spec (each a new pod template), obstacles coming
                      \* and going, failed calls, restarts, lost pods

ASSUME StatusAssumption ==
    MaxDisturbances \in Nat

\* The Deployment: its pod template, the counters of its status, its version.
Deployments == [template: Nat, ready: Nat, unavailable: Nat, version: Nat]

\* What the resource cache remembers.
Memos == [template: Nat, version: Nat]

ASSUME NothingAssumption == NoDeployment \notin Deployments /\ NoMemo \notin Memos

desired == 2   \* the replicas manageDeployment sets
maxSurge == 1  \* the default, 25 %, of them

\* What stands in the way of a Kueue that is fully served.
Obstacles == {"noCertManager", "oldTLS", "noDependency"}

VARIABLES
    template,     \* the pod template spec asks for
    obstacles,    \* the obstacles in the cluster
    deployment,   \* the live Deployment
    old, new,     \* its ready pods of earlier templates, and of the current one
    lister,       \* the informer's copy of the Deployment
    conditions,   \* the live conditions of the Kueue object
    pc,
    missing,      \* the sync's dependencyCondition is set
    returned,     \* the Deployment manageDeployment returned
    memo,         \* the resource cache: template required and version it made
    reported,     \* the version of the Deployment the live conditions are about
    disturbances

envVars == <<template, obstacles>>
operandVars == <<deployment, old, new, lister>>
statusVars == <<conditions, reported>>
syncVars == <<pc, missing, returned, memo>>
vars == <<envVars, operandVars, statusVars, syncVars, disturbances>>

Disturbance ==
    /\ disturbances < MaxDisturbances
    /\ disturbances' = disturbances + 1

-----------------------------------------------------------------------------
(* The conditions *)

Condition(status, reason) == [status |-> status, reason |-> reason]

\* Variant: zero unavailable replicas count as some.
buildOperatorConditionsOffByOne(d, dependencyMissing) ==
    LET allReady == d.ready = desired /\ d.ready > 0
    IN  [Available |-> IF allReady THEN Condition(TRUE, "AllReplicasReady")
                       ELSE Condition(FALSE, "NotEnoughReplicas"),
         Progressing |-> IF allReady THEN Condition(FALSE, "AsExpected")
                         ELSE Condition(TRUE, "Reconciling"),
         Degraded |-> Condition(TRUE, IF dependencyMissing THEN "MissingDependencies"
                                      ELSE "UnavailableReplicas"),
         CertManagerAvailable |-> Condition(TRUE, "CertManagerInstalled")]

buildOperatorConditions(d, dependencyMissing) ==
    LET allReady == d.ready = desired /\ d.ready > 0
    IN  [Available |-> IF allReady THEN Condition(TRUE, "AllReplicasReady")
                       ELSE Condition(FALSE, "NotEnoughReplicas"),
         Progressing |-> IF allReady THEN Condition(FALSE, "AsExpected")
                         ELSE Condition(TRUE, "Reconciling"),
         Degraded |-> IF dependencyMissing THEN Condition(TRUE, "MissingDependencies")
                      ELSE IF d.unavailable > 0 THEN Condition(TRUE, "UnavailableReplicas")
                      ELSE IF d.ready = 0 /\ desired > 0 THEN Condition(TRUE, "NoReplicasReady")
                      ELSE Condition(FALSE, "AsExpected"),
         CertManagerAvailable |-> Condition(TRUE, "CertManagerInstalled")]

NotServed(reason) ==
    [Available |-> Condition(FALSE, reason),
     Progressing |-> Condition(FALSE, reason),
     Degraded |-> Condition(TRUE, reason)]

buildCertManagerMissingConditions == NotServed("MissingDependency")
buildUnsupportedTLSProfileConditions == NotServed("UnsupportedTLSProfile")

\* The version is that of the Deployment the conditions are about, if any.
updateKueueStatus(conds, version) ==
    /\ conditions' = conds
    /\ reported' = version

-----------------------------------------------------------------------------
(* A sync *)

\* The sync returns and its locals are gone.
Return == pc' = "idle" /\ missing' = FALSE /\ returned' = NoDeployment

\* cert-manager is there; the dependencies are looked for.
BeginSync ==
    /\ pc = "idle"
    /\ "noCertManager" \notin obstacles
    /\ missing' = ("noDependency" \in obstacles)
    /\ pc' = "tlsProfile"
    /\ UNCHANGED <<envVars, operandVars, statusVars, returned, memo, disturbances>>

CertManagerMissing ==
    /\ pc = "idle"
    /\ "noCertManager" \in obstacles
    /\ updateKueueStatus(buildCertManagerMissingConditions, reported)
    /\ UNCHANGED <<envVars, operandVars, syncVars, disturbances>>

TLSProfile ==
    /\ pc = "tlsProfile"
    /\ IF "oldTLS" \in obstacles
       THEN /\ updateKueueStatus(buildUnsupportedTLSProfileConditions, reported)
            /\ Return
       ELSE /\ pc' = "deployment"
            /\ UNCHANGED <<statusVars, missing, returned>>
    /\ UNCHANGED <<envVars, operandVars, memo, disturbances>>

\* Variant: what was required last time is enough to skip the apply.
SafeToSkipByHash == lister # NoDeployment /\ memo # NoMemo /\ memo.template = template

\* SafeToSkipApply on the lister's copy.
SafeToSkip ==
    /\ lister # NoDeployment
    /\ memo = [template |-> template, version |-> lister.version]

Applied ==
    IF deployment = NoDeployment
    THEN [template |-> template, ready |-> 0, unavailable |-> 0, version |-> 1]
    ELSE IF deployment.template = template THEN deployment
    ELSE [deployment EXCEPT !.template = template, !.version = @ + 1]

\* Variant: what the lister holds is returned even when it holds nothing.
manageDeploymentReturnsLister ==
    /\ pc = "deployment"
    /\ deployment' = Applied
    /\ returned' = lister
    /\ pc' = "status"
    /\ UNCHANGED <<envVars, old, new, lister, statusVars, missing, memo, disturbances>>

\* applyDeploymentWithCache: the lister's copy, or the live object created,
\* brought up to date or left alone.  A new template makes all pods old ones.
manageDeployment ==
    /\ pc = "deployment"
    /\ IF SafeToSkip
       THEN /\ returned' = lister
            /\ UNCHANGED <<deployment, old, new, memo>>
       ELSE /\ deployment' = Applied
            /\ returned' = Applied
            /\ memo' = [template |-> template, version |-> Applied.version]
            /\ IF deployment # NoDeployment /\ deployment.template # template
               THEN old' = old + new /\ new' = 0
               ELSE UNCHANGED <<old, new>>
    /\ pc' = "status"
    /\ UNCHANGED <<envVars, lister, statusVars, missing, disturbances>>

ReportStatus ==
    /\ pc = "status"
    /\ updateKueueStatus(buildOperatorConditions(returned, missing), returned.version)
    /\ Return
    /\ UNCHANGED <<envVars, operandVars, memo, disturbances>>

Sync == BeginSync \/ CertManagerMissing \/ TLSProfile \/ manageDeployment \/ ReportStatus

SyncFails ==
    /\ pc # "idle"
    /\ Disturbance
    /\ Return
    /\ UNCHANGED <<envVars, operandVars, statusVars, memo>>

Restart ==
    /\ Disturbance
    /\ Return
    /\ memo' = NoMemo
    /\ UNCHANGED <<envVars, operandVars, statusVars>>

-----------------------------------------------------------------------------
(* The Deployment and its controller *)

\* Pods being started: what is lacking of the new template, within the surge.
Starting ==
    LET lacking == desired - new
        room == (desired + maxSurge) - (old + new)
    IN  IF lacking <= room THEN lacking ELSE room

Exists == deployment # NoDeployment

PodReady ==
    /\ Exists
    /\ Starting > 0
    /\ new' = new + 1
    /\ UNCHANGED <<envVars, deployment, old, lister, statusVars, syncVars, disturbances>>

\* maxUnavailable is 1.
OldPodRemoved ==
    /\ old > 0
    /\ old + new > desired - 1
    /\ old' = old - 1
    /\ UNCHANGED <<envVars, deployment, new, lister, statusVars, syncVars, disturbances>>

PodLost ==
    /\ Disturbance
    /\ \E lost \in {"old", "new"} :
          /\ (IF lost = "old" THEN old ELSE new) > 0
          /\ old' = IF lost = "old" THEN old - 1 ELSE old
          /\ new' = IF lost = "new" THEN new - 1 ELSE new
    /\ UNCHANGED <<envVars, deployment, lister, statusVars, syncVars>>

DeploymentStatus ==
    /\ Exists
    /\ LET current == [deployment EXCEPT !.ready = old + new, !.unavailable = Starting]
       IN  /\ current # deployment
           /\ deployment' = [current EXCEPT !.version = @ + 1]
    /\ UNCHANGED <<envVars, old, new, lister, statusVars, syncVars, disturbances>>

ListerCatchesUp ==
    /\ lister # deployment
    /\ lister' = deployment
    /\ UNCHANGED <<envVars, deployment, old, new, statusVars, syncVars, disturbances>>

-----------------------------------------------------------------------------

UserEdit ==
    /\ Disturbance
    /\ template' = template + 1
    /\ UNCHANGED <<obstacles, operandVars, statusVars, syncVars>>

ClusterChange ==
    /\ Disturbance
    /\ \E o \in Obstacles :
          obstacles' = IF o \in obstacles THEN obstacles \ {o} ELSE obstacles \union {o}
    /\ UNCHANGED <<template, operandVars, statusVars, syncVars>>

Init ==
    /\ template = 0
    /\ obstacles = {}
    /\ deployment = NoDeployment /\ lister = NoDeployment
    /\ old = 0 /\ new = 0
    /\ conditions = <<>>
    /\ pc = "idle"
    /\ missing = FALSE
    /\ returned = NoDeployment
    /\ memo = NoMemo
    /\ reported = 0
    /\ disturbances = 0

Rollout == PodReady \/ OldPodRemoved

Next ==
    \/ Sync \/ SyncFails \/ Restart
    \/ Rollout \/ PodLost \/ DeploymentStatus
    \/ ListerCatchesUp
    \/ UserEdit \/ ClusterChange

Fairness ==
    /\ WF_vars(Sync)
    /\ WF_vars(Rollout) /\ WF_vars(DeploymentStatus)
    /\ WF_vars(ListerCatchesUp)

Spec == Init /\ [][Next]_vars /\ Fairness

-----------------------------------------------------------------------------
(* Properties *)

Types == {"Available", "Progressing", "Degraded", "CertManagerAvailable"}

TypeOK ==
    /\ disturbances \in 0..MaxDisturbances
    /\ template \in 0..disturbances
    /\ old \in 0..(desired + maxSurge) /\ new \in 0..desired
    /\ old + new <= desired + maxSurge
    /\ {deployment, lister, returned} \subseteq Deployments \union {NoDeployment}
    /\ memo \in Memos \union {NoMemo}
    /\ reported \in Nat
    /\ DOMAIN conditions \subseteq Types
    /\ pc \in {"idle", "tlsProfile", "deployment", "status"}
    /\ missing \in BOOLEAN
    /\ pc = "status" => returned # NoDeployment

\* Successive reports are about successive versions of the Deployment: a
\* lagging lister never takes the conditions back to an earlier one, because
\* its copy is used only at the very version the last apply made.
NeverRegresses == [][reported' >= reported]_vars

\* What the conditions should say when everything rests.
Truth ==
    /\ conditions # <<>>
    /\ CASE "noCertManager" \in obstacles ->
              /\ conditions.Degraded.reason = "MissingDependency"
              /\ ~ conditions.Available.status
              /\ "CertManagerAvailable" \notin DOMAIN conditions
         [] obstacles \intersect {"noCertManager", "oldTLS"} = {"oldTLS"} ->
              /\ conditions.Degraded.reason = "UnsupportedTLSProfile"
              /\ ~ conditions.Available.status
         [] OTHER ->
              /\ conditions.Available.status /\ ~ conditions.Progressing.status
              /\ conditions.Degraded.status <=> "noDependency" \in obstacles
              /\ deployment.template = template
              /\ old = 0 /\ new = desired

\* Once edits, changes and faults are over the conditions become, and stay,
\* what the pods and the cluster are, although every version of the Deployment
\* may be missed or read late.
StatusConverges == <>[]Truth
=============================================================================
