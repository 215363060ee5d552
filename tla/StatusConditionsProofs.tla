----------------------- MODULE StatusConditionsProofs -----------------------
(* Machine-checked proofs about StatusConditions, for every number of       *)
(* disturbances.                                                            *)
EXTENDS StatusConditions, SequenceTheorems, TLAPS

\* Every copy of the Deployment, and the report, is of a version it has had.
VersionsPast ==
    /\ deployment = NoDeployment => lister = NoDeployment /\ memo = NoMemo /\ reported = 0
    /\ deployment # NoDeployment =>
          /\ lister # NoDeployment => lister.version <= deployment.version
          /\ memo # NoMemo => memo.version <= deployment.version
          /\ reported <= deployment.version

\* The report does not pass the version the resource cache remembers, and a
\* Deployment on its way into the status is at that version.
ReportFollowsMemo ==
    /\ memo # NoMemo => reported <= memo.version
    /\ pc = "status" => memo # NoMemo /\ returned.version = memo.version

StatusInv == TypeOK /\ VersionsPast /\ ReportFollowsMemo

(***************************************************************************)
(* What steps have in common                                               *)
(***************************************************************************)

\* The condition sets have the types a Kueue object may have.
LEMMA ConditionTypes ==
    /\ DOMAIN buildCertManagerMissingConditions \subseteq Types
    /\ DOMAIN buildUnsupportedTLSProfileConditions \subseteq Types
    /\ \A d, m : DOMAIN buildOperatorConditions(d, m) \subseteq Types
BY DEF buildCertManagerMissingConditions, buildUnsupportedTLSProfileConditions, NotServed,
       buildOperatorConditions, Types

\* An apply leaves a Deployment whose version is not below the live one's.
LEMMA AppliedEffect ==
    ASSUME StatusInv
    PROVE  /\ Applied \in Deployments
           /\ deployment # NoDeployment => deployment.version <= Applied.version
<1>1. template \in Nat /\ deployment \in Deployments \union {NoDeployment}
  BY DEF StatusInv, TypeOK
<1>2. CASE deployment = NoDeployment
  BY <1>1, <1>2 DEF Applied, Deployments
<1>3. CASE deployment # NoDeployment
  <2>1. deployment \in Deployments /\ deployment.version \in Nat
    BY <1>1, <1>3 DEF Deployments
  <2>2. CASE deployment.template = template
    BY <1>3, <2>1, <2>2 DEF Applied
  <2>3. CASE deployment.template # template
    <3>1. Applied = [deployment EXCEPT !.template = template, !.version = @ + 1]
      BY <1>3, <2>3 DEF Applied
    <3>2. Applied = [template |-> template, ready |-> deployment.ready,
                     unavailable |-> deployment.unavailable,
                     version |-> deployment.version + 1]
      BY <2>1, <3>1 DEF Deployments
    <3> QED
      BY <1>1, <2>1, <3>2 DEF Deployments
  <2> QED
    BY <2>2, <2>3
<1> QED
  BY <1>2, <1>3

\* Pods being started are counted by a natural number.
LEMMA StartingType ==
    ASSUME TypeOK
    PROVE  /\ Starting \in Nat
           /\ Starting > 0 => new < desired /\ old + new < desired + maxSurge
BY DEF TypeOK, Starting, desired, maxSurge

\* A step of the operand's pods, the user or the cluster keeps the versions.
LEMMA QuietStep ==
    ASSUME StatusInv, TypeOK',
           UNCHANGED <<deployment, lister, statusVars, syncVars>>
    PROVE  StatusInv'
BY DEF StatusInv, VersionsPast, ReportFollowsMemo, statusVars, syncVars

\* Every step keeps the invariant.
LEMMA StatusStep == StatusInv /\ [Next]_vars => StatusInv'
<1> SUFFICES ASSUME StatusInv, [Next]_vars PROVE StatusInv'
  OBVIOUS
<1> USE StatusAssumption, NothingAssumption
        DEF envVars, operandVars, statusVars, syncVars
<1>a. TypeOK /\ VersionsPast /\ ReportFollowsMemo
  BY DEF StatusInv
<1>1. CASE UNCHANGED vars
  BY <1>1 DEF vars, StatusInv, TypeOK, VersionsPast, ReportFollowsMemo
<1>2. CASE BeginSync
  BY <1>2, <1>a DEF BeginSync, StatusInv, TypeOK, VersionsPast, ReportFollowsMemo
<1>3. CASE CertManagerMissing
  BY <1>3, <1>a, ConditionTypes
     DEF CertManagerMissing, updateKueueStatus, StatusInv, TypeOK, VersionsPast, ReportFollowsMemo
<1>4. CASE TLSProfile
  BY <1>4, <1>a, ConditionTypes
     DEF TLSProfile, Return, updateKueueStatus, StatusInv, TypeOK, VersionsPast, ReportFollowsMemo
<1>5. CASE manageDeployment
  <2>1. CASE SafeToSkip
    <3>1. lister \in Deployments /\ memo.version = lister.version /\ memo # NoMemo
      <4>1. lister \in Deployments /\ memo = [template |-> template, version |-> lister.version]
        BY <1>a, <2>1 DEF SafeToSkip, TypeOK
      <4>2. memo \in Memos
        BY <1>a, <4>1 DEF TypeOK, Deployments, Memos
      <4> QED
        BY <4>1, <4>2
    <3>2. TypeOK'
      BY <1>5, <1>a, <2>1, <3>1 DEF manageDeployment, TypeOK
    <3> QED
      BY <1>5, <1>a, <2>1, <3>1, <3>2
         DEF manageDeployment, StatusInv, VersionsPast, ReportFollowsMemo
  <2>2. CASE ~ SafeToSkip
    <3>1. /\ deployment' = Applied /\ returned' = Applied /\ pc' = "status"
          /\ memo' = [template |-> template, version |-> Applied.version]
          /\ UNCHANGED <<envVars, lister, statusVars, missing, disturbances>>
          /\ \/ old' = old + new /\ new' = 0
             \/ UNCHANGED <<old, new>>
      BY <1>5, <2>2 DEF manageDeployment
    <3>2. /\ Applied \in Deployments /\ Applied.version \in Nat
          /\ deployment # NoDeployment => deployment.version <= Applied.version
      BY AppliedEffect DEF Deployments
    <3>3. memo' \in Memos /\ memo'.version = Applied.version
      BY <1>a, <3>1, <3>2 DEF TypeOK, Memos
    <3>4. TypeOK'
      BY <1>a, <3>1, <3>2, <3>3 DEF TypeOK, desired, maxSurge
    <3>5. VersionsPast' /\ ReportFollowsMemo'
      BY <1>a, <3>1, <3>2, <3>3 DEF TypeOK, Deployments, VersionsPast, ReportFollowsMemo
    <3> QED
      BY <3>4, <3>5 DEF StatusInv
  <2> QED
    BY <2>1, <2>2
<1>6. CASE ReportStatus
  <2>1. /\ returned \in Deployments /\ returned.version \in Nat
        /\ memo # NoMemo /\ returned.version = memo.version
    BY <1>6, <1>a DEF ReportStatus, TypeOK, ReportFollowsMemo, Deployments
  <2>2. TypeOK'
    BY <1>6, <1>a, <2>1, ConditionTypes DEF ReportStatus, Return, updateKueueStatus, TypeOK
  <2> QED
    BY <1>6, <1>a, <2>1, <2>2
       DEF ReportStatus, Return, updateKueueStatus, StatusInv, VersionsPast, ReportFollowsMemo
<1>7. CASE SyncFails \/ Restart
  <2>1. /\ disturbances' \in 0..MaxDisturbances /\ disturbances <= disturbances'
        /\ pc' = "idle" /\ missing' = FALSE /\ returned' = NoDeployment
        /\ memo' \in {memo, NoMemo}
        /\ UNCHANGED <<envVars, operandVars, statusVars>>
    BY <1>7, <1>a DEF SyncFails, Restart, Disturbance, Return, TypeOK
  <2>2. template \in 0..disturbances'
    BY <1>a, <2>1 DEF TypeOK
  <2>3. TypeOK'
    BY <1>a, <2>1, <2>2 DEF TypeOK
  <2>4. VersionsPast' /\ ReportFollowsMemo'
    BY <1>a, <2>1 DEF VersionsPast, ReportFollowsMemo
  <2> QED
    BY <2>3, <2>4 DEF StatusInv
<1>8. CASE PodReady
  BY <1>8, <1>a, StartingType, QuietStep DEF PodReady, TypeOK, desired, maxSurge
<1>9. CASE OldPodRemoved
  BY <1>9, <1>a, QuietStep DEF OldPodRemoved, TypeOK, desired, maxSurge
<1>10. CASE PodLost
  BY <1>10, <1>a, QuietStep DEF PodLost, Disturbance, TypeOK, desired, maxSurge
<1>11. CASE DeploymentStatus
  <2> DEFINE current == [deployment EXCEPT !.ready = old + new, !.unavailable = Starting]
  <2>1. deployment \in Deployments /\ old + new \in Nat /\ Starting \in Nat
    BY <1>11, <1>a, StartingType DEF DeploymentStatus, Exists, TypeOK, desired, maxSurge
  <2>2. current \in Deployments /\ current.version = deployment.version
    BY <2>1 DEF Deployments
  <2>3. deployment' = [current EXCEPT !.version = @ + 1]
    BY <1>11 DEF DeploymentStatus
  <2> HIDE DEF current
  <2>4. deployment' \in Deployments /\ deployment'.version = deployment.version + 1
    BY <2>2, <2>3 DEF Deployments
  <2>5. UNCHANGED <<template, old, new, lister, conditions, reported, pc, missing, returned,
                    memo, disturbances>>
    BY <1>11 DEF DeploymentStatus
  <2>6. TypeOK'
    BY <1>a, <2>4, <2>5 DEF TypeOK
  <2>7. VersionsPast' /\ ReportFollowsMemo'
    BY <1>a, <2>1, <2>4, <2>5
       DEF TypeOK, Deployments, Memos, VersionsPast, ReportFollowsMemo
  <2> QED
    BY <2>6, <2>7 DEF StatusInv
<1>12. CASE ListerCatchesUp
  BY <1>12, <1>a
     DEF ListerCatchesUp, StatusInv, TypeOK, Deployments, VersionsPast, ReportFollowsMemo
<1>13. CASE UserEdit \/ ClusterChange
  <2>1. TypeOK'
    BY <1>13, <1>a DEF UserEdit, ClusterChange, Disturbance, TypeOK
  <2> QED
    BY <1>13, <2>1, QuietStep DEF UserEdit, ClusterChange
<1> QED
  BY <1>1, <1>2, <1>3, <1>4, <1>5, <1>6, <1>7, <1>8, <1>9, <1>10, <1>11, <1>12, <1>13
     DEF Next, Sync, Rollout

\* Every behaviour keeps the invariant.
LEMMA StatusInvariant == Spec => []StatusInv
<1>1. Init => StatusInv
  <2> SUFFICES ASSUME Init PROVE StatusInv
    OBVIOUS
  <2>1. DOMAIN conditions \subseteq Types
    <3>1. <<>> \in Seq({}) /\ Len(<<>>) = 0
      BY EmptySeq
    <3>2. DOMAIN <<>> = 1..0
      BY <3>1, LenProperties
    <3> QED
      BY <3>2 DEF Init
  <2>2. /\ 0 \in 0..MaxDisturbances /\ 0 \in 0..0 /\ 0 \in Nat
        /\ 0 \in 0..(desired + maxSurge) /\ 0 \in 0..desired /\ 0 + 0 <= desired + maxSurge
    BY StatusAssumption DEF desired, maxSurge
  <2>3. TypeOK
    BY <2>1, <2>2, Zenon DEF Init, TypeOK
  <2>4. VersionsPast /\ ReportFollowsMemo
    BY DEF Init, VersionsPast, ReportFollowsMemo
  <2> QED
    BY <2>3, <2>4 DEF StatusInv
<1> QED
  BY <1>1, StatusStep, PTL DEF Spec

(***************************************************************************)
(* The theorems                                                            *)
(***************************************************************************)

\* Every variable keeps its type, the pods stay within the surge, and a status
\* is always made from a Deployment (T:870-1016).
THEOREM TypeCorrect == Spec => []TypeOK
<1>1. StatusInv => TypeOK
  BY DEF StatusInv
<1> QED
  BY <1>1, StatusInvariant, PTL

\* No report is about an earlier version of the Deployment than the report
\* before it, however far the lister lags: its copy is reported only at the
\* version the last apply of this process made, or found.
THEOREM NeverRegressesCorrect == Spec => NeverRegresses
<1>1. StatusInv /\ [Next]_vars => [reported' >= reported]_vars
  <2> SUFFICES ASSUME StatusInv, [Next]_vars PROVE reported' >= reported
    OBVIOUS
  <2>1. reported \in Nat
    BY DEF StatusInv, TypeOK
  <2>2. CASE ReportStatus
    <3>1. memo # NoMemo /\ returned.version = memo.version /\ reported <= memo.version
      BY <2>2 DEF ReportStatus, StatusInv, ReportFollowsMemo
    <3> QED
      BY <2>1, <2>2, <3>1 DEF ReportStatus, updateKueueStatus, StatusInv, TypeOK, Memos
  <2>3. CASE UNCHANGED reported
    BY <2>1, <2>3
  <2> QED
    BY <2>2, <2>3
       DEF Next, Sync, BeginSync, CertManagerMissing, TLSProfile, updateKueueStatus,
           manageDeployment, SyncFails, Restart, Rollout, PodReady, OldPodRemoved, PodLost,
           DeploymentStatus, ListerCatchesUp, UserEdit, ClusterChange, statusVars, vars
<1> QED
  BY <1>1, StatusInvariant, PTL DEF Spec, NeverRegresses

(***************************************************************************)
(* What a report says                                                      *)
(***************************************************************************)

\* A copy at the live version is the live Deployment.
CopiesAgree ==
    /\ lister # NoDeployment /\ lister.version = deployment.version => lister = deployment
    /\ pc = "status" /\ returned.version = deployment.version => returned = deployment

\* What the resource cache remembers is true of the version it names.
MemoTrue ==
    memo # NoMemo /\ memo.version = deployment.version => deployment.template = memo.template

\* While the Deployment is still at the version the conditions are about, they
\* are what that version says (cert-manager and TLS being no obstacle).
ReportTrue ==
    /\ deployment # NoDeployment /\ reported = deployment.version
    /\ "CertManagerAvailable" \in DOMAIN conditions
    => \E m \in BOOLEAN : conditions = buildOperatorConditions(deployment, m)

CopiesInv == CopiesAgree /\ MemoTrue /\ ReportTrue

\* A step that makes no new copy and reports nothing about the Deployment.
LEMMA NothingCopied ==
    ASSUME CopiesInv,
           UNCHANGED <<deployment, lister, reported>>,
           memo' \in {memo, NoMemo},
           pc' = "status" => pc = "status" /\ returned' = returned,
           conditions' = conditions \/ "CertManagerAvailable" \notin DOMAIN conditions'
    PROVE  CopiesInv'
<1>1. CopiesAgree' /\ MemoTrue'
  BY DEF CopiesInv, CopiesAgree, MemoTrue
<1>2. ReportTrue'
  BY DEF CopiesInv, ReportTrue, buildOperatorConditions
<1> QED
  BY <1>1, <1>2 DEF CopiesInv

\* A write of the Deployment makes a version that no copy, no entry and no
\* report has yet.
LEMMA NewVersion ==
    ASSUME StatusInv, CopiesInv, UNCHANGED <<lister, conditions, reported>>,
           deployment' \in Deployments,
           deployment # NoDeployment => deployment.version < deployment'.version,
           deployment = NoDeployment => deployment'.version = 1
    PROVE  /\ lister' # NoDeployment => lister'.version # deployment'.version
           /\ memo # NoMemo => memo.version # deployment'.version
           /\ pc = "status" => returned.version # deployment'.version
           /\ ReportTrue'
<1>1. deployment'.version \in Nat /\ (deployment # NoDeployment => deployment.version \in Nat)
  BY DEF Deployments, StatusInv, TypeOK
<1>2. /\ reported \in Nat
      /\ lister # NoDeployment => lister.version \in Nat
      /\ memo # NoMemo => memo.version \in Nat
  BY DEF StatusInv, TypeOK, Deployments, Memos
<1>3. /\ deployment = NoDeployment =>
            lister = NoDeployment /\ memo = NoMemo /\ reported = 0
      /\ deployment # NoDeployment =>
            /\ lister # NoDeployment => lister.version <= deployment.version
            /\ memo # NoMemo => memo.version <= deployment.version
            /\ reported <= deployment.version
      /\ pc = "status" => memo # NoMemo /\ returned.version = memo.version
  BY DEF StatusInv, VersionsPast, ReportFollowsMemo
<1>4. reported # deployment'.version
  BY <1>1, <1>2, <1>3
<1> QED
  BY <1>1, <1>2, <1>3, <1>4 DEF ReportTrue

LEMMA CopiesStep == StatusInv /\ StatusInv' /\ CopiesInv /\ [Next]_vars => CopiesInv'
<1> SUFFICES ASSUME StatusInv, StatusInv', CopiesInv, [Next]_vars PROVE CopiesInv'
  OBVIOUS
<1> USE DEF envVars, operandVars, statusVars, syncVars
<1>1. CASE \/ UNCHANGED vars \/ BeginSync \/ SyncFails \/ Restart \/ PodReady
           \/ OldPodRemoved \/ PodLost \/ UserEdit \/ ClusterChange
  BY <1>1, NothingCopied
     DEF vars, BeginSync, SyncFails, Restart, Return, PodReady, OldPodRemoved, PodLost,
         UserEdit, ClusterChange
<1>2. CASE CertManagerMissing \/ TLSProfile
  <2>1. /\ "CertManagerAvailable" \notin DOMAIN buildCertManagerMissingConditions
        /\ "CertManagerAvailable" \notin DOMAIN buildUnsupportedTLSProfileConditions
    BY DEF buildCertManagerMissingConditions, buildUnsupportedTLSProfileConditions, NotServed
  <2> QED
    BY <1>2, <2>1, NothingCopied
       DEF CertManagerMissing, TLSProfile, Return, updateKueueStatus
<1>3. CASE manageDeployment
  <2>1. CASE SafeToSkip
    <3>1. /\ returned' = lister /\ lister # NoDeployment /\ pc' = "status"
          /\ UNCHANGED <<deployment, memo, lister, conditions, reported>>
      BY <1>3, <2>1 DEF manageDeployment, SafeToSkip
    <3> QED
      BY <3>1 DEF CopiesInv, CopiesAgree, MemoTrue, ReportTrue
  <2>2. CASE ~ SafeToSkip
    <3>1. /\ deployment' = Applied /\ returned' = Applied /\ pc' = "status"
          /\ memo' = [template |-> template, version |-> Applied.version]
          /\ UNCHANGED <<lister, conditions, reported>>
      BY <1>3, <2>2 DEF manageDeployment
    <3>2. Applied \in Deployments /\ Applied.template = template
      BY AppliedEffect DEF Applied, Deployments, StatusInv, TypeOK
    <3>3. MemoTrue'
      BY <3>1, <3>2 DEF MemoTrue
    <3>4. CASE Applied = deployment
      <4>1. CopiesAgree' /\ ReportTrue'
        BY <3>1, <3>4 DEF CopiesInv, CopiesAgree, ReportTrue
      <4> QED
        BY <3>3, <4>1 DEF CopiesInv
    <3>5. CASE Applied # deployment
      <4>1. /\ deployment = NoDeployment => Applied.version = 1
            /\ deployment # NoDeployment => deployment.version < Applied.version
        BY <3>5 DEF Applied, StatusInv, TypeOK, Deployments
      <4>2. ReportTrue' /\ (lister' # NoDeployment => lister'.version # deployment'.version)
        BY <3>1, <3>2, <4>1, NewVersion
      <4>3. CopiesAgree'
        BY <3>1, <4>2 DEF CopiesAgree
      <4> QED
        BY <3>3, <4>2, <4>3 DEF CopiesInv
    <3> QED
      BY <3>4, <3>5
  <2> QED
    BY <2>1, <2>2
<1>4. CASE ReportStatus
  <2>1. /\ conditions' = buildOperatorConditions(returned, missing) /\ missing \in BOOLEAN
        /\ reported' = returned.version /\ pc = "status" /\ pc' = "idle"
        /\ UNCHANGED <<deployment, lister, memo>>
    BY <1>4 DEF ReportStatus, Return, updateKueueStatus, StatusInv, TypeOK
  <2>2. reported' = deployment.version => returned = deployment
    BY <2>1 DEF CopiesInv, CopiesAgree
  <2>3. ReportTrue'
    <3> SUFFICES ASSUME reported' = deployment.version
                 PROVE  \E m \in BOOLEAN : conditions' = buildOperatorConditions(deployment, m)
      BY <2>1 DEF ReportTrue, buildOperatorConditions
    <3> QED
      BY <2>1, <2>2
  <2> QED
    BY <2>1, <2>3 DEF CopiesInv, CopiesAgree, MemoTrue
<1>5. CASE DeploymentStatus
  <2>1. /\ deployment # NoDeployment /\ deployment \in Deployments
        /\ deployment' = [deployment EXCEPT !.ready = old + new, !.unavailable = Starting,
                                            !.version = @ + 1]
        /\ UNCHANGED <<lister, conditions, reported, memo, pc, returned>>
    BY <1>5 DEF DeploymentStatus, Exists, StatusInv, TypeOK, Deployments
  <2>2. deployment'.version = deployment.version + 1 /\ deployment.version \in Nat
    BY <2>1 DEF Deployments
  <2>3. deployment' \in Deployments
    <3>1. old + new \in Nat /\ Starting \in Nat
      BY StartingType DEF StatusInv, TypeOK, desired, maxSurge
    <3>2. deployment' = [template |-> deployment.template, ready |-> old + new,
                         unavailable |-> Starting, version |-> deployment.version + 1]
      BY <2>1, <3>1 DEF Deployments
    <3> QED
      BY <2>1, <2>2, <3>1, <3>2 DEF Deployments
  <2>4. /\ lister' # NoDeployment => lister'.version # deployment'.version
        /\ memo # NoMemo => memo.version # deployment'.version
        /\ pc = "status" => returned.version # deployment'.version
        /\ ReportTrue'
    BY <2>1, <2>2, <2>3, NewVersion
  <2> QED
    BY <2>1, <2>4 DEF CopiesInv, CopiesAgree, MemoTrue
<1>6. CASE ListerCatchesUp
  <2>1. lister' = deployment /\ UNCHANGED <<deployment, conditions, reported, memo, pc, returned>>
    BY <1>6 DEF ListerCatchesUp
  <2> QED
    BY <2>1 DEF CopiesInv, CopiesAgree, MemoTrue, ReportTrue, buildOperatorConditions
<1> QED
  BY <1>1, <1>2, <1>3, <1>4, <1>5, <1>6 DEF Next, Sync, Rollout

LEMMA CopiesInvariant == Spec => [](StatusInv /\ CopiesInv)
<1>1. Init => CopiesInv
  BY DEF Init, CopiesInv, CopiesAgree, MemoTrue, ReportTrue
<1> QED
  BY <1>1, CopiesStep, StatusInvariant, PTL DEF Spec

\* The conditions are never about something that was not: as long as the
\* Deployment stays at the version they were derived from, they say what it
\* says, whichever copy a sync read and whatever happened before it wrote
\* (applyDeploymentWithCache, buildOperatorConditions).
THEOREM ReportTrueCorrect == Spec => []ReportTrue
<1>1. CopiesInv => ReportTrue
  BY DEF CopiesInv
<1> QED
  BY <1>1, CopiesInvariant, PTL

\* The Deployment controller has no pod to start and none it may remove, and
\* its status is written.
RolledOut ==
    /\ Starting = 0
    /\ ~ (old > 0 /\ old + new > desired - 1)
    /\ deployment.ready = old + new /\ deployment.unavailable = Starting

\* Nobody has anything to do: the lister is up to date, the rollout has ended,
\* and a sync would skip the apply and write the conditions that are there.
Rested ==
    /\ lister = deployment
    /\ Exists => RolledOut
    /\ CASE "noCertManager" \in obstacles ->
              conditions = buildCertManagerMissingConditions
         [] obstacles \intersect {"noCertManager", "oldTLS"} = {"oldTLS"} ->
              conditions = buildUnsupportedTLSProfileConditions
         [] OTHER ->
              /\ SafeToSkip
              /\ conditions = buildOperatorConditions(lister, "noDependency" \in obstacles)

\* No rollout gets stuck between its limits: one with no step left has replaced
\* every pod.
LEMMA RolledOutComplete ==
    ASSUME TypeOK, RolledOut
    PROVE  old = 0 /\ new = desired /\ deployment.ready = desired /\ deployment.unavailable = 0
BY DEF TypeOK, RolledOut, Starting, desired, maxSurge

\* There are conditions: a set of them is not the empty list of a new object.
LEMMA SomeConditions ==
    ASSUME NEW conds, "Available" \in DOMAIN conds
    PROVE  conds # <<>>
<1>1. <<>> \in Seq({}) /\ Len(<<>>) = 0
  BY EmptySeq
<1>2. DOMAIN <<>> = 1..0
  BY <1>1, LenProperties
<1>3. "Available" \notin 1..0
  OBVIOUS
<1> QED
  BY <1>2, <1>3

LEMMA RestedTruth == StatusInv /\ CopiesInv /\ Rested => Truth
<1> SUFFICES ASSUME StatusInv, CopiesInv, Rested PROVE Truth
  OBVIOUS
<1>1. CASE "noCertManager" \in obstacles
  <2>1. conditions = NotServed("MissingDependency")
    BY <1>1 DEF Rested, buildCertManagerMissingConditions
  <2>2. /\ "Available" \in DOMAIN conditions /\ "CertManagerAvailable" \notin DOMAIN conditions
        /\ conditions.Degraded.reason = "MissingDependency" /\ ~ conditions.Available.status
    BY <2>1 DEF NotServed, Condition
  <2> QED
    BY <1>1, <2>2, SomeConditions DEF Truth
<1>2. CASE obstacles \intersect {"noCertManager", "oldTLS"} = {"oldTLS"}
  <2>1. conditions = NotServed("UnsupportedTLSProfile") /\ "noCertManager" \notin obstacles
    BY <1>2 DEF Rested, buildUnsupportedTLSProfileConditions
  <2>2. /\ "Available" \in DOMAIN conditions
        /\ conditions.Degraded.reason = "UnsupportedTLSProfile" /\ ~ conditions.Available.status
    BY <2>1 DEF NotServed, Condition
  <2> QED
    BY <1>2, <2>1, <2>2, SomeConditions DEF Truth
<1>3. CASE /\ "noCertManager" \notin obstacles
           /\ obstacles \intersect {"noCertManager", "oldTLS"} # {"oldTLS"}
  <2>1. /\ SafeToSkip /\ lister = deployment /\ deployment # NoDeployment
        /\ conditions = buildOperatorConditions(deployment, "noDependency" \in obstacles)
    BY <1>3 DEF Rested, SafeToSkip
  <2>2. /\ old = 0 /\ new = desired
        /\ deployment.ready = desired /\ deployment.unavailable = 0
    BY <2>1, RolledOutComplete DEF Rested, Exists, StatusInv
  <2>3. deployment.template = template
    <3>1. /\ deployment \in Deployments
          /\ memo = [template |-> template, version |-> deployment.version]
      BY <2>1 DEF SafeToSkip, StatusInv, TypeOK
    <3>2. memo \in Memos /\ memo.template = template /\ memo.version = deployment.version
      BY <3>1 DEF Memos, StatusInv, TypeOK, Deployments
    <3> QED
      BY <3>2, NothingAssumption DEF CopiesInv, MemoTrue
  <2>4. /\ "Available" \in DOMAIN conditions
        /\ conditions.Available.status /\ ~ conditions.Progressing.status
        /\ conditions.Degraded.status <=> "noDependency" \in obstacles
    BY <2>1, <2>2 DEF buildOperatorConditions, Condition, desired
  <2> QED
    BY <1>3, <2>2, <2>3, <2>4, SomeConditions DEF Truth
<1> QED
  BY <1>1, <1>2, <1>3

\* When nobody has anything left to do, the conditions say what the cluster
\* and the pods are, every pod is of the template spec asks for, and none is
\* missing, whatever was edited, lost or missed before.  The safety half of
\* StatusConverges.
THEOREM RestsOnlyInTruth == Spec => [](Rested => Truth)
  BY CopiesInvariant, RestedTruth, PTL
=============================================================================
