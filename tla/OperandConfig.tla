--------------------------- MODULE OperandConfig ---------------------------
(***************************************************************************)
(* How a change of spec.config, of the cluster's DRA support, of the       *)
(* operators Kueue depends on or of the TLS profile reaches the operand's  *)
(* ConfigMap, its Deployment and the Degraded condition, through syncs     *)
(* whose reads of the cluster may fail one by one.                         *)
(*                                                                         *)
(* A sync here is: detect (T:313-416), re-read and TLS profile (T:541-587),*)
(* ConfigMap, Deployment, status.  Deletion, staleness of the informer and *)
(* the writes in between are KueueLifecycle's.  The reads of one detection *)
(* are one step, of which any may fail.  The process's memory is lost with *)
(* a restart; whether it runs on OpenShift is found out once per start.    *)
(***************************************************************************)
EXTENDS ConfigMapBuilder, TLSProfile

CONSTANTS
    Scenarios,      \* values of spec.config users try, with what the cluster may offer
    NoConfigMap,    \* the ConfigMap, or the Deployment, does not exist
    MaxEdits, MaxChanges, MaxFaults

K8sGates == {"DRAPartitionableDevices", "DRAConsumableCapacity"}
OtherGates == {"DRAExtendedResource"}
Dependencies == {"JobSet", "LeaderWorkerSet"}

Clusters == UNION {s.clusters : s \in Scenarios}

\* openShift: the platform; draAPIs: resource.k8s.io/v1 is served; gates: CustomNoUpgrade's enabled
\* gates; operators: the dependencies that are installed; served: external
\* frameworks discovery knows; profile: the APIServer's TLS profile.
ASSUME OperandAssumption ==
    /\ \A c \in Clusters :
          /\ c.openShift \in BOOLEAN
          /\ c.draAPIs \in BOOLEAN
          /\ c.minor \in Nat
          /\ c.gates \subseteq K8sGates \union OtherGates
          /\ c.operators \subseteq Dependencies
          /\ IsFiniteSet(c.served)
    /\ MaxEdits \in Nat /\ MaxChanges \in Nat /\ MaxFaults \in Nat

\* What users ask for, what discovery may know, what profiles translate to.
Configs == {c \in UNION {s.configs : s \in Scenarios} : ValidConfig(c)}
Served == UNION {c.served : c \in Clusters}
TLSOptions == {NoProfile} \union {TLSOptionsFromProfile(c.profile) : c \in Clusters}

ASSUME NoConfigMapAssumption ==
    \A c \in Configs, resolved \in SUBSET Served, enables \in BOOLEAN, opts \in TLSOptions :
        BuildConfigMap(c, resolved, enables, opts) # NoConfigMap

VARIABLES
    config,       \* spec.config of the live object
    cluster,
    pc,
    isOpenShift,  \* the process's view, fixed at its start
    enabled,      \* the two in-memory flags, as the set of gates believed on
    kueue,        \* sync's copy of spec.config
    failed,       \* the reads that failed in this sync's detection
    missing,      \* missingDependencies
    tlsOpts,
    configMap,    \* the live ConfigMap
    rolledOut,    \* the ConfigMap the Deployment's annotation stands for
    status,       \* the dependencies the Degraded condition names
    lastGood,     \* did the last detection without failures find the capacity gate on?
    intact,       \* no restart and no failed discovery since then
    edits, changes, faults

envVars == <<config, cluster, edits, changes>>
procVars == <<isOpenShift, enabled>>
localVars == <<kueue, failed, missing, tlsOpts>>
outVars == <<configMap, rolledOut, status>>
auxVars == <<lastGood, intact>>
vars == <<envVars, pc, procVars, localVars, outVars, auxVars, faults>>

Reads == {"discovery", "version", "featureGate"} \union Dependencies

-----------------------------------------------------------------------------
(* Detection *)

\* isKubernetesMinorAtLeast: an error is a no.
VersionEnables(draAPIs, failures) ==
    draAPIs /\ "version" \notin failures /\ cluster.minor >= 36

\* Variant: a failed FeatureGate read leaves only what the version enables.
FlagsNotRestored(failures) ==
    LET draAPIs == cluster.draAPIs /\ "discovery" \notin failures
        byVersion == IF VersionEnables(draAPIs, failures) THEN {"DRAConsumableCapacity"} ELSE {}
    IN  IF isOpenShift /\ draAPIs /\ "featureGate" \notin failures
        THEN (cluster.gates \intersect K8sGates) \union byVersion
        ELSE (enabled \intersect {"DRAPartitionableDevices"}) \union byVersion

\* Variant: every gate of the list is taken for one of the two.
FlagsUnfiltered(failures) ==
    IF isOpenShift /\ cluster.draAPIs /\ failures = {} THEN cluster.gates ELSE enabled

\* The flags after the reads.  Without the DRA API (or knowledge of it) and
\* outside OpenShift the partitionable flag keeps its value and the capacity
\* flag follows the version; a failed FeatureGate read keeps the capacity flag
\* unless the version enables it; a successful one decides both.
Flags(failures) ==
    LET draAPIs == cluster.draAPIs /\ "discovery" \notin failures
        byVersion == IF VersionEnables(draAPIs, failures) THEN {"DRAConsumableCapacity"} ELSE {}
    IN  IF ~ (isOpenShift /\ draAPIs)
        THEN (enabled \intersect {"DRAPartitionableDevices"}) \union byVersion
        ELSE IF "featureGate" \in failures THEN enabled \union byVersion
             ELSE (cluster.gates \intersect K8sGates) \union byVersion

\* isOperatorAvailability: an error counts as missing.
MissingOperators(c, failures) ==
    {d \in Dependencies \intersect c.integrations.frameworks :
        d \notin cluster.operators \/ d \in failures}

MissingDRA(c, draAPIs, flags) ==
    {m \in {"DRA", "DRAPartitionableDevices", "DRAConsumableCapacity"} :
        CASE m = "DRA" -> c.deviceClassMappings # {} /\ ~ draAPIs
          [] m = "DRAPartitionableDevices" ->
                HasSourceOfType(c.deviceClassMappings, "Counter") /\ m \notin flags
          [] m = "DRAConsumableCapacity" ->
                HasSourceOfType(c.deviceClassMappings, "Capacity") /\ m \notin flags}

Detect(failures) ==
    /\ pc = "idle"
    /\ kueue' = config
    /\ failed' = failures
    /\ enabled' = Flags(failures)
    /\ missing' = MissingOperators(config, failures) \union
                  MissingDRA(config, cluster.draAPIs /\ "discovery" \notin failures, enabled')
    /\ pc' = "reRead"
    /\ faults + Cardinality(failures) <= MaxFaults
    /\ faults' = faults + Cardinality(failures)
    /\ lastGood' = IF failures \intersect {"discovery", "version", "featureGate"} = {}
                   THEN "DRAConsumableCapacity" \in enabled' ELSE lastGood
    /\ intact' = IF failures \intersect {"discovery", "version"} # {} THEN FALSE
                 ELSE ("featureGate" \notin failures \/ intact)
    /\ UNCHANGED <<envVars, isOpenShift, tlsOpts, outVars>>

-----------------------------------------------------------------------------
(* The rest of the sync *)

ReRead ==
    /\ pc = "reRead"
    /\ kueue' = config
    /\ tlsOpts' = IF isOpenShift THEN TLSOptionsFromProfile(cluster.profile) ELSE NoProfile
    /\ tlsOpts' # Unsupported
    /\ pc' = "configMap"
    /\ UNCHANGED <<envVars, procVars, failed, missing, outVars, auxVars, faults>>

\* The condition set of an unsupported profile replaces all others.
TLSUnsupported ==
    /\ pc = "reRead"
    /\ isOpenShift
    /\ TLSOptionsFromProfile(cluster.profile) = Unsupported
    /\ status' = {"UnsupportedTLSProfile"}
    /\ kueue' = config
    /\ pc' = "idle"
    /\ UNCHANGED <<envVars, procVars, failed, missing, tlsOpts, configMap, rolledOut, auxVars, faults>>

\* manageConfigMap.  Kinds are resolved per framework; those whose discovery
\* fails are left out and the framework goes by its resource name.
manageConfigMap(unresolved) ==
    /\ pc = "configMap"
    /\ unresolved # {} => kueue.multiKueue # Omitted
    /\ faults + Cardinality(unresolved) <= MaxFaults
    /\ faults' = faults + Cardinality(unresolved)
    /\ LET built == BuildConfigMap(kueue, cluster.served \ unresolved,
                                   "DRAConsumableCapacity" \in enabled, tlsOpts)
       IN  IF built = BuildError
           THEN pc' = "idle" /\ UNCHANGED configMap
           ELSE pc' = "deployment" /\ configMap' = built
    /\ UNCHANGED <<envVars, procVars, localVars, rolledOut, status, auxVars>>

\* Variant: the annotation is set when the Deployment is created.
manageDeploymentCreateOnly ==
    /\ pc = "deployment"
    /\ rolledOut' = IF rolledOut = NoConfigMap THEN configMap ELSE rolledOut
    /\ pc' = "status"
    /\ UNCHANGED <<envVars, procVars, localVars, configMap, status, auxVars, faults>>

\* The hash of the ConfigMap is an annotation of the pod template.
manageDeployment ==
    /\ pc = "deployment"
    /\ rolledOut' = configMap
    /\ pc' = "status"
    /\ UNCHANGED <<envVars, procVars, localVars, configMap, status, auxVars, faults>>

ReportStatus ==
    /\ pc = "status"
    /\ status' = missing
    /\ pc' = "idle"
    /\ UNCHANGED <<envVars, procVars, localVars, configMap, rolledOut, auxVars, faults>>

SyncFails ==
    /\ pc # "idle"
    /\ faults < MaxFaults
    /\ faults' = faults + 1
    /\ pc' = "idle"
    /\ UNCHANGED <<envVars, procVars, localVars, outVars, auxVars>>

\* NewTargetConfigReconciler: the flags start as off, and detectOpenShift
\* takes a cluster whose discovery fails six times for plain Kubernetes.
Restart ==
    /\ faults < MaxFaults
    /\ faults' = faults + 1
    /\ pc' = "idle"
    /\ enabled' = {}
    /\ \E detected \in {cluster.openShift, FALSE} : isOpenShift' = detected
    /\ intact' = FALSE
    /\ UNCHANGED <<envVars, localVars, outVars, lastGood>>

Sync ==
    \/ Detect({})
    \/ ReRead \/ TLSUnsupported
    \/ manageConfigMap({})
    \/ manageDeployment
    \/ ReportStatus

Faults ==
    \/ \E failures \in SUBSET Reads \ {{}} : Detect(failures)
    \/ \E unresolved \in SUBSET cluster.served \ {{}} : manageConfigMap(unresolved)
    \/ SyncFails
    \/ Restart

-----------------------------------------------------------------------------
(* The user and the cluster *)

UserEdit ==
    /\ edits < MaxEdits
    /\ edits' = edits + 1
    /\ \E s \in Scenarios :
          /\ config \in s.configs /\ cluster \in s.clusters
          /\ config' \in {c \in s.configs \ {config} : ValidConfig(c)}
    /\ UNCHANGED <<cluster, changes, pc, procVars, localVars, outVars, auxVars, faults>>

\* Versions and APIs only grow; gates, operators and the profile come and go.
ClusterChange ==
    /\ changes < MaxChanges
    /\ changes' = changes + 1
    /\ \E s \in Scenarios :
          /\ config \in s.configs /\ cluster \in s.clusters
          /\ cluster' \in s.clusters \ {cluster}
    /\ cluster'.openShift = cluster.openShift
    /\ cluster.draAPIs => cluster'.draAPIs
    /\ cluster'.minor >= cluster.minor
    /\ UNCHANGED <<config, edits, pc, procVars, localVars, outVars, auxVars, faults>>

Init ==
    /\ \E s \in Scenarios :
          config \in {c \in s.configs : ValidConfig(c)} /\ cluster \in s.clusters
    /\ pc = "idle"
    /\ isOpenShift = cluster.openShift
    /\ enabled = {}
    /\ kueue = config
    /\ failed = {}
    /\ missing = {}
    /\ tlsOpts = NoProfile
    /\ configMap = NoConfigMap
    /\ rolledOut = NoConfigMap
    /\ status = {}
    /\ lastGood = FALSE
    /\ intact = FALSE
    /\ edits = 0 /\ changes = 0 /\ faults = 0

Next == Sync \/ Faults \/ UserEdit \/ ClusterChange

Spec == Init /\ [][Next]_vars /\ WF_vars(Sync)

-----------------------------------------------------------------------------
(* Properties *)

TypeOK ==
    /\ ValidConfig(config)
    /\ cluster \in Clusters
    /\ pc \in {"idle", "reRead", "configMap", "deployment", "status"}
    /\ isOpenShift \in {cluster.openShift, FALSE}
    /\ enabled \subseteq K8sGates
    /\ failed \subseteq Reads
    /\ lastGood \in BOOLEAN /\ intact \in BOOLEAN
    /\ pc = "deployment" => configMap # NoConfigMap
    /\ faults \in 0..MaxFaults

\* The capacity sources a ConfigMap renders.
CapacitySources(cm) == {m.name : m \in {m \in cm.resources : "Capacity" \in m.sources}}

\* A ConfigMap never renders a capacity source without Kueue's gate for it,
\* nor the gate without a source, however flags and spec changed during the
\* sync; upstream refuses to start with an ungated source
\* (docs/plans/features/consumable-capacity.md:304).
SourcesGated ==
    configMap # NoConfigMap =>
        (CapacitySources(configMap) # {}
            <=> "KueueDRAIntegrationConsumableCapacity" \in configMap.featureGates)

\* A user who leaves one of the backoffs of the live strategy to its default is
\* not refused, unless the other one is out of order with that default:
\* types.go:554-567 declares both optional, 60 and 3600 seconds when omitted,
\* and docs/plans/features/wait-for-pods-ready.md:78-81 has strategies that set
\* only one field.
Strategy(c) == c.gangScheduling.byWorkload.requeuingStrategy
LeaveOut(c, field) == [c EXCEPT !.gangScheduling.byWorkload.requeuingStrategy[field] = Omitted]
EffectiveBase(s) == IF s.backoffBaseSeconds = Omitted THEN 60 ELSE s.backoffBaseSeconds
EffectiveMax(s) == IF s.backoffMaxSeconds = Omitted THEN 3600 ELSE s.backoffMaxSeconds
OmittedBackoffAccepted ==
    config.gangScheduling.byWorkload # Omitted /\ Strategy(config) # Omitted =>
        \A field \in {"backoffBaseSeconds", "backoffMaxSeconds"} :
            LET c == LeaveOut(config, field)
            IN  EffectiveBase(Strategy(c)) <= EffectiveMax(Strategy(c)) => ValidConfig(c)

\* A step rewrites the ConfigMap without the capacity sources spec asks for.
DropsCapacity ==
    /\ configMap # NoConfigMap
    /\ configMap' # configMap
    /\ CapacitySources(configMap) # {}
    /\ HasSourceOfType(kueue.deviceClassMappings, "Capacity")
    /\ CapacitySources(configMap') = {}

\* An outage of the FeatureGate read alone never takes capacity sources out of
\* the ConfigMap that the last complete detection found enabled, as long as
\* the process lives and discovery answers (T:376-381).
OutageKeepsSources == [][DropsCapacity /\ failed = {"featureGate"} /\ intact => ~ lastGood]_vars

\* Once edits, changes and faults are over, ConfigMap, Deployment and the
\* Degraded condition describe the live spec and the cluster as it is: the
\* flags kept over failed reads, a spec re-read in the middle of a sync, and
\* names resolved by a failing discovery are all put right.  Not so for a spec
\* whose weights do not parse, and not while the process has taken an
\* OpenShift cluster for plain Kubernetes.
TrueFlags ==
    LET byVersion == IF cluster.draAPIs /\ cluster.minor >= 36
                     THEN {"DRAConsumableCapacity"} ELSE {}
    IN  IF cluster.openShift /\ cluster.draAPIs THEN (cluster.gates \intersect K8sGates) \union byVersion
        ELSE byVersion
TrueTLS == IF cluster.openShift THEN TLSOptionsFromProfile(cluster.profile) ELSE NoProfile
Reflected ==
    LET wanted == BuildConfigMap(config, cluster.served,
                                 "DRAConsumableCapacity" \in TrueFlags, TrueTLS)
    IN  /\ configMap = wanted
        /\ rolledOut = wanted
        /\ status = MissingOperators(config, {}) \union
                    MissingDRA(config, cluster.draAPIs, TrueFlags)
Parses(c) == buildAdmissionFairSharing(c.admissionFairSharing) # BuildError
Converges ==
    <>[](\/ Reflected
         \/ ~ Parses(config)
         \/ isOpenShift # cluster.openShift
         \/ TrueTLS = Unsupported /\ status = {"UnsupportedTLSProfile"})
=============================================================================
