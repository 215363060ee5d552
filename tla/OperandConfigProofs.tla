------------------------ MODULE OperandConfigProofs -------------------------
(* Machine-checked proofs about OperandConfig, for every set of scenarios   *)
(* and every bound.                                                         *)
EXTENDS OperandConfig, FiniteSetTheorems, TLAPS

(***************************************************************************)
(* What BuildConfigMap makes of a configuration                            *)
(***************************************************************************)

\* A ConfigMap renders a capacity source exactly if spec asks for one and the
\* cluster enables it.
LEMMA CapacityRendered ==
    ASSUME NEW c, NEW resolved, NEW enables \in BOOLEAN, NEW opts,
           BuildConfigMap(c, resolved, enables, opts) # BuildError
    PROVE  CapacitySources(BuildConfigMap(c, resolved, enables, opts)) # {}
              <=> enables /\ HasSourceOfType(c.deviceClassMappings, "Capacity")
<1> DEFINE built == BuildConfigMap(c, resolved, enables, opts)
           mappings == c.deviceClassMappings
<1>1. built.resources = buildResources(mappings, enables)
  BY DEF BuildConfigMap
<1> HIDE DEF built, mappings
<1>2. CapacitySources(built) # {} <=> \E m \in built.resources : "Capacity" \in m.sources
  BY DEF CapacitySources
<1>3. (\E r \in buildResources(mappings, enables) : "Capacity" \in r.sources)
         <=> \E m \in mappings : "Capacity" \in m.sources /\ enables
  <2>1. ASSUME NEW m \in mappings, "Capacity" \in m.sources, enables
        PROVE  \E r \in buildResources(mappings, enables) : "Capacity" \in r.sources
    <3> DEFINE r == [name |-> m.name, deviceClassNames |-> m.deviceClassNames,
                     sources |-> {s \in m.sources : s = "Capacity" => enables}]
    <3>1. r \in buildResources(mappings, enables)
      BY DEF buildResources
    <3>2. "Capacity" \in r.sources
      BY <2>1
    <3> QED
      BY <3>1, <3>2
  <2>2. ASSUME NEW r \in buildResources(mappings, enables), "Capacity" \in r.sources
        PROVE  \E m \in mappings : "Capacity" \in m.sources /\ enables
    <3>1. PICK m \in mappings :
             r = [name |-> m.name, deviceClassNames |-> m.deviceClassNames,
                  sources |-> {s \in m.sources : s = "Capacity" => enables}]
      BY <2>2 DEF buildResources
    <3>2. "Capacity" \in {s \in m.sources : s = "Capacity" => enables}
      BY <2>2, <3>1
    <3> QED
      BY <3>2
  <2> QED
    BY <2>1, <2>2
<1> QED
  BY <1>1, <1>2, <1>3 DEF built, mappings, HasSourceOfType

\* The same goes for Kueue's gate.
LEMMA CapacityGateRendered ==
    ASSUME NEW c, NEW resolved, NEW enables \in BOOLEAN, NEW opts,
           BuildConfigMap(c, resolved, enables, opts) # BuildError
    PROVE  "KueueDRAIntegrationConsumableCapacity"
                 \in BuildConfigMap(c, resolved, enables, opts).featureGates
              <=> enables /\ HasSourceOfType(c.deviceClassMappings, "Capacity")
<1>1. BuildConfigMap(c, resolved, enables, opts).featureGates = buildFeatureGates(c, enables)
  BY DEF BuildConfigMap
<1>2. "KueueDRAIntegrationConsumableCapacity" \in buildFeatureGates(c, enables)
         <=> enables /\ HasSourceOfType(c.deviceClassMappings, "Capacity")
  BY DEF buildFeatureGates
<1> QED
  BY <1>1, <1>2

\* A field that is set is not below its minimum.
LEMMA InRangeMinimum ==
    ASSUME NEW value, NEW min \in Int, NEW max \in Int, InRange(value, min, max), value # Omitted
    PROVE  value \in Int /\ min <= value
BY DEF InRange

\* To the CEL rule an unset field is an error, which nothing absorbs, as zero is
\* below both minima: no strategy that leaves a backoff to its default is
\* accepted (types.go:532), and one that is accepted is ordered.
THEOREM OmittedBackoffRefused ==
    ASSUME NEW s, s # Omitted, ValidRequeuingStrategy(s)
    PROVE  /\ s.backoffBaseSeconds # Omitted /\ s.backoffMaxSeconds # Omitted
           /\ s.backoffBaseSeconds <= s.backoffMaxSeconds
<1> DEFINE base == s.backoffBaseSeconds
           max == s.backoffMaxSeconds
<1>1. InRange(base, 30, 3600) /\ InRange(max, 30, 7200) /\ BackoffRule(s)
  BY SMT DEF ValidRequeuingStrategy, RequeuingFields
<1>2. /\ CelTruth(base # Omitted, base = 0) # "true"
      /\ CelTruth(max # Omitted, max = 0) # "true"
  <2>1. /\ base # Omitted => base # 0
        /\ max # Omitted => max # 0
    BY <1>1, InRangeMinimum, SMT
  <2> HIDE DEF base, max
  <2> QED
    BY <2>1 DEF CelTruth
<1>3. CelTruth(base # Omitted /\ max # Omitted, base <= max) = "true"
  BY <1>1, <1>2 DEF BackoffRule, CelOr
<1> QED
  BY <1>3 DEF CelTruth

(***************************************************************************)
(* The inductive invariant                                                 *)
(***************************************************************************)

\* A sync works on what users ask for.
LocalTypes == config \in Configs /\ kueue \in Configs /\ tlsOpts \in TLSOptions

\* What the last complete detection found on stays on over failed reads of the
\* FeatureGate: the API it depends on, and outside OpenShift the version, do
\* not go away.
GoodFlagsKept ==
    intact /\ lastGood =>
        /\ "DRAConsumableCapacity" \in enabled
        /\ cluster.draAPIs
        /\ ~ isOpenShift => cluster.minor >= 36

OperandInv == TypeOK /\ LocalTypes /\ GoodFlagsKept /\ SourcesGated

\* The capacity flag after the reads.
LEMMA FlagsEffect ==
    ASSUME TypeOK, NEW failures \in SUBSET Reads
    PROVE  /\ Flags(failures) \subseteq K8sGates
           /\ failures \intersect {"discovery", "version", "featureGate"} = {}
                 /\ "DRAConsumableCapacity" \in Flags(failures) =>
                 cluster.draAPIs /\ (~ isOpenShift => cluster.minor >= 36)
           /\ failures \intersect {"discovery", "version"} = {} /\ "featureGate" \in failures
                 /\ "DRAConsumableCapacity" \in enabled
                 /\ cluster.draAPIs /\ (~ isOpenShift => cluster.minor >= 36) =>
                 "DRAConsumableCapacity" \in Flags(failures)
<1> DEFINE draAPIs == cluster.draAPIs /\ "discovery" \notin failures
           byVersion == IF VersionEnables(draAPIs, failures) THEN {"DRAConsumableCapacity"} ELSE {}
<1>1. Flags(failures) =
         IF ~ (isOpenShift /\ draAPIs)
         THEN (enabled \intersect {"DRAPartitionableDevices"}) \union byVersion
         ELSE IF "featureGate" \in failures THEN enabled \union byVersion
              ELSE (cluster.gates \intersect K8sGates) \union byVersion
  BY DEF Flags
<1>2. /\ byVersion \subseteq K8sGates
      /\ "DRAConsumableCapacity" \in byVersion <=>
            draAPIs /\ "version" \notin failures /\ cluster.minor >= 36
  BY DEF VersionEnables, K8sGates
<1>3. enabled \subseteq K8sGates
  BY DEF TypeOK
<1> HIDE DEF byVersion
<1>4. Flags(failures) \subseteq K8sGates
  BY <1>1, <1>2, <1>3
<1>5. ~ (isOpenShift /\ draAPIs) /\ "DRAConsumableCapacity" \in Flags(failures) =>
         "DRAConsumableCapacity" \in byVersion
  BY <1>1
<1>6. isOpenShift /\ draAPIs /\ "featureGate" \in failures => enabled \subseteq Flags(failures)
  BY <1>1
<1>7. byVersion \subseteq Flags(failures)
  BY <1>1
<1> QED
  BY <1>2, <1>4, <1>5, <1>6, <1>7

\* Failed reads are counted.
LEMMA FaultsCounted ==
    ASSUME TypeOK, NEW n \in Nat, faults + n <= MaxFaults
    PROVE  faults + n \in 0..MaxFaults
BY OperandAssumption DEF TypeOK

\* Sets of reads, and of frameworks discovery knows, are finite.
LEMMA FailuresFinite ==
    /\ \A failures \in SUBSET Reads : Cardinality(failures) \in Nat
    /\ \A c \in Clusters : \A unresolved \in SUBSET c.served : Cardinality(unresolved) \in Nat
<1>1. Reads = {"discovery", "version", "featureGate", "JobSet", "LeaderWorkerSet"}
  BY DEF Reads, Dependencies
<1>2. IsFiniteSet({"discovery", "version", "featureGate", "JobSet", "LeaderWorkerSet"})
  <2>1. IsFiniteSet({"discovery"})
    BY FS_Singleton
  <2>2. IsFiniteSet({"discovery"} \union {"version"})
    BY <2>1, FS_AddElement
  <2>3. IsFiniteSet(({"discovery"} \union {"version"}) \union {"featureGate"})
    BY <2>2, FS_AddElement
  <2>4. IsFiniteSet((({"discovery"} \union {"version"}) \union {"featureGate"}) \union {"JobSet"})
    BY <2>3, FS_AddElement
  <2>5. IsFiniteSet(((({"discovery"} \union {"version"}) \union {"featureGate"})
                        \union {"JobSet"}) \union {"LeaderWorkerSet"})
    BY <2>4, FS_AddElement
  <2>6. ((({"discovery"} \union {"version"}) \union {"featureGate"})
             \union {"JobSet"}) \union {"LeaderWorkerSet"}
        = {"discovery", "version", "featureGate", "JobSet", "LeaderWorkerSet"}
    OBVIOUS
  <2> QED
    BY <2>5, <2>6
<1>3. ASSUME NEW S, IsFiniteSet(S), NEW T \in SUBSET S
      PROVE  Cardinality(T) \in Nat
  BY <1>3, FS_Subset, FS_CardinalityType
<1>4. \A c \in Clusters : IsFiniteSet(c.served)
  BY OperandAssumption
<1> QED
  BY <1>1, <1>2, <1>3, <1>4

(***************************************************************************)
(* The steps                                                               *)
(***************************************************************************)

\* A step that writes no ConfigMap keeps what holds of it.
LEMMA SameConfigMap ==
    ASSUME OperandInv, UNCHANGED configMap
    PROVE  SourcesGated'
BY DEF OperandInv, SourcesGated, CapacitySources

\* The detection keeps the invariant, whichever of its reads fail.
LEMMA DetectStep ==
    ASSUME OperandInv, NEW failures \in SUBSET Reads, Detect(failures)
    PROVE  OperandInv'
<1>1. TypeOK /\ LocalTypes /\ GoodFlagsKept
  BY DEF OperandInv
<1>2. /\ kueue' = config /\ failed' = failures /\ enabled' = Flags(failures) /\ pc' = "reRead"
      /\ faults + Cardinality(failures) <= MaxFaults
      /\ faults' = faults + Cardinality(failures)
      /\ lastGood' = IF failures \intersect {"discovery", "version", "featureGate"} = {}
                     THEN "DRAConsumableCapacity" \in enabled' ELSE lastGood
      /\ intact' = IF failures \intersect {"discovery", "version"} # {} THEN FALSE
                   ELSE ("featureGate" \notin failures \/ intact)
      /\ UNCHANGED <<config, cluster, isOpenShift, tlsOpts, configMap>>
  BY DEF Detect, envVars, outVars
<1>3. faults' \in 0..MaxFaults
  BY <1>1, <1>2, FailuresFinite, FaultsCounted
<1>4. enabled' \subseteq K8sGates
  BY <1>1, <1>2, FlagsEffect
<1>5. lastGood' \in BOOLEAN /\ intact' \in BOOLEAN
  <2>1. lastGood \in BOOLEAN /\ intact \in BOOLEAN
    BY <1>1 DEF TypeOK
  <2>2. ("DRAConsumableCapacity" \in enabled') \in BOOLEAN
        /\ ("featureGate" \notin failures \/ intact) \in BOOLEAN
    OBVIOUS
  <2> QED
    BY <1>2, <2>1, <2>2
<1>6. TypeOK' /\ LocalTypes'
  BY <1>1, <1>2, <1>3, <1>4, <1>5 DEF TypeOK, LocalTypes
<1>7. GoodFlagsKept'
  <2>1. ASSUME intact', lastGood'
        PROVE  /\ "DRAConsumableCapacity" \in Flags(failures)
               /\ cluster.draAPIs /\ (~ isOpenShift => cluster.minor >= 36)
    <3>1. failures \intersect {"discovery", "version"} = {}
      BY <1>2, <2>1
    <3>2. CASE "featureGate" \notin failures
      <4>1. failures \intersect {"discovery", "version", "featureGate"} = {}
        BY <3>1, <3>2
      <4>2. "DRAConsumableCapacity" \in Flags(failures)
        BY <1>2, <2>1, <4>1
      <4> QED
        BY <1>1, <4>1, <4>2, FlagsEffect
    <3>3. CASE "featureGate" \in failures
      <4>1. intact /\ lastGood
        BY <1>2, <2>1, <3>1, <3>3
      <4> QED
        BY <1>1, <3>1, <3>3, <4>1, FlagsEffect DEF GoodFlagsKept
    <3> QED
      BY <3>2, <3>3
  <2> QED
    BY <1>2, <2>1 DEF GoodFlagsKept
<1> QED
  BY <1>2, <1>6, <1>7, SameConfigMap DEF OperandInv

\* What a write of the ConfigMap leaves.
LEMMA ConfigMapWritten ==
    ASSUME OperandInv, NEW unresolved \in SUBSET cluster.served, manageConfigMap(unresolved),
           configMap' # configMap \/ pc' = "deployment"
    PROVE  \E resolved \in SUBSET Served :
              LET built == BuildConfigMap(kueue, resolved,
                                          "DRAConsumableCapacity" \in enabled, tlsOpts)
              IN  built # BuildError /\ configMap' = built
<1>1. cluster.served \ unresolved \in SUBSET Served
  BY DEF OperandInv, TypeOK, Served
<1> QED
  BY <1>1 DEF manageConfigMap

\* The write of the ConfigMap keeps the invariant, whatever flags and spec
\* were when it was built.
LEMMA ConfigMapStep ==
    ASSUME OperandInv, NEW unresolved \in SUBSET cluster.served, manageConfigMap(unresolved)
    PROVE  OperandInv'
<1>1. TypeOK /\ LocalTypes /\ GoodFlagsKept
  BY DEF OperandInv
<1>2. /\ faults + Cardinality(unresolved) <= MaxFaults
      /\ faults' = faults + Cardinality(unresolved)
      /\ pc' \in {"idle", "deployment"}
      /\ UNCHANGED <<config, cluster, isOpenShift, enabled, kueue, failed, tlsOpts, lastGood,
                     intact>>
  BY DEF manageConfigMap, envVars, procVars, localVars, auxVars
<1>3. faults' \in 0..MaxFaults
  BY <1>1, <1>2, FailuresFinite, FaultsCounted DEF TypeOK
<1>4. CASE UNCHANGED configMap /\ pc' = "idle"
  <2>1. TypeOK' /\ LocalTypes' /\ GoodFlagsKept'
    BY <1>1, <1>2, <1>3, <1>4 DEF TypeOK, LocalTypes, GoodFlagsKept
  <2> QED
    BY <1>4, <2>1, SameConfigMap DEF OperandInv
<1>5. CASE configMap' # configMap \/ pc' = "deployment"
  <2> DEFINE enables == "DRAConsumableCapacity" \in enabled
  <2>1. PICK resolved \in SUBSET Served :
           /\ BuildConfigMap(kueue, resolved, enables, tlsOpts) # BuildError
           /\ configMap' = BuildConfigMap(kueue, resolved, enables, tlsOpts)
    BY <1>5, ConfigMapWritten
  <2>2. enables \in BOOLEAN /\ kueue \in Configs /\ tlsOpts \in TLSOptions
    BY <1>1 DEF LocalTypes
  <2> HIDE DEF enables
  <2>3. configMap' # NoConfigMap
    BY <2>1, <2>2, NoConfigMapAssumption
  <2>4. SourcesGated'
    BY <2>1, <2>2, CapacityRendered, CapacityGateRendered DEF SourcesGated, CapacitySources
  <2>5. TypeOK' /\ LocalTypes' /\ GoodFlagsKept'
    BY <1>1, <1>2, <1>3, <2>3 DEF TypeOK, LocalTypes, GoodFlagsKept
  <2> QED
    BY <2>4, <2>5 DEF OperandInv
<1> QED
  BY <1>2, <1>4, <1>5

\* Every step keeps the invariant.
LEMMA OperandStep == OperandInv /\ [Next]_vars => OperandInv'
<1> SUFFICES ASSUME OperandInv, [Next]_vars PROVE OperandInv'
  OBVIOUS
<1> USE DEF envVars, procVars, localVars, outVars, auxVars
<1>a. TypeOK /\ LocalTypes /\ GoodFlagsKept
  BY DEF OperandInv
<1>b. ASSUME UNCHANGED configMap, TypeOK', LocalTypes', GoodFlagsKept'
      PROVE  OperandInv'
  BY <1>b, SameConfigMap DEF OperandInv
<1>1. CASE UNCHANGED vars
  BY <1>1, <1>a, <1>b DEF vars, TypeOK, LocalTypes, GoodFlagsKept
<1>2. ASSUME NEW failures \in SUBSET Reads, Detect(failures)
      PROVE  OperandInv'
  BY <1>2, DetectStep
<1>3. CASE ReRead
  <2>1. tlsOpts' \in TLSOptions
    BY <1>3, <1>a DEF ReRead, TypeOK, TLSOptions
  <2> QED
    BY <1>3, <1>a, <1>b, <2>1 DEF ReRead, TypeOK, LocalTypes, GoodFlagsKept
<1>4. CASE TLSUnsupported
  BY <1>4, <1>a, <1>b DEF TLSUnsupported, TypeOK, LocalTypes, GoodFlagsKept
<1>5. ASSUME NEW unresolved \in SUBSET cluster.served, manageConfigMap(unresolved)
      PROVE  OperandInv'
  BY <1>5, ConfigMapStep
<1>6. CASE manageDeployment \/ ReportStatus
  <2>1. /\ pc' \in {"status", "idle"}
        /\ UNCHANGED <<config, cluster, isOpenShift, enabled, kueue, failed, tlsOpts, configMap,
                       lastGood, intact, faults>>
    BY <1>6 DEF manageDeployment, ReportStatus
  <2>2. TypeOK' /\ LocalTypes' /\ GoodFlagsKept'
    BY <1>a, <2>1 DEF TypeOK, LocalTypes, GoodFlagsKept
  <2> QED
    BY <1>b, <2>1, <2>2
<1>7. CASE SyncFails \/ Restart
  <2>1. faults' \in 0..MaxFaults /\ pc' = "idle"
    <3>1. faults' = faults + 1 /\ faults < MaxFaults /\ pc' = "idle"
      BY <1>7 DEF SyncFails, Restart
    <3>2. faults \in 0..MaxFaults /\ MaxFaults \in Nat
      BY <1>a, OperandAssumption DEF TypeOK
    <3> QED
      BY <3>1, <3>2
  <2>2. CASE SyncFails
    BY <2>1, <2>2, <1>a, <1>b DEF SyncFails, TypeOK, LocalTypes, GoodFlagsKept
  <2>3. CASE Restart
    BY <2>1, <2>3, <1>a, <1>b DEF Restart, TypeOK, LocalTypes, GoodFlagsKept
  <2> QED
    BY <1>7, <2>2, <2>3
<1>8. CASE UserEdit
  <2>1. config' \in Configs /\ ValidConfig(config')
    BY <1>8 DEF UserEdit, Configs
  <2> QED
    BY <1>8, <1>a, <1>b, <2>1 DEF UserEdit, TypeOK, LocalTypes, GoodFlagsKept
<1>9. CASE ClusterChange
  <2>1. cluster' \in Clusters
    BY <1>9 DEF ClusterChange, Clusters
  <2>2. /\ cluster'.openShift = cluster.openShift
        /\ cluster.draAPIs => cluster'.draAPIs
        /\ cluster'.minor >= cluster.minor /\ cluster.minor \in Nat /\ cluster'.minor \in Nat
    BY <1>9, <1>a, <2>1, OperandAssumption DEF ClusterChange, TypeOK
  <2>3. GoodFlagsKept'
    BY <1>9, <1>a, <2>2 DEF ClusterChange, GoodFlagsKept
  <2> QED
    BY <1>9, <1>a, <1>b, <2>1, <2>2, <2>3 DEF ClusterChange, TypeOK, LocalTypes
<1>10. {} \in SUBSET Reads /\ {} \in SUBSET cluster.served
  OBVIOUS
<1> QED
  BY <1>1, <1>2, <1>3, <1>4, <1>5, <1>6, <1>7, <1>8, <1>9, <1>10 DEF Next, Sync, Faults

\* Every behaviour keeps the invariant.
LEMMA OperandInvariant == Spec => []OperandInv
<1>1. Init => OperandInv
  <2> SUFFICES ASSUME Init PROVE OperandInv
    OBVIOUS
  <2>1. config \in Configs /\ ValidConfig(config) /\ cluster \in Clusters
    BY DEF Init, Configs, Clusters
  <2>2. 0 \in 0..MaxFaults
    BY OperandAssumption
  <2>3. TypeOK
    BY <2>1, <2>2, Zenon DEF Init, TypeOK
  <2> QED
    BY <2>1, <2>3
       DEF Init, OperandInv, LocalTypes, TLSOptions, GoodFlagsKept, SourcesGated
<1> QED
  BY <1>1, OperandStep, PTL DEF Spec

(***************************************************************************)
(* The theorems                                                            *)
(***************************************************************************)

\* Every variable keeps its type: the live spec is one the API server accepts,
\* the flags name known gates, and the Deployment is managed with a ConfigMap.
THEOREM TypeCorrect == Spec => []TypeOK
<1>1. OperandInv => TypeOK
  BY DEF OperandInv
<1> QED
  BY <1>1, OperandInvariant, PTL

\* A ConfigMap renders a capacity source exactly if it enables Kueue's gate,
\* whatever was edited, detected or failed between the reads and the write.
THEOREM SourcesGatedCorrect == Spec => []SourcesGated
<1>1. OperandInv => SourcesGated
  BY DEF OperandInv
<1> QED
  BY <1>1, OperandInvariant, PTL

\* An outage of the FeatureGate read takes no capacity source out of the
\* ConfigMap that the last complete detection found enabled (T:376-381).
THEOREM OutageKeepsSourcesCorrect == Spec => OutageKeepsSources
<1>1. ASSUME OperandInv, [Next]_vars, DropsCapacity, intact
      PROVE  ~ lastGood
  <2>1. configMap' # configMap /\ CapacitySources(configMap') = {}
        /\ HasSourceOfType(kueue.deviceClassMappings, "Capacity")
    BY <1>1 DEF DropsCapacity
  <2>2. PICK unresolved \in SUBSET cluster.served : manageConfigMap(unresolved)
    BY <1>1, <2>1
       DEF Next, Sync, Faults, Detect, ReRead, TLSUnsupported, manageDeployment, ReportStatus,
           SyncFails, Restart, UserEdit, ClusterChange, vars, outVars
  <2> DEFINE enables == "DRAConsumableCapacity" \in enabled
  <2>3. PICK resolved \in SUBSET Served :
           /\ BuildConfigMap(kueue, resolved, enables, tlsOpts) # BuildError
           /\ configMap' = BuildConfigMap(kueue, resolved, enables, tlsOpts)
    BY <1>1, <2>1, <2>2, ConfigMapWritten
  <2>4. enables \in BOOLEAN
    OBVIOUS
  <2> HIDE DEF enables
  <2>5. ~ enables
    BY <2>1, <2>3, <2>4, CapacityRendered
  <2> QED
    BY <1>1, <2>5 DEF enables, OperandInv, GoodFlagsKept
<1>2. OperandInv /\ [Next]_vars =>
         [DropsCapacity /\ failed = {"featureGate"} /\ intact => ~ lastGood]_vars
  BY <1>1
<1> QED
  BY <1>2, OperandInvariant, PTL DEF Spec, OutageKeepsSources
=============================================================================
