---------------------------- MODULE KueueConfig ----------------------------
(***************************************************************************)
(* spec.config of the Kueue object: its fields and what the API server     *)
(* accepts (the enums, ranges, list keys, unions and CEL rules declared in *)
(* types.go).  An optional field that is not set is Omitted.  Lists are    *)
(* sets where order means nothing to the operator; the patterns of names   *)
(* are left out, a name is any string.                                     *)
(***************************************************************************)
EXTENDS Integers, FiniteSets

CONSTANT Omitted    \* an optional field that is not set

KueueIntegration ==
    {"BatchJob", "RayJob", "RayCluster", "RayService", "JobSet", "MPIJob", "PaddleJob",
     "PyTorchJob", "TFJob", "TrainJob", "XGBoostJob", "JaxJob", "AppWrapper", "Pod",
     "Deployment", "StatefulSet", "LeaderWorkerSet", "SparkApplication"}

\* An optional integer field with its minimum and maximum.
InRange(value, min, max) == value # Omitted => value \in min..max

\* The union rules: member is set exactly when the discriminator says so.
Union(selected, member) == selected <=> member # Omitted

\* listType=map: no two items agree on the key.
UniqueBy(items, Key(_)) == \A x, y \in items : Key(x) = Key(y) => x = y

Group(framework) == framework.group
Name(item) == item.name

-----------------------------------------------------------------------------
(* Integrations, MultiKueue *)

ValidExternalFrameworks(frameworks) ==
    UniqueBy(frameworks, Group) /\ Cardinality(frameworks) <= 32

ValidIntegrations(i) ==
    /\ i.frameworks \in SUBSET KueueIntegration \ {{}}
    /\ ValidExternalFrameworks(i.externalFrameworks)
    /\ Cardinality(i.labelKeysToCopy) <= 64

ValidMultiKueue(m) == m # Omitted => ValidExternalFrameworks(m.externalFrameworks)

-----------------------------------------------------------------------------
(* Gang scheduling *)

\* CEL evaluates a comparison with a field that is not set to an error, and
\* || absorbs an error only beside a true operand.
CelTruth(defined, value) == IF ~ defined THEN "error" ELSE IF value THEN "true" ELSE "false"
CelOr(p, q) ==
    IF "true" \in {p, q} THEN "true" ELSE IF "error" \in {p, q} THEN "error" ELSE "false"

\* self.backoffBaseSeconds == 0 || self.backoffMaxSeconds == 0
\*     || self.backoffBaseSeconds <= self.backoffMaxSeconds
BackoffRule(s) ==
    LET base == s.backoffBaseSeconds
        max == s.backoffMaxSeconds
        baseZero == CelTruth(base # Omitted, base = 0)
        maxZero == CelTruth(max # Omitted, max = 0)
        ordered == CelTruth(base # Omitted /\ max # Omitted, base <= max)
    IN  CelOr(CelOr(baseZero, maxZero), ordered) = "true"

\* What each field of a requeuing strategy allows by itself.
RequeuingFields(s) ==
    /\ s.timeReference \in {Omitted, "Eviction", "Creation"}
    /\ InRange(s.retryLimit, 1, 200)
    /\ InRange(s.backoffBaseSeconds, 30, 3600)
    /\ InRange(s.backoffMaxSeconds, 30, 7200)
    /\ \E f \in DOMAIN s : s[f] # Omitted

ValidRequeuingStrategy(s) == s # Omitted => RequeuingFields(s) /\ BackoffRule(s)

Day == 24 * 3600

ValidByWorkload(w) ==
    /\ w.admission \in {"", "Parallel", "Sequential"}
    /\ InRange(w.timeoutSeconds, 30, Day)
    /\ InRange(w.recoveryTimeoutSeconds, 0, Day)
    /\ ValidRequeuingStrategy(w.requeuingStrategy)

ValidGangScheduling(g) ==
    /\ g.policy \in {"", "ByWorkload", "ByWorkloadDefaults", "None"}
    /\ Union(g.policy = "ByWorkload", g.byWorkload)
    /\ g.byWorkload # Omitted => ValidByWorkload(g.byWorkload)

-----------------------------------------------------------------------------
(* Workload management, preemption *)

ValidLabelPolicy(p) == p \in {"", "QueueName", "None"}

ValidPreemptionPolicy(p) == p \in {"", "Classical", "FairSharing"}

-----------------------------------------------------------------------------
(* Resources (DRA) *)

\* A source is its type; counter and capacity carry the names to copy.
DeviceClassSourceType == {"Counter", "Capacity"}

ValidDeviceClassMapping(m) ==
    /\ Cardinality(m.deviceClassNames) \in 1..8
    /\ m.sources \subseteq DeviceClassSourceType
    /\ Cardinality(m.sources) <= 1

\* Each DeviceClass name can only appear in one mapping.
ValidResources(mappings) ==
    /\ Cardinality(mappings) <= 16
    /\ UniqueBy(mappings, Name)
    /\ \A m \in mappings : ValidDeviceClassMapping(m)
    /\ \A m1, m2 \in mappings :
          m1 # m2 => m1.deviceClassNames \intersect m2.deviceClassNames = {}

\* HasSourceOfType
HasSourceOfType(mappings, type) == \E m \in mappings : type \in m.sources

-----------------------------------------------------------------------------
(* Admission fair sharing, custom metric labels *)

\* A weight is what ParseFloat makes of it: the pattern admits decimal numbers
\* of any magnitude, so "overflow" is accepted and "malformed" is not.
ValidResourceWeight(w) == w.weight \in {"finite", "overflow"}

ValidCustom(c) ==
    /\ c.usageHalfLifeTimeSeconds \in 1..31536000
    /\ InRange(c.usageSamplingIntervalSeconds, 1, 3600)
    /\ UniqueBy(c.resourceWeights, Name)
    /\ Cardinality(c.resourceWeights) <= 16
    /\ \A w \in c.resourceWeights : ValidResourceWeight(w)

ValidAdmissionFairSharing(a) ==
    /\ a.configuration \in {"", "Default", "Custom"}
    /\ Union(a.configuration = "Custom", a.custom)
    /\ a.custom # Omitted => ValidCustom(a.custom)

ValidSourceKey(k) ==
    /\ k.sourceType \in {"Label", "Annotation"}
    /\ Union(k.sourceType = "Label", k.label)
    /\ Union(k.sourceType = "Annotation", k.annotation)

ValidCustomLabels(labels) ==
    /\ Cardinality(labels) <= 18
    /\ UniqueBy(labels, Name)
    /\ \A l \in labels : ValidSourceKey(l.sourceKey)
    /\ \A kind \in {"Cohort", "LocalQueue", "ClusterQueue"} :
          Cardinality({l \in labels : l.sourceKind = kind}) <= 6

-----------------------------------------------------------------------------
\* What the API server accepts.
ValidConfig(config) ==
    /\ ValidIntegrations(config.integrations)
    /\ ValidLabelPolicy(config.labelPolicy)
    /\ ValidGangScheduling(config.gangScheduling)
    /\ ValidPreemptionPolicy(config.preemptionPolicy)
    /\ ValidResources(config.deviceClassMappings)
    /\ ValidMultiKueue(config.multiKueue)
    /\ ValidAdmissionFairSharing(config.admissionFairSharing)
    /\ ValidCustomLabels(config.customLabels)
=============================================================================
