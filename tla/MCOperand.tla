----------------------------- MODULE MCOperand -----------------------------
(* Instances of OperandConfig for TLC. *)
EXTENDS OperandConfig

Default ==
    [integrations |-> [frameworks |-> {"BatchJob"}, externalFrameworks |-> {},
                       labelKeysToCopy |-> {}],
     labelPolicy |-> "",
     gangScheduling |-> [policy |-> "", byWorkload |-> Omitted],
     preemptionPolicy |-> "",
     deviceClassMappings |-> {},
     multiKueue |-> Omitted,
     admissionFairSharing |-> [configuration |-> "", custom |-> Omitted],
     customLabels |-> {}]

WithFrameworks(frameworks) == [Default EXCEPT !.integrations.frameworks = frameworks]

Mapping(name, class, sources) ==
    [name |-> name, deviceClassNames |-> {class}, sources |-> sources]

\* DRA: no mapping, a counter, a capacity, both, and one class mapped twice.
ConfigsDRA ==
    {[Default EXCEPT !.deviceClassMappings = mappings] :
        mappings \in {{}, {Mapping("m1", "c1", {"Counter"})}, {Mapping("m1", "c1", {"Capacity"})},
                      {Mapping("m1", "c1", {"Capacity"}), Mapping("m2", "c2", {"Counter"})},
                      {Mapping("m1", "c1", {"Capacity"}), Mapping("m2", "c1", {})}}}

Cluster(draAPIs, minor, gates) ==
    [openShift |-> TRUE, draAPIs |-> draAPIs, minor |-> minor, gates |-> gates, operators |-> {},
     served |-> {}, profile |-> NoProfile]

ClustersDRA ==
    {Cluster(FALSE, 33, {}), Cluster(TRUE, 36, {}), Cluster(TRUE, 35, {"DRAConsumableCapacity"}),
     Cluster(TRUE, 35, {"DRAPartitionableDevices"} \union OtherGates)}

\* The other sections, each with its boundary values.
RequeuingStrategy(base, max, limit) ==
    [timeReference |-> Omitted, retryLimit |-> limit,
     backoffBaseSeconds |-> base, backoffMaxSeconds |-> max]

Gang(admission, timeout, recovery, strategy) ==
    [Default EXCEPT !.gangScheduling =
        [policy |-> "ByWorkload",
         byWorkload |-> [admission |-> admission, timeoutSeconds |-> timeout,
                         recoveryTimeoutSeconds |-> recovery, requeuingStrategy |-> strategy]]]

ConfigsGang ==
    {Default, [Default EXCEPT !.gangScheduling.policy = "None"],
     [Default EXCEPT !.gangScheduling.policy = "ByWorkload"]} \union
    {Gang("Sequential", 30, 0, RequeuingStrategy(base, max, 3)) :
        base \in {Omitted, 30, 60, 3600}, max \in {Omitted, 30, 60, 7200}} \union
    {Gang("", t, Omitted, Omitted) : t \in {29, 30, 86400}}

Framework(group) == [group |-> group, version |-> "v1", resource |-> "things"]

WithMultiKueue(frameworks) ==
    [Default EXCEPT !.multiKueue = [externalFrameworks |-> frameworks]]

Label(name, type) ==
    [name |-> name, sourceKind |-> "Cohort",
     sourceKey |-> [sourceType |-> type, label |-> IF type = "Label" THEN "k" ELSE Omitted,
                    annotation |-> IF type = "Annotation" THEN "k" ELSE Omitted]]

FairSharing(weight) ==
    [Default EXCEPT !.admissionFairSharing =
        [configuration |-> "Custom",
         custom |-> [usageHalfLifeTimeSeconds |-> 1, usageSamplingIntervalSeconds |-> Omitted,
                     resourceWeights |-> {[name |-> "cpu", weight |-> weight]}]]]

ConfigsFrameworks ==
    {WithFrameworks({"JobSet", "LeaderWorkerSet"}), WithFrameworks({"SparkApplication"})}

ConfigsMultiKueue ==
    {WithMultiKueue({}), WithMultiKueue({Framework("g1")}),
     WithMultiKueue({Framework("g1"), Framework("g2")})}

ConfigsFairSharing ==
    {FairSharing("finite"), FairSharing("overflow"), FairSharing("malformed"),
     [Default EXCEPT !.admissionFairSharing.configuration = "Default"]}

ConfigsLabels ==
    {[Default EXCEPT !.labelPolicy = "None", !.preemptionPolicy = "FairSharing"],
     [Default EXCEPT !.integrations.externalFrameworks = {Framework("g1")}],
     [Default EXCEPT !.customLabels = {Label("a", "Label"), Label("b", "Annotation")}],
     [Default EXCEPT !.customLabels = {Label("a", "Label"), Label("a", "Annotation")}]}

Serving(operators, served, profile) ==
    [openShift |-> TRUE, draAPIs |-> FALSE, minor |-> 33, gates |-> {}, operators |-> operators,
     served |-> served, profile |-> profile]

Custom(min, ciphers) ==
    [type |-> "Custom", custom |-> [minTLSVersion |-> min, ciphers |-> ciphers, groups |-> {"x25519"}]]

Plain == [Serving(Dependencies, {}, NoProfile) EXCEPT !.openShift = FALSE]

\* TLS profiles: the default, one of the named ones, one with a cipher nobody
\* knows, one that is too old, one that lacks its settings.
ClustersTLS ==
    {Serving({}, {}, p) :
        p \in {NoProfile, [type |-> "Modern"], Custom(12, {"aes", "bogus"}), Custom(11, {"aes"}),
               [type |-> "Custom", custom |-> NoProfile]}}

\* Edits stay within a section of spec.config; each section is tried in the
\* clusters that make a difference to it.
ScenariosAll ==
    {[configs |-> ConfigsDRA, clusters |-> ClustersDRA],
     [configs |-> ConfigsDRA,
      clusters |-> {[Cluster(TRUE, minor, {}) EXCEPT !.openShift = FALSE] : minor \in {35, 36}}],
     [configs |-> ConfigsGang, clusters |-> {Plain}],
     [configs |-> ConfigsFrameworks,
      clusters |-> {Serving(operators, {}, NoProfile) : operators \in {{}, {"JobSet"}, Dependencies}}],
     [configs |-> ConfigsMultiKueue,
      clusters |-> {Serving({}, served, NoProfile) :
                       served \in {{}, {Framework("g1")}, {Framework("g1"), Framework("g2")}}}],
     [configs |-> ConfigsFairSharing \union ConfigsLabels, clusters |-> {Plain}],
     [configs |-> {Default}, clusters |-> ClustersTLS]}
=============================================================================
