-------------------------- MODULE ConfigMapBuilder --------------------------
(***************************************************************************)
(* BuildConfigMap: spec.config to the operand's configuration.  The fixed  *)
(* part of the template (ports, leader election, concurrency) and the YAML *)
(* form are left out; the document is the record of the parts that depend  *)
(* on the input, and two documents are equal when their records are.       *)
(***************************************************************************)
EXTENDS KueueConfig

CONSTANT BuildError     \* BuildConfigMap returns an error

\* Upstream's name of each framework.
conversionMap ==
    [BatchJob |-> "batch/job", MPIJob |-> "kubeflow.org/mpijob", RayJob |-> "ray.io/rayjob",
     RayCluster |-> "ray.io/raycluster", RayService |-> "ray.io/rayservice",
     JobSet |-> "jobset.x-k8s.io/jobset", PaddleJob |-> "kubeflow.org/paddlejob",
     PyTorchJob |-> "kubeflow.org/pytorchjob", TFJob |-> "kubeflow.org/tfjob",
     XGBoostJob |-> "kubeflow.org/xgboostjob", AppWrapper |-> "workload.codeflare.dev/appwrapper",
     Pod |-> "pod", Deployment |-> "deployment",
     LeaderWorkerSet |-> "leaderworkerset.x-k8s.io/leaderworkerset",
     StatefulSet |-> "statefulset", TrainJob |-> "trainer.kubeflow.org/trainjob",
     SparkApplication |-> "sparkoperator.k8s.io/sparkapplication"]

\* A Go map returns the empty string for a missing key.
buildFrameworkList(frameworks) ==
    {IF f \in DOMAIN conversionMap THEN conversionMap[f] ELSE "" : f \in frameworks}

mapOperatorIntegrationsToKueue(i) ==
    [frameworks |-> buildFrameworkList(i.frameworks),
     externalFrameworks |-> i.externalFrameworks,
     labelKeysToCopy |-> i.labelKeysToCopy]

\* A framework whose kind could not be resolved is named by its resource.
buildMultiKueueExternalFrameworkList(frameworks, resolved) ==
    {[framework |-> f, by |-> IF f \in resolved THEN "kind" ELSE "resource"] : f \in frameworks}

mapOperatorMultiKueueToKueue(multiKueue, resolved) ==
    IF multiKueue = Omitted THEN Omitted
    ELSE buildMultiKueueExternalFrameworkList(multiKueue.externalFrameworks, resolved)

buildManagedJobsWithoutQueueName(labelPolicy) == labelPolicy = "None"

\* The strategy appears when some field is set; the fields keep their values.
buildRequeuingStrategy(s) ==
    IF s = Omitted THEN Omitted
    ELSE [backoffLimitCount |-> s.retryLimit, backoffBaseSeconds |-> s.backoffBaseSeconds,
          backoffMaxSeconds |-> s.backoffMaxSeconds, timestamp |-> s.timeReference]

blockAdmission(byWorkload) == byWorkload.admission = "Sequential"

Year == 365 * 24 * 3600

buildWaitForPodsReady(g) ==
    CASE g.policy = "ByWorkload" ->
            [blockAdmission |-> blockAdmission(g.byWorkload),
             timeout |-> g.byWorkload.timeoutSeconds,
             recoveryTimeout |-> g.byWorkload.recoveryTimeoutSeconds,
             requeuingStrategy |-> buildRequeuingStrategy(g.byWorkload.requeuingStrategy)]
      [] g.policy = "None" ->
            [blockAdmission |-> FALSE, timeout |-> Year, recoveryTimeout |-> Omitted,
             requeuingStrategy |-> Omitted]
      [] OTHER -> Omitted

buildFairSharing(preemptionPolicy) == preemptionPolicy = "FairSharing"

\* Variant: capacity sources are rendered whether or not the gate is enabled.
buildResourcesUngated(mappings, enabled) ==
    {[name |-> m.name, deviceClassNames |-> m.deviceClassNames, sources |-> m.sources] :
        m \in mappings}

\* Capacity sources are dropped while the cluster's gate is not enabled.
buildResources(mappings, enabled) ==
    {[name |-> m.name, deviceClassNames |-> m.deviceClassNames,
      sources |-> {s \in m.sources : s = "Capacity" => enabled}] : m \in mappings}

buildFeatureGates(config, enabled) ==
    {gate \in {"KueueDRAIntegrationConsumableCapacity", "SparkApplicationIntegration",
               "ShortWorkloadNames", "CustomMetricLabels"} :
        CASE gate = "KueueDRAIntegrationConsumableCapacity" ->
                enabled /\ HasSourceOfType(config.deviceClassMappings, "Capacity")
          [] gate = "SparkApplicationIntegration" ->
                "SparkApplication" \in config.integrations.frameworks
          [] gate = "ShortWorkloadNames" ->
                \/ config.integrations.externalFrameworks # {}
                \/ /\ config.multiKueue # Omitted
                   /\ config.multiKueue.externalFrameworks # {}
          [] gate = "CustomMetricLabels" -> config.customLabels # {}}

buildControllerMetrics(labels) ==
    {[name |-> l.name, sourceKind |-> l.sourceKind,
      key |-> IF l.sourceKey.sourceType = "Annotation" THEN l.sourceKey.annotation
              ELSE l.sourceKey.label] : l \in labels}

\* ParseFloat refuses a weight outside float64's range.
buildAdmissionFairSharing(a) ==
    CASE a.configuration = "" -> Omitted
      [] a.configuration = "Custom" ->
            IF \E w \in a.custom.resourceWeights : w.weight = "overflow" THEN BuildError
            ELSE [usageHalfLifeTime |-> a.custom.usageHalfLifeTimeSeconds,
                  usageSamplingInterval |-> a.custom.usageSamplingIntervalSeconds,
                  resourceWeights |-> a.custom.resourceWeights]
      [] OTHER -> [usageHalfLifeTime |-> 30 * 60, usageSamplingInterval |-> Omitted,
                   resourceWeights |-> {}]

BuildConfigMap(config, resolved, enabled, tlsOpts) ==
    IF buildAdmissionFairSharing(config.admissionFairSharing) = BuildError THEN BuildError
    ELSE [tls |-> tlsOpts,
          integrations |-> mapOperatorIntegrationsToKueue(config.integrations),
          manageJobsWithoutQueueName |-> buildManagedJobsWithoutQueueName(config.labelPolicy),
          waitForPodsReady |-> buildWaitForPodsReady(config.gangScheduling),
          fairSharing |-> buildFairSharing(config.preemptionPolicy),
          resources |-> buildResources(config.deviceClassMappings, enabled),
          featureGates |-> buildFeatureGates(config, enabled),
          multiKueue |-> mapOperatorMultiKueueToKueue(config.multiKueue, resolved),
          admissionFairSharing |-> buildAdmissionFairSharing(config.admissionFairSharing),
          customLabels |-> buildControllerMetrics(config.customLabels)]
=============================================================================
