---------------------------- MODULE WebhookRules ----------------------------
(***************************************************************************)
(* Which objects Kueue's admission webhooks intercept: the rules derived   *)
(* from spec.config.integrations.frameworks (pod_webhook.go), applied to   *)
(* the two live configurations with the resource cache, while cert-manager *)
(* injects CA bundles, users edit spec and label namespaces.               *)
(*                                                                         *)
(* A sync is reduced to its two webhook applies, each a Get and an Update  *)
(* under optimistic concurrency.  A webhook's name is modelled by the      *)
(* suffix left of it without the prefix "m" or "v" and ".kb.io".           *)
(***************************************************************************)
EXTENDS Naturals, Sequences

CONSTANTS
    Assets,             \* the suffixes each asset lists, by configuration
    Selected,           \* the suffixes whose asset has a namespaceSelector
    FrameworkSets,      \* the values of integrations.frameworks users try
    Namespaces,
    SystemNamespaces,   \* the namespaces the assets exclude
    OperatorNamespace,
    NoSelector, NoConfig, NoMemo,
    MaxEdits, MaxChanges, MaxFaults

Configurations == {"mutating", "validating"}

ASSUME WebhookAssumption ==
    /\ DOMAIN Assets = Configurations
    /\ \A c \in Configurations : Assets[c] \subseteq STRING
    /\ {"pod", "deployment"} \subseteq Selected
    /\ OperatorNamespace \in SystemNamespaces
    /\ SystemNamespaces \subseteq Namespaces
    /\ MaxEdits \in Nat /\ MaxChanges \in Nat /\ MaxFaults \in Nat

VARIABLES
    frameworks,   \* spec.config.integrations.frameworks
    managed,      \* the namespaces labelled kueue.openshift.io/managed=true
    live,         \* the configuration in the API server, or NoConfig
    memo,         \* the resource cache: what was required, and the version it made
    pc,           \* "idle", "get" or "write", and of which configuration
    kueue,        \* sync's copy of frameworks
    existing,     \* what Get returned
    ca,           \* the CA bundle cert-manager injects now
    edits, changes, faults

envVars == <<frameworks, managed, edits>>
certVars == <<ca, changes>>
vars == <<envVars, live, memo, pc, kueue, existing, certVars, faults>>

-----------------------------------------------------------------------------
(* The rules *)

webhooksList ==
    [BatchJob |-> "job", MPIJob |-> "mpijob", RayJob |-> "rayjob",
     RayCluster |-> "raycluster", RayService |-> "rayservice", JobSet |-> "jobset",
     PaddleJob |-> "paddlejob", PyTorchJob |-> "pytorchjob", TFJob |-> "tfjob",
     XGBoostJob |-> "xgboostjob", JaxJob |-> "jaxjob", Pod |-> "pod",
     Deployment |-> "deployment", StatefulSet |-> "statefulset",
     TrainJob |-> "trainjob", LeaderWorkerSet |-> "leaderworkerset",
     AppWrapper |-> "appwrapper", SparkApplication |-> "sparkapplication",
     annotationClusterQueue |-> "clusterqueue", annotationWorkload |-> "workload",
     annotationResourceFlavor |-> "resourceflavor", annotationCohort |-> "cohort"]

\* The keys with the prefix kueue.x-k8s.io/.
Core == {"annotationClusterQueue", "annotationWorkload",
         "annotationResourceFlavor", "annotationCohort"}

\* The CRD admits the integrations webhooksList names (types.go, the enum of
\* KueueIntegration).
ASSUME FrameworksAssumption ==
    \A fws \in FrameworkSets : fws \subseteq DOMAIN webhooksList \ Core

\* getFrameworkForValidatingWebhook, getFrameworkForMutatingWebhook; both
\* panic on a suffix that is not registered.
Registered(suffix) == \E fw \in DOMAIN webhooksList : webhooksList[fw] = suffix
getFramework(suffix) == CHOOSE fw \in DOMAIN webhooksList : webhooksList[fw] = suffix

\* Variant: the core kinds have to be asked for.
buildEnabledWithoutCore(fws) ==
    fws \union (IF fws \intersect {"LeaderWorkerSet", "StatefulSet", "Deployment"} # {}
                THEN {"Pod"} ELSE {})

buildEnabledFrameworks(fws) ==
    fws \union Core
        \union (IF fws \intersect {"LeaderWorkerSet", "StatefulSet", "Deployment"} # {}
                THEN {"Pod"} ELSE {})

isClusterScopedFramework(fw) ==
    fw \in {"annotationClusterQueue", "annotationResourceFlavor", "annotationCohort"}

\* A selector's matchExpressions, by key: they are ANDed, none of these lists
\* names a key twice, and no selector here has matchLabels.
Expressions == [operator : {"In", "NotIn"}, values : SUBSET (Namespaces \union {"true"})]
Selectors == UNION {[keys -> Expressions] : keys \in SUBSET {"managed", "name"}}

defaultLabelSelector == [managed |-> [operator |-> "In", values |-> {"true"}]]

assetSelector(suffix) ==
    IF suffix \in Selected
    THEN [name |-> [operator |-> "NotIn", values |-> SystemNamespaces]]
    ELSE NoSelector

\* Variant: the selector of the operator replaces the asset's.
mergeSelectorsReplace(cr, present) == IF cr = NoSelector THEN present ELSE cr

\* Variant: the asset's selector wins.
mergeSelectorsKeep(cr, present) == IF present = NoSelector THEN cr ELSE present

\* The first expression of every key: the operator's before the asset's.
mergeSelectors(cr, present) ==
    IF cr = NoSelector THEN present
    ELSE IF present = NoSelector THEN cr
    ELSE [key \in DOMAIN cr \union DOMAIN present |->
             IF key \in DOMAIN cr THEN cr[key] ELSE present[key]]

\* A webhook of a configuration, a configuration, and what the cache keeps.
Webhooks ==
    [name : STRING, caBundle : Nat, selector : Selectors \union {NoSelector}]
Live == [webhooks : SUBSET Webhooks, version : Nat]
Memos == [required : SUBSET Webhooks, version : Nat]

ASSUME NothingAssumption ==
    NoSelector \notin Selectors /\ NoConfig \notin Live /\ NoMemo \notin Memos

\* ModifyPodBased{Mutating,Validating}Webhook with mergeNamespaceSelectors.
ModifyPodBasedWebhook(fws, suffixes) ==
    {[name |-> s, caBundle |-> 0,
      selector |-> IF isClusterScopedFramework(getFramework(s)) THEN assetSelector(s)
                   ELSE mergeSelectors(defaultLabelSelector, assetSelector(s))] :
        s \in {s \in suffixes : getFramework(s) \in buildEnabledFrameworks(fws)}}

-----------------------------------------------------------------------------
(* Applying them *)

Following(c) == IF c = "mutating" THEN <<"get", "validating">> ELSE <<"idle", c>>

\* The copy of spec a sync works on, taken when it starts.
BeginSync ==
    /\ pc[1] = "idle"
    /\ kueue' = frameworks
    /\ pc' = <<"get", "mutating">>
    /\ UNCHANGED <<envVars, live, memo, existing, certVars, faults>>

Remember(c, required, version) ==
    memo' = [memo EXCEPT ![c] = [required |-> required, version |-> version]]

\* Apply...WebhookConfigurationImproved: create, skip, or go on to an update.
\* An asset with an unregistered name panics: no sync ever gets past it.
manageWebhook(c) ==
    /\ pc = <<"get", c>>
    /\ \A s \in Assets[c] : Registered(s)
    /\ LET required == ModifyPodBasedWebhook(kueue, Assets[c])
       IN  \/ /\ live[c] = NoConfig
              /\ live' = [live EXCEPT ![c] = [webhooks |-> required, version |-> 1]]
              /\ Remember(c, required, 1)
              /\ pc' = Following(c)
              /\ UNCHANGED existing
           \/ /\ live[c] # NoConfig
              /\ memo[c] = [required |-> required, version |-> live[c].version]
              /\ pc' = Following(c)
              /\ UNCHANGED <<live, memo, existing>>
           \/ /\ live[c] # NoConfig
              /\ memo[c] # [required |-> required, version |-> live[c].version]
              /\ existing' = live[c]
              /\ pc' = <<"write", c>>
              /\ UNCHANGED <<live, memo>>
    /\ UNCHANGED <<envVars, kueue, certVars, faults>>

\* Variant: what is there is added to rather than replaced.
copyCABundleMerges(from, to) == from \union to

\* copyMutatingWebhookCABundle: by webhook name.
copyCABundle(from, to) ==
    {[wh EXCEPT !.caBundle = IF \E old \in from : old.name = wh.name
                             THEN (CHOOSE old \in from : old.name = wh.name).caBundle
                             ELSE @] : wh \in to}

\* Variant: the update does not name the version that was read.
updateWebhookForced(c) ==
    /\ pc = <<"write", c>>
    /\ live[c] # NoConfig
    /\ LET required == ModifyPodBasedWebhook(kueue, Assets[c])
           updated == copyCABundle(existing.webhooks, required)
           version == live[c].version + 1
       IN  /\ live' = [live EXCEPT ![c] = [webhooks |-> updated, version |-> version]]
           /\ Remember(c, required, version)
           /\ pc' = Following(c)
    /\ UNCHANGED <<envVars, kueue, existing, certVars, faults>>

\* Update: refused when the version read is no longer the live one; a write
\* that changes nothing makes no new version.
updateWebhook(c) ==
    /\ pc = <<"write", c>>
    /\ IF live[c] = existing
       THEN LET required == ModifyPodBasedWebhook(kueue, Assets[c])
                updated == copyCABundle(existing.webhooks, required)
                version == existing.version + (IF updated = existing.webhooks THEN 0 ELSE 1)
            IN  /\ live' = [live EXCEPT ![c] = [webhooks |-> updated, version |-> version]]
                /\ Remember(c, required, version)
                /\ pc' = Following(c)
       ELSE /\ pc' = <<"idle", c>>
            /\ UNCHANGED <<live, memo>>
    /\ UNCHANGED <<envVars, kueue, existing, certVars, faults>>

\* A call fails, and sync with it.
SyncFails ==
    /\ pc[1] \in {"get", "write"}
    /\ faults < MaxFaults
    /\ faults' = faults + 1
    /\ pc' = <<"idle", pc[2]>>
    /\ UNCHANGED <<envVars, live, memo, kueue, existing, certVars>>

\* The resource cache does not survive the process.
Restart ==
    /\ faults < MaxFaults
    /\ faults' = faults + 1
    /\ pc' = <<"idle", "mutating">>
    /\ memo' = [c \in Configurations |-> NoMemo]
    /\ UNCHANGED <<envVars, live, kueue, existing, certVars>>

-----------------------------------------------------------------------------
(* The others *)

\* cert-manager's injector writes one CA into every webhook.
Inject(c) ==
    /\ live[c] # NoConfig
    /\ \E wh \in live[c].webhooks : wh.caBundle # ca
    /\ live' = [live EXCEPT ![c].webhooks = {[wh EXCEPT !.caBundle = ca] : wh \in @},
                            ![c].version = @ + 1]
    /\ UNCHANGED <<envVars, memo, pc, kueue, existing, certVars, faults>>

\* The CA is renewed, or somebody takes a configuration or one of its
\* webhooks away.
Disturb ==
    /\ changes < MaxChanges
    /\ changes' = changes + 1
    /\ \/ ca' = ca + 1 /\ UNCHANGED live
       \/ \E c \in Configurations :
             /\ live[c] # NoConfig
             /\ \/ live' = [live EXCEPT ![c] = NoConfig]
                \/ \E wh \in live[c].webhooks :
                      live' = [live EXCEPT ![c].webhooks = @ \ {wh}, ![c].version = @ + 1]
             /\ UNCHANGED ca
    /\ UNCHANGED <<envVars, memo, pc, kueue, existing, faults>>

UserEdit ==
    /\ edits < MaxEdits
    /\ edits' = edits + 1
    /\ frameworks' \in FrameworkSets \ {frameworks}
    /\ UNCHANGED <<managed, live, memo, pc, kueue, existing, certVars, faults>>

UserLabels ==
    /\ edits < MaxEdits
    /\ edits' = edits + 1
    /\ \E ns \in Namespaces : managed' = managed \union {ns}
    /\ managed' # managed
    /\ UNCHANGED <<frameworks, live, memo, pc, kueue, existing, certVars, faults>>

-----------------------------------------------------------------------------

Init ==
    /\ frameworks \in FrameworkSets
    /\ managed = {}
    /\ live = [c \in Configurations |-> NoConfig]
    /\ memo = [c \in Configurations |-> NoMemo]
    /\ pc = <<"idle", "mutating">>
    /\ kueue = {}
    /\ existing = NoConfig
    /\ ca = 1
    /\ edits = 0 /\ changes = 0 /\ faults = 0

Sync == BeginSync \/ \E c \in Configurations : manageWebhook(c) \/ updateWebhook(c)

Next ==
    \/ Sync
    \/ \E c \in Configurations : Inject(c)
    \/ SyncFails \/ Restart
    \/ Disturb \/ UserEdit \/ UserLabels

Fairness == WF_vars(Sync) /\ \A c \in Configurations : WF_vars(Inject(c))

Spec == Init /\ [][Next]_vars /\ Fairness

-----------------------------------------------------------------------------
(* What is intercepted *)

LabelsOf(ns) == [name |-> ns, managed |-> IF ns \in managed THEN "true" ELSE "unset"]

Meets(label, e) ==
    IF e.operator = "In" THEN label \in e.values ELSE label \notin e.values

ClusterScoped == {"clusterqueue", "resourceflavor", "cohort"}

\* A request for an object of the kind in the namespace reaches Kueue; the
\* namespaceSelector does not apply to a cluster-scoped kind.
Intercepts(wh, kind, ns) ==
    /\ wh.name = kind
    /\ \/ kind \in ClusterScoped
       \/ wh.selector = NoSelector
       \/ \A key \in DOMAIN wh.selector : Meets(LabelsOf(ns)[key], wh.selector[key])

Intercepted(c, kind, ns) ==
    live[c] # NoConfig /\ \E wh \in live[c].webhooks : Intercepts(wh, kind, ns)

TypeOK ==
    /\ frameworks \in FrameworkSets
    /\ managed \subseteq Namespaces
    /\ pc[1] \in {"idle", "get", "write"} /\ pc[2] \in Configurations
    /\ \A c \in Configurations :
          /\ live[c] # NoConfig =>
                /\ \A wh \in live[c].webhooks : wh.name \in Assets[c] /\ wh.caBundle \in 0..ca
                /\ \A v, w \in live[c].webhooks : v.name = w.name => v = w
          /\ memo[c] # NoMemo /\ live[c] # NoConfig =>
                memo[c].version <= live[c].version

\* "To enable the validating and mutating webhooks for a specific namespace,
\* use the following label" (README.md:116): whatever edit, crash or lost write
\* came before, an object in a namespace without the label never reaches Kueue.
OptInOnly ==
    \A c \in Configurations, ns \in Namespaces \ managed :
        \A kind \in Assets[c] \ ClusterScoped : ~ Intercepted(c, kind, ns)

\* Kueue's own pods and Deployment are never sent to Kueue, even when somebody
\* labels its namespace: with failurePolicy Fail the operand could not come
\* back after all its pods were gone (mergeSelectors keeps the asset's NotIn).
OperandAdmitted ==
    \A c \in Configurations, kind \in {"pod", "deployment"} :
        ~ Intercepted(c, kind, OperatorNamespace)

\* No write of the operator takes an injected CA bundle from a webhook that
\* stays, not even one racing with the injector (copyMutatingWebhookCABundle,
\* the version of the Update).
BundleOf(c, name) ==
    IF live[c] = NoConfig \/ ~ \E wh \in live[c].webhooks : wh.name = name THEN 0
    ELSE (CHOOSE wh \in live[c].webhooks : wh.name = name).caBundle
WritesKeepCA ==
    [][\A c \in Configurations :
          pc = <<"write", c>> /\ pc' # pc /\ live[c] # NoConfig =>
             \A name \in {wh.name : wh \in live[c].webhooks} :
                \/ BundleOf(c, name)' = BundleOf(c, name)
                \/ \A wh \in live'[c].webhooks : wh.name # name]_vars

\* The kinds that should reach Kueue: the core ones, the enabled ones, and pods
\* for those whose pods need scheduling gates (pod_webhook.go:249-258).
Wanted ==
    ClusterScoped \union {"workload"} \union {webhooksList[fw] : fw \in frameworks}
    \union (IF frameworks \intersect {"LeaderWorkerSet", "StatefulSet", "Deployment"} = {}
            THEN {} ELSE {"pod"})

Correct ==
    \A c \in Configurations :
        /\ live[c] # NoConfig
        /\ \A wh \in live[c].webhooks : wh.caBundle = ca
        /\ \A kind \in Assets[c], ns \in Namespaces :
              Intercepted(c, kind, ns) <=>
                 /\ kind \in Wanted
                 /\ \/ kind \in ClusterScoped
                    \/ ns \in managed /\ (ns \notin SystemNamespaces \/ kind \notin Selected)

\* Once users and disturbances rest, exactly the kinds asked for are
\* intercepted, in the labelled namespaces only and with the current CA,
\* although the operator, which skips applies it remembers, and the injector
\* write the same objects.
Converges == <>[]Correct
=============================================================================
