# A TLA+ model of the Kueue operator

The Kueue operator (`src/pkg/operator`) installs and maintains Kueue in a
cluster. A user creates one cluster-scoped `Kueue` object named `cluster`; one
controller, `TargetConfigReconciler`, keeps the operand (certificates,
ConfigMap, RBAC, CRDs, webhooks, Deployment, ...) in step with it and removes
what Kubernetes would not remove when the object is deleted. This directory
holds TLA+ modules that model that controller, the TLC runs that check small
instances, and proofs, checked by TLAPS, of the main safety properties for
every size of the instance.

Below, `T:n` is line n of `src/pkg/operator/target_config_reconciler.go`.

## 1. Inventory

| Component | State | Operations | Correct when |
|---|---|---|---|
| `sync` (T:272-881) | the `kueue` pointer into the informer's store, `ownerReference`, `specAnnotations`, `dependencyCondition` | one pass: gate on cert-manager, finalizer, cleanup or apply, certificate wait, re-read, TLS profile, apply, status | the operand ends up as the live object asks; nothing is left behind by a deletion |
| finalizer (T:1030-1097) | `metadata.finalizers` | add before applying, remove after cleanup | present whenever there is something to clean up |
| cleanup (T:1099-1330) | cluster objects | webhooks, certificates and issuers, cluster roles, cluster role bindings, ConfigMap and two Secrets | all of it done before the finalizer goes, and retried until done |
| `apply...WithCache` (T:2213-2424, 2547-2613), `src/pkg/util/resourceapply` | `resourceCache`: object -> (hash of required, resourceVersion); lister | skip, or live read and create/update | drift is repaired; no foreign write is lost unread |
| certificate wait (`src/pkg/cert/cert.go`) | none | poll for two minutes | webhooks never precede their certificate; the only worker is not held for ever |
| conditions (T:883-1028) | `status.conditions` | three condition sets, one server-side apply | status describes the object's latest spec |
| DRA gates and dependencies (T:313-416, 2439-2458) | two in-memory flags | recomputed by each sync, kept over a failed read | a transient error does not flip a gate |
| ConfigMap builder (`src/pkg/configmap`) | none | spec -> operand configuration | each framework, label and mapping appears once and correctly |
| TLS profile (`src/pkg/tlsprofile`) | none | profile -> operand options, or unsupported | no weaker than the profile |
| webhook rules (`src/pkg/webhook`) | none | rewrite rules by the enabled frameworks | exactly the enabled kinds are intercepted, in labelled namespaces only |
| rollout trigger (`specAnnotations`, T:589-859) | hashes of what the applies returned | annotate the pod template | the operand restarts when a spec changes, and stops restarting |
| network policies (T:1670-1863) | cluster objects | one file after the other, adapted to the platform | the operator never locks itself out |
| OpenShift detection (T:2492-2545) | `isOpenShift`, per process | six tries at start | the truth |
| ServiceMonitor, RBAC (T:1384-1668, 2138-2211) | cluster objects | read an asset, set owner and namespace, apply | as above |
| start (`src/pkg/operator/starter.go`) | informers, clients | build everything, leader election | a restart loses nothing but memory |

Interactions. `sync` reads the Kueue object only from an informer and writes it
only through the API server, so it works on old versions of it; the finalizer
code also reads the live object and then *overwrites the informer's own copy*
(`*kueue = *patched`, T:1085). The user, cert-manager (which issues Secrets and
injects CA bundles), the garbage collector (which follows owner references) and
administrators write to the same objects. Any informer event, a failed sync's
rate-limited retry, and a resync every five minutes (T:267) start the next sync;
there is one worker.

What is hard: stale and backward-moving reads; a sync that blocks for minutes in
the middle and then continues with a mix of old and new data; deletion and
re-creation during a sync; calls that fail halfway through a cleanup; answers
that get lost; restarts; other writers. `PROJECT.json` lists these hazards with
their lines and the properties that watch them.

## 2. Modules

| Module | What it is |
|---|---|
| `KueueLifecycle` | the life of the Kueue object and the operand under `sync` |
| `KueueContract` | what that promises: guarded before anything exists, brought up and taken apart in order, released only when nothing remains |
| `KueueLifecycleProofs` | theorems about `KueueLifecycle`, and one about `CertificateWait`, its step `wait` in detail |
| `ApplyWithCache` | one operand object under `apply...WithCache` |
| `ApplyWithCacheProofs` | theorems about `ApplyWithCache` |
| `FinalizerPatch` | `updateFinalizer`'s Get and Patch with other parties' finalizers on the object |
| `KueueConfig` | `spec.config` and which values of it the API server accepts |
| `ConfigMapBuilder` | `BuildConfigMap`: `spec.config` to the operand's configuration |
| `TLSProfile` | `tlsprofile`: a cluster profile to the operand's TLS options |
| `OperandConfig` | composes these three: spec and cluster to ConfigMap, Deployment and Degraded, through failing reads |
| `WebhookRules` | the two webhook configurations: rules, applies, CA injection |
| `StatusConditions` | the conditions against the Deployment's rollout and the cluster's obstacles |
| `NetworkPolicies` | the policies one by one, the garbage collector, and what the network enforces |
| `CertificateWait` | the polls for the Certificates against cert-manager's controllers |
| `RolloutTrigger` | the spec hashes in the pod template under CA injection and a lagging lister |
| `...Proofs` | the theorems about the module of that name, and their proofs |
| `MC...` | the instances TLC checks, one `.cfg` per question |

`KueueLifecycle` is the frame: one whole sync, coarse in its data. Each of the
other modules takes a part of the sync that the frame treats as one step or
one bit, with the actors that part meets, and reduces the rest of the sync to
what surrounds it.

### KueueLifecycle

State: `cr` the live object (uid, generation, which of deletionTimestamp and
finalizer are set), `status` (which of the three condition sets was written, and
for which generation), `cached` and `events` the informer's copy and the watch
events on their way, `obj` the operand by groups of objects that are written and
removed together, `secrets` the issued certificate Secrets, `cluster` whether
cert-manager and a supported TLS profile are there. A running sync is `pc` and
its local variables: `snap` (`kueue`), `alias` (does `kueue` still point at the
informer's object?), `owner` (`ownerReference.UID`), `depGen` (the generation
whose spec gave `dependencyCondition`), `annGen` (the generation annotation).

Actions: one per step of `sync`, cut where it calls the API server or re-reads
the cache, in the code's order; every early return and every error return is
there. Groups stand for the objects listed at T:589-859: network policies,
services, API services, flow schema and priority level are in `base`, the
monitoring and OpenShift roles and bindings in their cluster-wide groups. The
ServiceMonitor, applied just before the Deployment, is folded into `deployment`. A written group
records the owner's uid and the generation of the spec it was built from; that
is what distinguishes right from wrong in the properties. `Get` and `Patch` of
the finalizer are one step: the patch carries no resourceVersion and acts on
whatever object has the name at that moment, so an object that changed between
the two calls gives an outcome of some other interleaving of the one step.
Retries on conflict inside one call are part of the call.

Faults: any call fails without effect and sync returns; a finalizer patch takes
effect and its answer is lost; the three deletions of `cleanUpResources` succeed
in part; the certificate wait times out; the process restarts at any moment. A
call that takes effect and then fails is the step followed by a failure of the
next one. A failed finalizer removal is swallowed by the code (T:453); since
syncs start at any time anyway, its return value makes no difference here.

Environment: create, edit, delete by the user at any moment; the watch delivers
in order, or breaks and lists again (a list is taken to be current); cert-manager
issues Secrets one at a time; the garbage collector deletes groups whose owner
is not the live object; cert-manager's CRDs and the TLS profile come and go.
Secrets stay when their Certificate is deleted (cert-manager's default). Whether
cert-manager is installed is read by the code from the CRD informer; here it is
read directly.

### ApplyWithCache

State: `live` with a `resourceVersion` and content, `lister` and `events`,
`memo` the resource cache's entry, `want` what the operator asks for, and the
running apply (`pc`, `required`, `existing`). `extra` is the part of the content
that belongs to somebody else: the caBundle of a CRD, the annotation by which an
administrator takes over a PriorityLevelConfiguration's shares (the asset itself
sets it to "false", so apart from tolerated shares it is compared and reset).
The hash in the resource cache is modelled as the content it is a hash of.
`Kind` selects a plain object, a CRD or the PriorityLevelConfiguration.
A Deployment is a plain object: an update that changes nothing gives no new
version. Others may write any content, also the same one again (status
writers), delete the object, and create it when it is missing.

### FinalizerPatch

`KueueLifecycle` takes `updateFinalizer` for one step on an object without
other finalizers. Here Get and Patch are two steps, and others add and release
finalizers in between. `CreateTwoWayMergePatch` computes a patch for the list
strategy "merge" (T:1065-1073), and it is sent as `MergePatchType` (T:1080),
which has none: `AddPatchKey` and `RemovePatchKey` say what the key
`finalizers` holds (a list, null, or nothing but directives), `Merge` and
`Stored` what the API server makes of it. It refuses to add a finalizer to an
object under deletion and drops the object when the last one goes. A user may
clear the list of an object under deletion by force; what the running sync still
does may then meet no object, or the next one. Of the operand, `named` keeps
whether the objects exist that `cleanUpResources` deletes by name.

### KueueConfig, ConfigMapBuilder, TLSProfile, OperandConfig

`ValidConfig` is the schema of `types.go`: enums, ranges, list keys and limits,
unions, and the CEL rules with CEL's treatment of fields that are not set.
`BuildConfigMap` is one operator per function of `configmap.go`; its result is
the record of the parts of the document that depend on the input. Weights are
classes (a number, one out of float64's range); cipher and group names are
members of small sets.

`OperandConfig` runs them inside sync: detection of DRA APIs, server version
and FeatureGate and of missing operators (T:313-416), each read of which may
fail on its own; re-read and TLS profile (T:541-587); ConfigMap; Deployment;
status. `enabled` is the pair of in-memory flags. `Scenarios` pairs sets of
specs with the clusters that make a difference to them, plain Kubernetes or
OpenShift; an edit stays within a scenario and takes effect only if
`ValidConfig` accepts it. `lastGood` and `intact` are history variables for
the properties. The Deployment is
written whenever the ConfigMap's hash or the TLS options differ, as one step;
when such a write is skipped is the subject of `ApplyWithCache` and
`StatusConditions`.

### WebhookRules

`webhooksList`, `buildEnabledFrameworks`, `mergeSelectors` and the two
`Modify...` functions of `pod_webhook.go`, then `Apply...ConfigurationImproved`
as a Get and an Update under optimistic concurrency, with `copyCABundle`
between them. cert-manager injects at any moment, other clients edit or delete
the configurations, users edit the frameworks and label namespaces.
`Intercepts` is what the API server does with a webhook. The literal namespace
`openshift-kueue-operator` is excluded by the assets while the Service's
namespace is rewritten to the operator's own; the module assumes, as the
bundle installs it, that the two are the same
(`OperatorNamespace \in SystemNamespaces`). A name that is not in
`webhooksList` panics the operator: the step is then not possible.

### StatusConditions

The Deployment has versions, a template, and the counters its controller last
wrote; `old` and `new` are the pods behind them. A rollout replaces pods within
maxUnavailable 1 and maxSurge 1. `manageDeployment` returns what
`applyDeploymentWithCache` returns: the lister's copy when skipped, or the
answer of Get or Update. The three `build...Conditions` and
`updateKueueStatus` follow, without the transition times. `reported` is a
history variable. Every write of the status is one server-side apply by one
field manager, so it replaces all conditions. Edits, obstacles coming and
going, lost pods, failures and restarts share one budget, `MaxDisturbances`.

### NetworkPolicies

One step per file of T:1690, in the order of the names, with the replacement of
peers on plain Kubernetes, owner, skip test and write. A write replaces the
owner: `MergeOwnerRefs` of library-go matches references by kind, group and
name, and the name is always `cluster`. So a policy has one owner at a time, and
under which uid a sync writes decides about it. That uid is the cached object's
at the start of the sync (T:418); the informer's backlog (`events`), the
finalizer patch with its overwriting of the informer's object (T:1085), the
deletion branch and the re-read (T:541) are therefore steps here too, as in
`KueueLifecycle`, and a sync may write under the uid of a former object while a
new one lives. `owner` keeps the uid of the last sync and `setBack`, a history
variable, whether a sync was ever for an older object than one before it.

Nobody but the operator and the garbage collector writes policies, so a
resourceVersion is represented by the content it has. The collector deletes a
policy only in the version it looked at (external: its delete carries the
resourceVersion as a precondition). `enforced` is what the network plugin has
seen of the policies; it sees each one on its own, in any order, and the operator
reaches the API server only if the enforced policies let it. The model also cuts
established connections, which plugins may or may not do. `Restart` lists
and runs `detectOpenShift`, which may fail.

### CertificateWait

`Get` of the Certificate, the Issuing and Ready conditions, `Get` of the Secret
and its data, sleep, the deadline: each a step of a poll, in units of the two
seconds between polls. cert-manager's trigger, issuing and readiness
controllers are three actions per Certificate, independent of one another; a
Ready condition describes the spec cert-manager last looked at. Other clients
edit and delete Certificates and Secrets. `Spec` assumes nothing of
cert-manager; `Converges` is conditional on `CertManagerWorks`.

### RolloutTrigger

One CRD, one webhook configuration and one APIService, the three kinds with a
CA bundle in the hashed spec, and one hash each. `applyCustomResourceDefinition
WithCache` copies the bundle from the lister and may skip; the webhook's apply
copies it from the live object; the APIService's ignores it when comparing and
drops it when writing. The versions of the CRD between the lister's and the
live one are a sequence, so the resource cache names a version by its place in
it and the state space stays finite however often the CRD is rewritten. The
hash of a spec is the spec. library-go fills defaults into the CRD that is
required before the resource cache hashes it; the code therefore skips the
CRD's apply less often than the model, and applies it without effect instead.

## 3. Runs

| Run | Checks | Bounds |
|---|---|---|
| `lifecycle_edited` | `TypeOK`, `FinalizerGuards`, `GuardInv`, `FinalizerDroppedClean`, `ImplementsContract`, `Converges`, `UndisturbedDeletionCompletes` | 2 objects, each edited once, 3 events in flight, 1 fault |
| `lifecycle_recreate` | `WebhooksHaveCert`, `Converges` | 2 objects, the second may come while the cache shows the first; 4 events, 1 fault, 1 change of the cluster |
| `lifecycle_deletion_stuck` | `DeletionCompletes`, violated | 1 object, 1 fault |
| `apply_objects` | `TypeOK`, `SkipIsSound`, `CacheInv`, `OverwritesOnlyDifferent`, `AdminSharesKept`, `Converges` | the PriorityLevelConfiguration, whose shares 0 to 6 lie around the limits 2 and 5; 2 contents wanted at times, 3 events, 1 fault, 2 changes |
| `finalizer_patch` | `TypeOK`, `GuardedWhileApplying`, `RemovalKeepsOthers`, `UnsharedDeletionCompletes` | 2 objects, 2 other finalizers, 2 additions or forced removals, 1 fault |
| `operand_config` | `TypeOK`, `SourcesGated`, `OutageKeepsSources`, `Converges` | device class mappings with and without DRA, requeuing strategies at the ends of their ranges, one or two values of every other section, TLS profiles, unresolved kinds; 1 edit, 1 cluster change, 2 faults |
| `backoff_refused` | `OmittedBackoffAccepted`, violated | the same specs, 1 edit |
| `webhook_rules` | `TypeOK`, `OptInOnly`, `OperandAdmitted`, `WritesKeepCA`, `Converges` | a few webhooks of each asset, 2 namespaces; 2 edits or labels, 1 change, 1 fault |
| `status_conditions` | `TypeOK`, `NeverRegresses`, `StatusConverges` | 2 replicas, any 2 disturbances |
| `network_policies` | `CutOffOnlyByGarbage`, `Converges` | 2 objects, 2 policies that select the operator, 4 events, 1 fault, OpenShift |
| `certificate_wait` | `WaitBounded`, `WorkerReleased`, `Converges` | 2 Certificates, timeout 3, calls up to 1 unit, 2 changes, 1 fault |
| `rollout_ends` | `TypeOK`, `MemoTrue`, `RolloutsEnd` | lister up to 2 versions behind, 1 rotation, 1 change, 1 fault |

The bounds let the interesting cases happen: two incarnations so that owner
references and finalizers can be confused; enough events in flight for the cache
to be several versions behind, or to go backward; an edit during the certificate
wait; a fault at every step; a change of cert-manager or TLS profile at every
step; one or two more rollouts than the first so that old and new pods mix; policies
with the uid of a former object while a new one lives; a lister that misses both an injection and the
operator's own answer to it. Two Certificates are enough for what differs
between the first, a middle and the last wait; the policies left out of an
instance are like one that is in it (the metrics policy and the deny-all, which
also select the operator for egress, are like the DNS one). The PriorityLevelConfiguration
behaves as any other object outside its tolerated shares; the caBundle of a CRD
is in `rollout_ends`, and the theorems about `ApplyWithCache` are for every
kind. Where the deadlock check is off it is because the system may rest: without a Kueue
object, with all changes used up, nothing need happen.

What the runs show:

* `FinalizerGuards`: webhooks, certificates, cluster roles and bindings, the
  ConfigMap and the named Secrets exist only while the live object has the
  finalizer. `FinalizerDroppedClean`: it goes only from an object under
  deletion and only when all of that is gone. Both hold although the cached
  object may be old, *provided* nobody re-creates the object before the informer
  saw the old one disappear (`StaleRecreate = FALSE`). Without the proviso both
  fail, in long traces in which a cleanup decided on an old copy continues on
  the new object or the backward-moving cache shows a finalizer that is gone.
* `Converges` holds even then: a stale owner reference or generation is put
  right by the next sync, because the write of each status and finalizer brings
  another event. It would be lost with a status that is not refreshed
  or objects that are only created.
* `UndisturbedDeletionCompletes`: without faults a deletion at any moment
  completes. `DeletionCompletes` fails with one (a finding in `PROJECT.json`):
  `cleanUpResources` takes NotFound for an error, so once one of the three
  objects it names is gone while the finalizer is still there, no later cleanup
  succeeds. Outside the run's assumptions a deletion also waits as long as
  cert-manager is missing (the gate at T:302 precedes the deletion branch), and
  for ever if an unsupported TLS profile kept the ConfigMap from ever existing.
* `SkipIsSound`, `CacheInv`, `Converges` (apply): a skipped apply is one that
  would have changed nothing, and drift is repaired. `AdminSharesKept`: shares
  within the tolerated limits that an administrator took over stay.
* Finalizers of others. `GuardedWhileApplying`: the operand is applied only
  behind the operator's finalizer, whatever happens between Get and Patch.
  `RemovalKeepsOthers`: the removal takes no other finalizer along, from the
  object it works for; the patch names neither uid nor resourceVersion, so after
  a forced removal and a re-creation between Get and Patch it would clear the
  new object's list.
  `UnsharedDeletionCompletes`: an object nobody else has a finalizer on is
  released, if no call fails.
* Operand configuration. `SourcesGated`: capacity sources and Kueue's gate for
  them, which are decided in two places, always agree; upstream would not start
  otherwise. `OutageKeepsSources`: a failing FeatureGate read drops nothing
  while memory is `intact`. `OmittedBackoffAccepted` fails (the other finding):
  no strategy that leaves a backoff to its default is accepted. `Converges`: ConfigMap, Deployment and
  Degraded describe live spec and cluster once reads succeed, unless a weight
  does not parse.
* Webhooks. `OptInOnly`, `OperandAdmitted`: only labelled namespaces, and never
  the operand's own, even if somebody labels it. `WritesKeepCA`: no write of
  the operator takes away a bundle cert-manager injected, thanks to the live
  read and the resourceVersion. `Converges`: both configurations end up with
  the enabled frameworks and a current bundle.
* Conditions. `NeverRegresses`: successive reports are about successive
  versions of the Deployment, because the skip test demands the version the
  operator itself made or a later one that still matches. `StatusConverges`:
  they end up describing Deployment and cluster; what they say in the middle of
  a rollout is another matter (below).
* Network policies. The TODO at T:1678-1688 asks whether the operator can cut
  itself off. `CutOffOnlyByGarbage`: where the policies cut it off, all that
  select it are garbage, whatever failed and also if they were written under
  the uid of a former object. What protects it is that `allow-egress-api` sorts
  before everything else that selects the operator for egress, not that the
  deny-all is last; any egress policy before it (the DNS one, mutant
  `filesDNSFirst`) would do the damage. The garbage collector can cut the
  operator off for a while after a re-creation, by removing the old object's
  policies in an unlucky order; `Converges` shows that it also ends it, since
  the other policies go too. Both except the case in which a sync for the new
  object was followed by one for the old (`setBack`): see Divergences. Another
  client that deleted `allow-egress-api` alone would cut the operator off for
  good.
* Certificate wait. `WaitBounded`, `WorkerReleased` need nothing of
  cert-manager. `Converges` does: the Secrets end up issued for the wanted
  Certificates and syncs pass the waits.
* Rollouts. `MemoTrue` and `RolloutsEnd`: operator and injector stop undoing
  each other and the template settles, if infinitely often a sync begins with
  the lister caught up and the injector at rest (section 4). The bundle being
  part of the hash, each injection and each rotation of a CA restarts the
  operand, and so does the first injection after an installation.

Each property of a passing run has a mutant in `PROJECT.json`: a variant of one
definition (marked "Variant" in the modules) with a plausible bug, under which
TLC finds the property violated.

### Divergences

Places where the code and what it says of itself part, met while modelling. The
first two have runs of their own (`lifecycle_deletion_stuck`,
`backoff_refused`); of the others the models contain the code's behaviour, unless it says otherwise, and the
properties above are stated so as to hold with it.

* `cleanUpResources` (T:1105-1144) counts NotFound as a failure: one interrupted
  cleanup and the deletion never completes.
* The CEL rule of the requeuing strategy (`types.go:532`) reads the optional
  backoffs without `has()`: a strategy that omits one is refused, although
  `types.go:554-563` documents defaults and `wait-for-pods-ready.md:78-81` and
  `configmap_test.go:624` have such strategies.
* The owner of a policy is whichever object the last sync was for. If
  `*kueue = *patched` has put the new object into the cache, a sync has written
  the policies for it, and the watch then delivers an older version of the old
  object, the next sync takes `allow-egress-api` from the living object, and
  the collector may delete that policy before the next one is taken over. The
  operator is then cut off for good by what the living object owns. TLC
  finds it within the bounds of `network_policies` if `setBack` is taken out of
  `CutOffOnlyByGarbage`.
* `updateFinalizer` sends a strategic patch as a JSON merge patch (T:1067,
  T:1080). Beside another finalizer, for instance the one a foreground deletion
  brings, the removal has no effect and is logged as done (T:456), after which
  the next cleanup fails on the named objects for ever; and adding replaces the
  list, taking the finalizers of others away.
* "Preserve the caBundle from the existing CRD" (T:2392) copies from the lister's
  version while the live one is overwritten (T:2401): an injection the lister
  has not seen is undone, and injected again.
* `ApplyAPIService` "does not touch CA bundles", but repairing any other field
  (T:1553) replaces the whole spec by the asset's, which has none.
* "unable to read FeatureGate CR, preserving previous state" (T:378): after a
  restart the previous state is none, and capacity sources are dropped until
  the read succeeds.
* `JaxJob` is accepted (`types.go:234`) and has no name in the conversion map
  (`configmap.go:72-90`): the operand's list gets an empty name.
* A weight such as `1e999` matches the pattern and fails `ParseFloat`
  (`configmap.go:351`): every sync ends there and no condition says so.
* "Deployment is up to date" (T:914) is written before a rollout begins, since
  `observedGeneration` and `updatedReplicas` are not read (T:897-910); and three
  ready pods of two desired are "not enough" because the test is equality.
* Transition times are compared with the informer's copy of the conditions
  (T:1015-1024), so one that went away and came back may keep its old time.
  Times are not modelled.
* `detectOpenShift` answers "no" after six failures (T:2517) for the life of the
  process: the DNS policy then admits kube-dns only.
* `WaitForCertificateReady` does not compare the Ready condition's
  `observedGeneration` (`cert.go:79`): one from before the operator's own update
  is believed, and the webhooks follow.

## 4. Fairness

`WF(Reconciler)` / `WF(Apply)`: a sync that can start or go on does so. Every
event on a watched object, every returned error (rate-limited) and the resync
every five minutes enqueue the one key, and each API call is answered or fails.
`WF(WatchDeliver)`: client-go delivers pending events. `WF(IssueCertificate)`,
`WF(GarbageCollect)`: cert-manager and the garbage collector get round to their
work. `WF(Sync)` in the other modules is the same as `WF(Reconciler)`: in
`OperandConfig` and `StatusConditions` a change in the cluster that no informer
reports is met by the resync.

Of the environment: `FinalizerPatch` assumes that who put a finalizer on an
object takes it off once the object is under deletion; `StatusConditions` that
the Deployment controller makes progress and reports; `NetworkPolicies` that
the network comes to enforce each policy, the collector collects and watches
catch up. Its informer has strong fairness: a reflector retries for ever, so its
watch gets through if the operator can connect again and again, even where syncs
under a former uid and the collector cut it off in between;
`WebhookRules` and `RolloutTrigger` that the injector injects. `CertificateWait`
assumes nothing of cert-manager: `WaitBounded` and `WorkerReleased` hold
whatever it does, and `Converges` has the weak fairness of its three controllers
as a premise (`CertManagerWorks`).

`RolloutsEnd` has one more assumption in its statement, `[]<><<QuietSync>>`:
again and again a sync begins when the lister has caught up with the live CRD
and every bundle is injected. Without it TLC finds an endless fight: a lister
that is always one version behind makes each CRD write (T:2410) carry the
bundle of the version before, which makes the next one. The code does not rule
that out, but the watch's latency is milliseconds, and after a failed or a
finished sync the next one waits for an event, a rate-limited retry or the
five-minute resync, so that a sync meets a quiet cluster again and again once
third parties stop.

Nothing is assumed of users, faults, relists or cluster changes; faults
and changes are finite in number, which is what "eventually calls succeed"
amounts to.

## 5. Proofs

Eight modules `...Proofs` prove, for all values of the constants that the
modules' assumptions allow, what the runs check on small instances. The
assumptions say that bounds are natural numbers, that a model value for
"nothing" (`NoObj`, `NoMemo`, `Absent`, ...) is not a member of the set it
stands beside, and these facts of the repository: the policies include
`allow-egress-api`, the asset's webhooks for pods and Deployments
have a namespaceSelector that names the operator's namespace, what discovery
serves is finite, and `spec.config` names only frameworks with a webhook of
their own (`FrameworksAssumption`: the enumeration the CRD validates,
`pkg/apis/kueueoperator/v1/types.go:234`, against `webhooksList`).

Every safety invariant is the consequence of an inductive one; the newer ones
were checked by TLC on the run's instance before they were proved. Each proof
has a lemma or a step per action, the properties of the operators (selectors,
lists of files, validation ranges, copies of bundles) are lemmas of their own,
and the action properties come from the same invariant.

Convergence itself is a liveness property and stays with TLC. Its safety half is
proved where an apply may be skipped, because there a wrong skip would make the
operator rest in a wrong state: `Rested` says that every copy is current and
that no sync and no other writer would change anything, and the theorems say
that such a state is a correct one.

`KueueLifecycleProofs`

* `TypeCorrect`: `Spec => []TypeOK`.
* `GuardCorrect`: `Spec => [](TypeOK /\ GuardInv)`, for `StaleRecreate = FALSE`.
  `FinalizerGuards` alone is not inductive: `sync` skips the live check if its
  snapshot shows the finalizer, and cleans up on the word of its snapshot. The
  strengthening says what stale information is nevertheless true: a version,
  cached or pending, that shows the finalizer and no deletion is right about
  the finalizer; one that shows the deletion is of the live object or of none;
  deletion is monotone along the events; a sync in the cleanup works for a
  deletion the informer knows of, or there is nothing to clean up; behind a
  cleanup step its group is gone; whoever applies does so under the finalizer.
  One lemma per action shows that it preserves the conjunction.
* `FinalizerGuardsCorrect`, `FinalizerDroppedCleanCorrect` follow from it, and
  `ContractImplemented`: `Spec => ImplementsContract`, the refinement of
  `KueueContract` under the mapping `Phase`, `Remains`. The contract knows each
  of the seven things the cleanup is responsible for: the Secrets come only
  while the certificates are there, the ConfigMap only with both Secrets, roles,
  bindings and webhooks only with all three; a Kueue object that is not being
  deleted loses neither ConfigMap nor Secrets, and one that is loses them last.
  `RemainsSteps` says what each step does to them, `LiveSteps` what it does to
  the Kueue object; both need `GuardInv`, and the order of creation `CertInv`.
* `WebhooksHaveCertCorrect`, with no assumption on re-creation. Its inductive
  invariant `CertInv` ties the steps between the certificate wait and the
  webhooks to the Secrets, those past the ConfigMap to the ConfigMap, and the
  order of the cleanup keeps it (webhooks first, Secrets last).
* `WaitBoundedCorrect`, about `CertificateWait` (instantiated as `Wait`): for
  every timeout and length of a call, a wait takes at most the timeout, one
  sleep and two calls. `WaitInv` accounts for the clock by step: a poll begins
  before the deadline, one call later it reads the Secret, two calls later it
  sleeps.

`ApplyWithCacheProofs`, for every kind of object

* `TypeCorrect`, and `CacheCorrect`: among all versions anybody holds a
  resourceVersion identifies one content, and what the resource cache remembers
  is true of the version it names. `SkipIsSoundCorrect` and
  `OverwritesOnlyDifferentCorrect` follow, and from the latter
  `AdminSharesKeptCorrect`, for whatever shares asset and administrator choose.
* `SkipsOnlyCorrect`: an apply that is skipped with no watch event in flight
  leaves a correct object. `WatchEndsAtLive` (the last pending event, or the
  lister if there is none, is the live object) joins it with `CacheInv`.

`FinalizerPatchProofs`, for every set of other finalizers

* `TypeCorrect`, `GuardedWhileApplyingCorrect`, `RemovalKeepsOthersCorrect`.
  Between Get and Patch the object may change in every respect, so what the
  sync read is not an invariant. `PatchInv` says what survives: the informer's
  copy is of the live object or of none, and right about its deletion and,
  before that, its finalizer; a sync that outlived its object has put no
  finalizer on the next one; nobody else adds the operator's finalizer; a
  removal is for an object under deletion, whose list has only shrunk since
  it was read.

`RolloutTriggerProofs`, for any lag and any number of rotations

* `TypeCorrect`, `MemoTrueCorrect`, `SkipHashesRequiredCorrect`. `RolloutInv`
  adds to `TypeOK` and `MemoTrue` that the hashes a sync has collected are those
  of the objects it has passed. `MemoTrue` is inductive with the types because
  the memory names a place in the sequence of versions, and every action that
  moves the lister moves that place along. `SkipHashesRequired`, an action
  property of the proofs' module: a skipped CRD is hashed as what would have
  been written, so that a skip never causes a rollout.
* `NoRolloutWithoutCauseCorrect`: once objects and template agree and the lister
  is current (`Stable`), nothing but a rotated CA or another client's write
  leaves that state or changes the template: syncs, skipped, applied or failed
  halfway, restarts with an empty cache and the injector do not. This is what
  `RolloutsEnd` needs after its last rollout, and with no fairness.

`StatusConditionsProofs`, for any number of disturbances

* `TypeCorrect`, `NeverRegressesCorrect`. `StatusInv` adds that no copy of the
  Deployment is newer than the live one and that the last report is about the
  version the resource cache names, or about an older one, and the Deployment on
  its way into a status is at that version: this is what makes a skipped apply,
  which reports on the lister's copy, harmless.
* `ReportTrueCorrect`: as long as the Deployment stays at the version the
  conditions were derived from, they say what it says. `CopiesInv` adds that
  copies of one version agree and that the resource cache is true of the version
  it names. `RestsOnlyInTruth`: with a current lister, no rollout step left and
  nothing new to report, the conditions are the truth and every pod is of the
  wanted template; `RolledOutComplete` is the part about surge and availability
  limits, between which no rollout gets stuck.

`NetworkPoliciesProofs`, for every choice of policies and either platform

* `CutOffOnlyByGarbageCorrect`. The property is not inductive: a write replaces
  an owner, and the lister and the resource cache decide whether there is one.
  `NetworkInv` says that the resource cache remembers what was required, that
  `allow-egress-api` allows what it is for, and, unless a sync was set back, that
  no policy, live or in the lister, has a later owner than the last sync's uid;
  that a living Kueue object which owns any policy owns `allow-egress-api`, and
  does if the lister says so; and that a sync past the first file works for its
  owner. The first of these is what a replaced owner needs: without a set-back
  the reference that is taken away is never a later object's. `FilesProperties`
  is where the order of the directory enters: without it (`filesDNSFirst`) the
  step of `manageNetworkPolicies` does not go through.
* `RestsOnlyWhenSettled`: where every copy is current, the garbage collector has
  nothing to collect and the resource cache would skip each policy, the policies
  are the platform's, owned by the Kueue object, or all gone with it, and
  the operator reaches the API server; also after a set-back.

`OperandConfigProofs`, for all specs, clusters and TLS profiles

* `TypeCorrect`, `SourcesGatedCorrect`, `OutageKeepsSourcesCorrect`. The second
  rests on lemmas about `buildResources` and `buildFeatureGates`, which take the
  same flag; `OperandInv` carries the types of the sync's locals. For the outage it also carries that, while memory is
  intact, the capacity flag is on if the last complete detection found it on,
  and that what the flag depends on apart from the failing read is still there.
* `OmittedBackoffRefused`: of all strategies within the ranges of their fields,
  `BackoffRule` accepts only such as set both backoffs, in order.

`WebhookRulesProofs`, for all assets, frameworks and namespaces

* `TypeCorrect`, `OptInOnlyCorrect`, `OperandAdmittedCorrect`,
  `WritesKeepCACorrect`. `WebhookInv` says that, whoever wrote last, the
  selector of a live webhook is the one its name is given
  (`MergedProperties`: the operator's expression first, the asset's kept), names
  are unique, and an update starts from a configuration that was there. What
  was read needs no invariant of its own: an accepted update is one whose
  version is still the live one, and `CopyBuilt` hands bundles on by name.
* `RestsOnlyWhenCorrect`: where the resource cache lets the next sync skip both
  applies and every bundle is the current one, exactly the kinds asked for are
  intercepted, in the namespaces they should be. `MemoTrue` says that the
  configuration the cache names has the webhooks it remembers;
  `InterceptsExactly` is about the operators alone, that the rules
  `ModifyPodBasedWebhook` builds intercept what the frameworks ask for and no
  more.

Only model-checked: the liveness properties (`Converges`, `RolloutsEnd`,
`WorkerReleased`, `StatusConverges` and the completion of deletions), which
depend on fairness and are outside what TLAPS proves here, and the two
violations.

## 6. Not modelled

What a next step could add: the contract under a stale re-creation, with the
objects it may leave behind made part of it; and the parts listed as partly
modelled below.

Hazards listed without a property, each with its reason in `PROJECT.json`: the
cert-manager gate in front of the deletion branch (T:302), the visibility
Secret that no cleanup names (T:1128), the Deployment generation that is never
persisted (T:2053), the deletion of `allow-egress-api` by another client
(T:2359), the platform that is detected once (T:2517), the test for equality of
ready replicas (T:897), transition times from an older copy (T:1019), and in
`pkg/configmap/configmap.go` weights outside float64 (351) and a framework that
the conversion does not know (93).

Partly modelled: ServiceMonitor and monitoring RBAC are written with the group
they follow; the `serviceMonitorSupport` switch, constant for a process, is
left out. A start is `Restart` (new informers, empty memory, platform
detection); flags, clients and leader election are library code. Of the API
types, what decides acceptance of `spec.config` is modelled; the text patterns
of names, the status and the list types are not.

Not modelled: `operatorclient`, an adapter to library-go that sync does not
write through; generated clients, informers, listers, apply configurations and
deep copies, which have no control of their own (the API server and the
informers are the environment of every module); assets, must-gather and bundle,
of which only the values that the code's control depends on appear as
constants; logging, events and message texts.
