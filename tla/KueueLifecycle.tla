--------------------------- MODULE KueueLifecycle ---------------------------
(***************************************************************************)
(* The life of the Kueue custom resource ("cluster") and of the operand it *)
(* stands for, as TargetConfigReconciler.sync drives it: the informer      *)
(* cache the reconciler reads, the finalizer it adds and removes, the      *)
(* groups of objects it applies, the cleanup it runs on deletion, and the  *)
(* actors around it (the user, the API server's garbage collector,         *)
(* cert-manager, the watch).                                               *)
(*                                                                         *)
(* A sync is one process (one worker, one queue key, leader elected) cut   *)
(* into steps where it calls the API server or re-reads the cache; the     *)
(* other actors interleave between the steps.  The work queue is folded:   *)
(* a sync may start whenever none runs, because every informer event, every*)
(* rate-limited retry and the 5-minute resync enqueue the one key.         *)
(***************************************************************************)
EXTENDS Naturals, Sequences

CONSTANTS
    NoCR,           \* there is no Kueue object
    Absent,         \* no object of a group exists
    MaxUid,         \* how many times the user creates the Kueue object
    MaxGen,         \* user edits stop at this metadata.generation
    MaxLag,         \* watch events in flight
    MaxFaults,      \* failed calls, lost answers, timeouts and restarts
    MaxChanges,     \* changes of cert-manager's presence or of the TLS profile
    StaleRecreate   \* may the user re-create before the cache saw the deletion?

ASSUME BoundsAssumption ==
    /\ MaxUid \in Nat \ {0}
    /\ MaxGen \in Nat \ {0}
    /\ MaxLag \in Nat \ {0}
    /\ MaxFaults \in Nat
    /\ MaxChanges \in Nat
    /\ StaleRecreate \in BOOLEAN

Uids == 1..MaxUid

\* A deletion bumps the generation once more.
Gens == 1..(MaxGen + 1)

\* One version of the Kueue object, as far as sync's control depends on it;
\* meta says which of the two metadata fields is set.
Kueue == [uid: Uids, gen: Gens, meta: SUBSET {"deletionTimestamp", "finalizer"}]

Del(kueue) == "deletionTimestamp" \in kueue.meta
Fin(kueue) == "finalizer" \in kueue.meta
WithFinalizer(kueue) == [kueue EXCEPT !.meta = @ \union {"finalizer"}]
WithoutFinalizer(kueue) == [kueue EXCEPT !.meta = @ \ {"finalizer"}]
Deleted(kueue) ==
    [uid |-> kueue.uid, gen |-> kueue.gen + 1, meta |-> kueue.meta \union {"deletionTimestamp"}]

ASSUME NoCRAssumption == NoCR \notin Kueue

\* Groups of operand objects that are written and removed together.
Groups == {"certs", "configMap", "base", "crds", "clusterRoles",
           "clusterRoleBindings", "webhooks", "deployment"}

\* The groups whose objects carry an owner reference to the Kueue object.
Owned == Groups \ {"configMap", "crds"}

\* The groups only the cleanup on deletion is meant to remove.
Cleaned == {"certs", "configMap", "clusterRoles", "clusterRoleBindings", "webhooks"}

\* The groups whose content depends on spec.
SpecDriven == {"configMap", "webhooks", "deployment"}

\* What a written group records: the owner's uid, the generation whose spec
\* its content was built from, and (Deployment) the generation annotation.
Written == [owner: 0..MaxUid, gen: 0..(MaxGen + 1), ann: 0..(MaxGen + 1)]

ASSUME AbsentAssumption == Absent \notin Written

\* The Secrets cert-manager issues, one per Certificate.
CertSecrets == {"webhook", "metrics", "visibility"}

\* The Secrets cleanUpResources deletes by name.
NamedSecrets == {"webhook", "metrics"}

\* What may hold of the cluster: cert-manager's CRDs are installed; the
\* APIServer's TLS profile is one the operand supports.
ClusterFacts == {"certManager", "supportedTLS"}

StatusKinds == {"None", "CertManagerMissing", "UnsupportedTLS", "Synced"}

CleanupSteps == {"cleanUpWebhooks", "cleanUpCertificatesAndIssuers", "cleanUpClusterRoles",
                 "cleanUpClusterRoleBindings", "cleanUpResources", "removeFinalizer"}

\* The steps of a sync after the certificates are known to be ready.
PostWaitSteps == {"reRead", "tlsProfile", "configMap", "base", "crds", "clusterRoles",
                  "clusterRoleBindings", "webhooks", "deployment", "status"}

ApplySteps == {"certs", "wait"} \union PostWaitSteps

Steps == {"idle", "addFinalizer"} \union CleanupSteps \union ApplySteps

VARIABLES
    cr,          \* the live Kueue object
    uids,        \* how many Kueue objects were ever created
    status,      \* the live object's status: which branch wrote it, for which spec
    cached,      \* the informer's copy, what sync reads
    events,      \* watch events the informer has not seen, oldest first
    pc,          \* the step the running sync is at
    snap,        \* sync's kueue variable
    alias,       \* does kueue point at the informer's own object or at a copy?
    owner,       \* ownerReference.UID
    depGen,      \* the generation the dependency condition was computed from
    annGen,      \* the generation annotation in specAnnotations
    obj,         \* the operand's objects, by group
    secrets,     \* the issued Secrets
    cluster,     \* which of ClusterFacts hold
    faults,      \* faults so far
    changes      \* changes of cluster so far

\* Are cert-manager's CRDs installed?
certManager == "certManager" \in cluster

\* Is the cluster's TLS profile one the operand supports?
tls == "supportedTLS" \in cluster

crVars == <<cr, uids, status>>
watchVars == <<cached, events>>
locals == <<snap, alias, owner, depGen, annGen>>
operandVars == <<obj, secrets>>
clusterVars == <<cluster, changes>>
vars == <<cr, uids, status, cached, events, pc, snap, alias, owner, depGen, annGen,
          obj, secrets, cluster, faults, changes>>

TypeOK ==
    /\ cr \in Kueue \union {NoCR}
    /\ cr # NoCR /\ ~Del(cr) => cr.gen <= MaxGen
    /\ uids \in 0..MaxUid
    /\ status \in [kind: StatusKinds, gen: 0..(MaxGen + 1)]
    /\ cached \in Kueue \union {NoCR}
    /\ events \in Seq(Kueue \union {NoCR})
    /\ pc \in Steps
    /\ snap \in Kueue \union {NoCR}
    /\ pc # "idle" => snap # NoCR
    /\ alias \in {"cache", "copy"}
    /\ owner \in 0..MaxUid
    /\ depGen \in 0..(MaxGen + 1)
    /\ annGen \in 0..(MaxGen + 1)
    /\ obj \in [Groups -> Written \union {Absent}]
    /\ secrets \in SUBSET CertSecrets
    /\ cluster \in SUBSET ClusterFacts
    /\ faults \in 0..MaxFaults
    /\ changes \in 0..MaxChanges

NoStatus == [kind |-> "None", gen |-> 0]

Init ==
    /\ cr = NoCR
    /\ uids = 0
    /\ status = NoStatus
    /\ cached = NoCR
    /\ events = <<>>
    /\ pc = "idle"
    /\ snap = NoCR
    /\ alias = "copy"
    /\ owner = 0
    /\ depGen = 0
    /\ annGen = 0
    /\ obj = [g \in Groups |-> Absent]
    /\ secrets = {}
    /\ cluster \in SUBSET ClusterFacts
    /\ faults = 0
    /\ changes = 0

-----------------------------------------------------------------------------
(* Helpers                                                                  *)

\* Every write to the Kueue object reaches the informer as a watch event.
Push(version) ==
    /\ Len(events) < MaxLag
    /\ events' = Append(events, version)

\* sync returns: its local variables are gone.
Return ==
    /\ pc' = "idle"
    /\ snap' = NoCR
    /\ alias' = "copy"
    /\ owner' = 0
    /\ depGen' = 0
    /\ annGen' = 0

Fault ==
    /\ faults < MaxFaults
    /\ faults' = faults + 1

\* updateKueueStatus: a server-side apply to the object of that name, whichever
\* it is now.  An apply that changes nothing makes no new version, and one
\* that finds no object is an error; every caller returns either way.
updateKueueStatus(s) ==
    IF cr = NoCR \/ status = s
      THEN UNCHANGED <<status, events>>
      ELSE status' = s /\ Push(cr)

\* The objects of group g as sync would write them now.
Required(g) ==
    [owner |-> IF g \notin Owned THEN 0 ELSE IF g = "certs" THEN snap.uid ELSE owner,
     gen |-> IF g \in SpecDriven THEN snap.gen ELSE 0,
     ann |-> IF g = "deployment" THEN annGen ELSE 0]

CertificatesReady == obj["certs"] # Absent /\ secrets = CertSecrets

-----------------------------------------------------------------------------
(* The reconciler                                                           *)

BeginSync ==
    /\ pc = "idle"
    /\ cached # NoCR
    /\ certManager
    /\ pc' = "addFinalizer"
    /\ snap' = cached
    /\ alias' = "cache"
    /\ owner' = cached.uid
    /\ depGen' = cached.gen
    /\ annGen' = 0
    /\ UNCHANGED <<crVars, watchVars, operandVars, clusterVars, faults>>

\* Without cert-manager's CRDs sync only reports and returns nil.
CertManagerMissing ==
    /\ pc = "idle"
    /\ cached # NoCR
    /\ ~certManager
    /\ updateKueueStatus([kind |-> "CertManagerMissing", gen |-> 0])
    /\ UNCHANGED <<cr, uids, cached, pc, locals, operandVars, clusterVars, faults>>

\* What follows addFinalizerToKueueInstance: the generation annotation is taken
\* from kueue as the patch left it, then sync cleans up or applies.
AfterAddFinalizer(kueue) ==
    /\ annGen' = kueue.gen
    /\ pc' = IF Del(kueue) THEN "cleanUpWebhooks" ELSE "certs"
    /\ UNCHANGED <<owner, depGen>>

\* Variant: trusts that the finalizer is there and never patches.
FinalizerAssumed ==
    /\ pc = "addFinalizer"
    /\ AfterAddFinalizer(snap)
    /\ UNCHANGED <<crVars, watchVars, snap, alias, operandVars, clusterVars, faults>>

\* The finalizer is there, in the snapshot or in the live object: no patch, and
\* kueue keeps the snapshot's content.
FinalizerPresent ==
    /\ pc = "addFinalizer"
    /\ Fin(snap) \/ (cr # NoCR /\ Fin(cr))
    /\ AfterAddFinalizer(snap)
    /\ UNCHANGED <<crVars, watchVars, snap, alias, operandVars, clusterVars, faults>>

\* *kueue = *patched overwrites the informer's object while kueue still
\* points at it.
AddFinalizer ==
    /\ pc = "addFinalizer"
    /\ ~Fin(snap)
    /\ cr # NoCR /\ ~Fin(cr)
    /\ LET patched == WithFinalizer(cr)
       IN  /\ cr' = patched
           /\ Push(patched)
           /\ snap' = patched
           /\ cached' = IF alias = "cache" THEN patched ELSE cached
           /\ AfterAddFinalizer(patched)
    /\ UNCHANGED <<uids, status, alias, operandVars, clusterVars, faults>>

\* The live Get finds no object: sync returns the error.
AddFinalizerNotFound ==
    /\ pc = "addFinalizer"
    /\ ~Fin(snap)
    /\ cr = NoCR
    /\ Return
    /\ UNCHANGED <<crVars, watchVars, operandVars, clusterVars, faults>>

\* One of the four cleanup functions that list and delete.  Listing
\* certificates and issuers needs cert-manager's CRDs.
CleanUp(step, g, next) ==
    /\ pc = step
    /\ g = "certs" => certManager
    /\ obj' = [obj EXCEPT ![g] = Absent]
    /\ pc' = next
    /\ UNCHANGED <<crVars, watchVars, locals, secrets, clusterVars, faults>>

cleanUpWebhooks ==
    CleanUp("cleanUpWebhooks", "webhooks", "cleanUpCertificatesAndIssuers")

cleanUpCertificatesAndIssuers ==
    CleanUp("cleanUpCertificatesAndIssuers", "certs", "cleanUpClusterRoles")

cleanUpClusterRoles ==
    CleanUp("cleanUpClusterRoles", "clusterRoles", "cleanUpClusterRoleBindings")

\* Variant: the name filter matches nothing.
cleanUpNoClusterRoleBindings ==
    /\ pc = "cleanUpClusterRoleBindings"
    /\ pc' = "cleanUpResources"
    /\ UNCHANGED <<crVars, watchVars, locals, operandVars, clusterVars, faults>>

cleanUpClusterRoleBindings ==
    CleanUp("cleanUpClusterRoleBindings", "clusterRoleBindings", "cleanUpResources")

\* cleanUpResources deletes the ConfigMap and two Secrets by name.  It tries
\* all three; an object that is not there is an error like any other, and
\* then sync returns before it removes the finalizer.
cleanUpResources ==
    /\ pc = "cleanUpResources"
    /\ obj' = [obj EXCEPT !["configMap"] = Absent]
    /\ secrets' = secrets \ NamedSecrets
    /\ IF obj["configMap"] # Absent /\ NamedSecrets \subseteq secrets
         THEN pc' = "removeFinalizer" /\ UNCHANGED locals
         ELSE Return
    /\ UNCHANGED <<crVars, watchVars, clusterVars, faults>>

\* The patch removes the finalizer from the object of that name; the API
\* server then drops an object that is being deleted.
RemoveFinalizer ==
    /\ pc = "removeFinalizer"
    /\ Fin(snap)
    /\ cr # NoCR /\ Fin(cr)
    /\ LET patched == WithoutFinalizer(cr)
       IN  /\ cr' = IF Del(cr) THEN NoCR ELSE patched
           /\ Push(cr')
           /\ cached' = IF alias = "cache" THEN patched ELSE cached
    /\ Return
    /\ UNCHANGED <<uids, status, operandVars, clusterVars, faults>>

\* kueue or the live object says the finalizer is gone already, or there is no
\* object: nothing is patched, and sync returns nil.
RemoveFinalizerSkipped ==
    /\ pc = "removeFinalizer"
    /\ ~(Fin(snap) /\ cr # NoCR /\ Fin(cr))
    /\ Return
    /\ UNCHANGED <<crVars, watchVars, operandVars, clusterVars, faults>>

\* One group of manage... calls.  Applying issuer and certificates needs
\* cert-manager's CRDs.
Manage(g, next) ==
    /\ pc = g
    /\ g = "certs" => certManager
    /\ obj' = [obj EXCEPT ![g] = Required(g)]
    /\ pc' = next
    /\ UNCHANGED <<crVars, watchVars, locals, secrets, clusterVars, faults>>

manageCertificates == Manage("certs", "wait")

\* Variant: does not wait.
NoWait ==
    /\ pc = "wait"
    /\ pc' = "reRead"
    /\ UNCHANGED <<crVars, watchVars, locals, operandVars, clusterVars, faults>>

WaitForCertificateReady ==
    /\ pc = "wait"
    /\ CertificatesReady
    /\ pc' = "reRead"
    /\ UNCHANGED <<crVars, watchVars, locals, operandVars, clusterVars, faults>>

\* Two minutes went by.  This always happens when the certificates are gone,
\* and counts as a fault when cert-manager was merely slow.
WaitTimeout ==
    /\ pc = "wait"
    /\ ~CertificatesReady
    /\ IF obj["certs"] # Absent /\ certManager THEN Fault ELSE UNCHANGED faults
    /\ Return
    /\ UNCHANGED <<crVars, watchVars, operandVars, clusterVars>>

\* Variant: does not check that the object still exists.
ReReadUnchecked ==
    /\ pc = "reRead"
    /\ snap' = cached
    /\ alias' = "cache"
    /\ pc' = "tlsProfile"
    /\ UNCHANGED <<owner, depGen, annGen>>
    /\ UNCHANGED <<crVars, watchVars, operandVars, clusterVars, faults>>

\* Variant: gives up when it sees the deletion.
ReReadStopsOnDeletion ==
    /\ pc = "reRead"
    /\ IF cached = NoCR \/ Del(cached)
         THEN Return
         ELSE /\ snap' = cached
              /\ alias' = "cache"
              /\ pc' = "tlsProfile"
              /\ UNCHANGED <<owner, depGen, annGen>>
    /\ UNCHANGED <<crVars, watchVars, operandVars, clusterVars, faults>>

\* kueue is read again; owner, depGen and annGen are not recomputed, and a
\* deletion that arrived meanwhile is not looked at.
ReRead ==
    /\ pc = "reRead"
    /\ IF cached = NoCR
         THEN Return
         ELSE /\ snap' = cached
              /\ alias' = "cache"
              /\ pc' = "tlsProfile"
              /\ UNCHANGED <<owner, depGen, annGen>>
    /\ UNCHANGED <<crVars, watchVars, operandVars, clusterVars, faults>>

TLSProfileSupported ==
    /\ pc = "tlsProfile"
    /\ tls
    /\ pc' = "configMap"
    /\ UNCHANGED <<crVars, watchVars, locals, operandVars, clusterVars, faults>>

TLSProfileUnsupported ==
    /\ pc = "tlsProfile"
    /\ ~tls
    /\ updateKueueStatus([kind |-> "UnsupportedTLS", gen |-> 0])
    /\ Return
    /\ UNCHANGED <<cr, uids, cached, operandVars, clusterVars, faults>>

\* Listing or applying certificates after cert-manager's CRDs went away.
CertManagerCallFails ==
    /\ pc \in {"cleanUpCertificatesAndIssuers", "certs"}
    /\ ~certManager
    /\ Return
    /\ UNCHANGED <<crVars, watchVars, operandVars, clusterVars, faults>>

manageConfigMap == Manage("configMap", "base")
manageBase == Manage("base", "crds")
manageCustomResources == Manage("crds", "clusterRoles")
manageClusterRoles == Manage("clusterRoles", "clusterRoleBindings")
manageClusterRoleBindings == Manage("clusterRoleBindings", "webhooks")
manageWebhooks == Manage("webhooks", "deployment")
manageDeployment == Manage("deployment", "status")

\* Variant: writes the status of an object only once.
ReportStatusOnce ==
    /\ pc = "status"
    /\ IF status.kind = "None"
         THEN updateKueueStatus([kind |-> "Synced", gen |-> depGen])
         ELSE UNCHANGED <<status, events>>
    /\ Return
    /\ UNCHANGED <<cr, uids, cached, operandVars, clusterVars, faults>>

ReportStatus ==
    /\ pc = "status"
    /\ updateKueueStatus([kind |-> "Synced", gen |-> depGen])
    /\ Return
    /\ UNCHANGED <<cr, uids, cached, operandVars, clusterVars, faults>>

Reconciler ==
    \/ BeginSync
    \/ CertManagerMissing
    \/ FinalizerPresent
    \/ AddFinalizer
    \/ AddFinalizerNotFound
    \/ cleanUpWebhooks
    \/ cleanUpCertificatesAndIssuers
    \/ cleanUpClusterRoles
    \/ cleanUpClusterRoleBindings
    \/ cleanUpResources
    \/ RemoveFinalizer
    \/ RemoveFinalizerSkipped
    \/ manageCertificates
    \/ WaitForCertificateReady
    \/ WaitTimeout
    \/ CertManagerCallFails
    \/ ReRead
    \/ TLSProfileSupported
    \/ TLSProfileUnsupported
    \/ manageConfigMap
    \/ manageBase
    \/ manageCustomResources
    \/ manageClusterRoles
    \/ manageClusterRoleBindings
    \/ manageWebhooks
    \/ manageDeployment
    \/ ReportStatus

-----------------------------------------------------------------------------
(* Faults of the reconciler's calls and of its process                      *)

\* A call fails without effect and sync returns.  (A call whose effect took
\* place before it failed is that step followed by a failure of the next.)
CallFails ==
    /\ pc \notin {"idle", "wait", "reRead"}
    /\ Fault
    /\ Return
    /\ UNCHANGED <<crVars, watchVars, operandVars, clusterVars>>

\* A finalizer patch takes effect and its answer is lost: kueue, and with it
\* the informer's object, is not overwritten.
PatchAnswerLost ==
    /\ cr # NoCR
    /\ \/ /\ pc = "addFinalizer"
          /\ ~Fin(snap) /\ ~Fin(cr)
          /\ cr' = WithFinalizer(cr)
       \/ /\ pc = "removeFinalizer"
          /\ Fin(snap) /\ Fin(cr)
          /\ cr' = IF Del(cr) THEN NoCR ELSE WithoutFinalizer(cr)
    /\ Push(cr')
    /\ Fault
    /\ Return
    /\ UNCHANGED <<uids, status, cached, operandVars, clusterVars>>

\* Only some of cleanUpResources' three deletions succeed, or the process
\* stops between them.
CleanUpResourcesFails ==
    /\ pc = "cleanUpResources"
    /\ \E deleted \in SUBSET NamedSecrets : secrets' = secrets \ deleted
    /\ \/ obj' = [obj EXCEPT !["configMap"] = Absent]
       \/ UNCHANGED obj
    /\ Fault
    /\ Return
    /\ UNCHANGED <<crVars, watchVars, clusterVars>>

\* The process restarts, or another replica becomes leader: the informer
\* lists the live object before sync may run again.
Restart ==
    /\ Fault
    /\ Return
    /\ cached' = cr
    /\ events' = <<>>
    /\ UNCHANGED <<crVars, operandVars, clusterVars>>

Faults == CallFails \/ PatchAnswerLost \/ CleanUpResourcesFails \/ Restart

-----------------------------------------------------------------------------
(* The reconciler's environment                                             *)

UserCreate ==
    /\ cr = NoCR
    /\ uids < MaxUid
    /\ StaleRecreate \/ (cached = NoCR /\ events = <<>>)
    /\ uids' = uids + 1
    /\ cr' = [uid |-> uids + 1, gen |-> 1, meta |-> {}]
    /\ status' = NoStatus
    /\ Push(cr')
    /\ UNCHANGED <<cached, pc, locals, operandVars, clusterVars, faults>>

UserEdit ==
    /\ cr # NoCR
    /\ cr.gen < MaxGen
    /\ cr' = [cr EXCEPT !.gen = cr.gen + 1]
    /\ Push(cr')
    /\ UNCHANGED <<uids, status, cached, pc, locals, operandVars, clusterVars, faults>>

\* An object with a finalizer is only marked.
UserDelete ==
    /\ cr # NoCR
    /\ ~Del(cr)
    /\ cr' = IF Fin(cr) THEN Deleted(cr) ELSE NoCR
    /\ Push(cr')
    /\ UNCHANGED <<uids, status, cached, pc, locals, operandVars, clusterVars, faults>>

\* The informer stores the next event's object; kueue, if a sync runs, now
\* points at an object of its own.
WatchDeliver ==
    /\ events # <<>>
    /\ cached' = Head(events)
    /\ events' = Tail(events)
    /\ alias' = "copy"
    /\ UNCHANGED <<crVars, pc, snap, owner, depGen, annGen, operandVars, clusterVars, faults>>

\* The watch broke: the informer lists again and never sees what it missed.
Relist ==
    /\ Len(events) > 1
    /\ cached' = cr
    /\ events' = <<>>
    /\ alias' = "copy"
    /\ UNCHANGED <<crVars, pc, snap, owner, depGen, annGen, operandVars, clusterVars, faults>>

\* cert-manager issues the Secret of one Certificate.
IssueCertificate ==
    /\ certManager
    /\ obj["certs"] # Absent
    /\ \E s \in CertSecrets \ secrets : secrets' = secrets \union {s}
    /\ UNCHANGED <<crVars, watchVars, pc, locals, obj, clusterVars, faults>>

\* The garbage collector deletes objects whose owner's uid is not the live one.
GarbageCollect ==
    /\ \E g \in Owned :
          /\ obj[g] # Absent
          /\ cr # NoCR => obj[g].owner # cr.uid
          /\ obj' = [obj EXCEPT ![g] = Absent]
    /\ UNCHANGED <<crVars, watchVars, pc, locals, secrets, clusterVars, faults>>

Toggled(fact) == IF fact \in cluster THEN cluster \ {fact} ELSE cluster \union {fact}

\* Uninstalling cert-manager's CRDs takes the issuer and certificates along.
ChangeCertManager ==
    /\ changes < MaxChanges
    /\ changes' = changes + 1
    /\ cluster' = Toggled("certManager")
    /\ obj' = [obj EXCEPT !["certs"] = IF certManager THEN Absent ELSE @]
    /\ UNCHANGED <<crVars, watchVars, pc, locals, secrets, faults>>

ChangeTLSProfile ==
    /\ changes < MaxChanges
    /\ changes' = changes + 1
    /\ cluster' = Toggled("supportedTLS")
    /\ UNCHANGED <<crVars, watchVars, pc, locals, operandVars, faults>>

User == UserCreate \/ UserEdit \/ UserDelete

Environment ==
    User \/ WatchDeliver \/ Relist \/ IssueCertificate \/ GarbageCollect
    \/ ChangeCertManager \/ ChangeTLSProfile

Next == Reconciler \/ Faults \/ Environment

Spec == Init /\ [][Next]_vars

\* The reconciler runs again and again and each call it makes is answered; the
\* watch, cert-manager and the garbage collector get round to their work.
\* Nothing is assumed of the user, of faults and of the cluster's changes.
Fairness ==
    /\ WF_vars(Reconciler)
    /\ WF_vars(WatchDeliver)
    /\ WF_vars(IssueCertificate)
    /\ WF_vars(GarbageCollect)

FairSpec == Spec /\ Fairness

-----------------------------------------------------------------------------
(* Properties                                                               *)

\* Something exists that nothing but the cleanup on deletion removes.
Dirty ==
    \/ \E g \in Cleaned : obj[g] # Absent
    \/ secrets \intersect NamedSecrets # {}

\* Whatever the cleanup is responsible for exists only while the live Kueue
\* object carries the finalizer, so the object cannot vanish and leave it
\* behind (sync adds the finalizer before it applies, updateFinalizer).
FinalizerGuards == Dirty => cr # NoCR /\ Fin(cr)

\* The finalizer leaves the live object only when that object is being deleted
\* and the cleanup has removed everything (sync's deletion branch).
FinalizerDroppedClean ==
    [][(cr # NoCR /\ Fin(cr)) /\ (cr' = NoCR \/ ~Fin(cr')) => Del(cr) /\ ~Dirty]_vars

\* Webhook configurations exist only together with the serving certificate's
\* Secret: sync waits for it before it creates them and cleans them up first.
WebhooksHaveCert == obj["webhooks"] # Absent => "webhook" \in secrets

HealthyCluster == certManager /\ tls

\* The operand is what the live object asks for.
Deployed ==
    /\ cr # NoCR /\ Fin(cr)
    /\ \A g \in Groups :
         obj[g] = [owner |-> IF g \in Owned THEN cr.uid ELSE 0,
                   gen |-> IF g \in SpecDriven THEN cr.gen ELSE 0,
                   ann |-> IF g = "deployment" THEN cr.gen ELSE 0]
    /\ status = [kind |-> "Synced", gen |-> cr.gen]

\* If the Kueue object stays and the cluster stays healthy, sync ends up with
\* an operand that matches the object's identity and latest spec, whatever
\* stale reads, faults and restarts came before.
Converges ==
    <>[](cr # NoCR /\ ~Del(cr) /\ HealthyCluster) => <>[]Deployed

Deleting == cr # NoCR /\ Del(cr)

\* With cert-manager and a supported TLS profile in place all along, a deleted
\* Kueue object eventually goes away (sync's deletion branch).
DeletionCompletes == []HealthyCluster => (Deleting ~> ~Deleting)

\* The first Kueue object goes away, however its deletion meets the syncs, the
\* informer and edits, if no call fails and no wait for a certificate runs out.
UndisturbedDeletionCompletes == [](faults = 0 /\ uids <= 1) => DeletionCompletes

\* The phase of the live object, as KueueContract sees it.
Phase ==
    CASE cr = NoCR -> "none"
      [] cr # NoCR /\ ~Fin(cr) -> "unguarded"
      [] cr # NoCR /\ Fin(cr) /\ ~Del(cr) -> "guarded"
      [] cr # NoCR /\ Fin(cr) /\ Del(cr) -> "terminating"

\* What exists of the things the cleanup is responsible for.
Remains == {g \in Cleaned : obj[g] # Absent} \union (secrets \intersect NamedSecrets)

Contract == INSTANCE KueueContract WITH phase <- Phase, remains <- Remains

\* The reconciler, with its stale cache, its faults and its environment,
\* implements the contract: the order in which sync's manage calls bring the
\* operand into being and its cleanUp functions take it apart, and updateFinalizer.
ImplementsContract == Contract!Spec

-----------------------------------------------------------------------------
(* Why FinalizerGuards holds when nobody re-creates the object under the    *)
(* informer's nose: the inductive strengthening.                            *)

\* The versions the informer holds or will hold.
InFlight(v) == v # NoCR /\ (v = cached \/ \E i \in 1..Len(events) : v = events[i])

\* The API server keeps an object under deletion only for its finalizer.
DeletingHasFinalizer == Deleting => Fin(cr)

\* A version that shows the finalizer and no deletion is not outdated in this:
\* skipping the live check on its word is right.
SeenFinalizerIsLive ==
    \A v \in Kueue : (InFlight(v) \/ (pc = "addFinalizer" /\ v = snap)) /\ Fin(v) /\ ~Del(v)
                       => cr # NoCR /\ Fin(cr)

\* A version that shows the deletion is of the live object, or of none.
SeenDeletionIsLive == \A v \in Kueue : InFlight(v) /\ Del(v) => cr = NoCR \/ Del(cr)

\* No version without the deletion follows one that has it.
DeletionIsMonotone ==
    /\ \A i, j \in 1..Len(events) :
         i < j /\ events[i] # NoCR /\ events[j] # NoCR /\ Del(events[i]) => Del(events[j])
    /\ cached # NoCR /\ Del(cached) =>
         \A i \in 1..Len(events) : events[i] # NoCR => Del(events[i])

\* The live object is being deleted and the informer knows of nothing else.
DeletionKnown == Deleting /\ \A v \in Kueue : InFlight(v) => Del(v)

\* A sync on the way to or in the cleanup works for such a deletion, or else
\* there is nothing to clean up.
CleanupIsDue ==
    (pc = "addFinalizer" /\ Del(snap)) \/ pc \in CleanupSteps => DeletionKnown \/ ~Dirty

\* Past a cleanup step its group is gone, and the finalizer goes last.
CleanupProgress ==
    /\ pc \in CleanupSteps \ {"cleanUpWebhooks"} => obj["webhooks"] = Absent
    /\ pc \in CleanupSteps \ {"cleanUpWebhooks", "cleanUpCertificatesAndIssuers"}
         => obj["certs"] = Absent
    /\ pc \in {"cleanUpClusterRoleBindings", "cleanUpResources", "removeFinalizer"}
         => obj["clusterRoles"] = Absent
    /\ pc \in {"cleanUpResources", "removeFinalizer"} => obj["clusterRoleBindings"] = Absent
    /\ pc = "removeFinalizer" => DeletionKnown /\ ~Dirty

\* Whoever applies does so for an object that carries the finalizer.
ApplyIsGuarded == pc \in ApplySteps => cr # NoCR /\ Fin(cr)

\* The inductive invariant of the theorems: FinalizerGuards together with what
\* the informer, its pending events and sync's snapshot may claim.
GuardInv ==
    /\ FinalizerGuards
    /\ DeletingHasFinalizer
    /\ SeenFinalizerIsLive
    /\ SeenDeletionIsLive
    /\ DeletionIsMonotone
    /\ CleanupIsDue
    /\ CleanupProgress
    /\ ApplyIsGuarded
=============================================================================
