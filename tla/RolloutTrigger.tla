--------------------------- MODULE RolloutTrigger ---------------------------
(***************************************************************************)
(* The hash of each managed object's spec is an annotation of the operand's*)
(* pod template, so a change of a spec restarts the operand.  Three kinds  *)
(* of object hold a CA bundle in their spec that cert-manager's injector   *)
(* writes: CRDs, webhook configurations and APIServices.  Each is applied  *)
(* in its own way, and what the apply returns is hashed.                   *)
(*                                                                         *)
(* One CRD, one webhook configuration and one APIService.  Every apply but *)
(* the CRD's reads the live object; the CRD's reads the lister first.  The *)
(* versions of the CRD that are still to be seen are kept in order, the    *)
(* lister's first and the live one last, and the resource cache names a    *)
(* version by its position among them, 0 for one the lister has passed.    *)
(***************************************************************************)
EXTENDS Naturals, Sequences

CONSTANTS
    Absent,
    MaxLag,        \* versions of the CRD the lister may be behind
    MaxRotations,  \* CA certificates issued after the first ones
    MaxChanges,    \* writes and deletions by other clients
    MaxFaults      \* failed calls and restarts

ASSUME RolloutAssumption ==
    MaxLag \in Nat /\ MaxRotations \in Nat /\ MaxChanges \in Nat /\ MaxFaults \in Nat

Objects == {"crd", "webhook", "apiservice"}

\* The Certificate whose CA an object is annotated for.
certOf == [crd |-> "webhook-cert", webhook |-> "webhook-cert", apiservice |-> "visibility"]
Certificates == {certOf[o] : o \in Objects}

\* A spec is the asset's or another, and its bundle a CA's number, 0 for none.
NoBundle == 0
Contents == [spec: {"wanted", "other"}, bundle: 0..(MaxRotations + 1)]
MaybeAbsent == Contents \union {Absent}

ASSUME AbsentAssumption == Absent \notin Contents

VARIABLES
    versions,   \* of the CRD: the lister's, those on their way, the live one
    others,     \* the live webhook configuration and APIService
    ca,         \* the current CA of each Certificate
    memo,       \* the resource cache's entry for the CRD
    pc,
    required,   \* the CRD as it was prepared
    hashes,     \* specAnnotations: what was hashed
    template,   \* the annotations of the live Deployment's pod template
    rotations, changes, faults

clusterVars == <<versions, others, ca>>
syncVars == <<pc, required, hashes>>
vars == <<clusterVars, memo, syncVars, template, rotations, changes, faults>>

lister == Head(versions)
live == [o \in Objects |-> IF o = "crd" THEN versions[Len(versions)] ELSE others[o]]

-----------------------------------------------------------------------------
(* Writes to the objects; a write of the same content makes no version.    *)

WriteCRD(content) ==
    /\ Len(versions) <= MaxLag
    /\ versions' = IF content = live["crd"] THEN versions ELSE Append(versions, content)
    /\ UNCHANGED others

Write(o, content) ==
    IF o = "crd" THEN WriteCRD(content)
    ELSE others' = [others EXCEPT ![o] = content] /\ UNCHANGED versions

-----------------------------------------------------------------------------
(* The sync, in its order *)

BeginSync ==
    /\ pc = "idle"
    /\ pc' = "apiservice"
    /\ UNCHANGED <<clusterVars, memo, required, hashes, template, rotations, changes, faults>>

\* computeSpecHash of what an apply returned.
computeSpecHash(o, content, then) ==
    /\ hashes' = [hashes EXCEPT ![o] = content]
    /\ pc' = then

\* ApplyAPIService: the bundle is not compared; an update brings the asset's
\* spec, which has none.
AppliedAPIService(existing) ==
    IF existing # Absent /\ existing.spec = "wanted" THEN existing
    ELSE [spec |-> "wanted", bundle |-> NoBundle]

manageAPIService ==
    /\ pc = "apiservice"
    /\ LET applied == AppliedAPIService(live["apiservice"])
       IN  Write("apiservice", applied) /\ computeSpecHash("apiservice", applied, "crd")
    /\ UNCHANGED <<ca, memo, required, template, rotations, changes, faults>>

\* Variant: the asset as it is, without a bundle.
RequiredCRDAsset == [spec |-> "wanted", bundle |-> NoBundle]

\* "Preserve the caBundle from the existing CRD if it exists": the lister's.
RequiredCRD ==
    [spec |-> "wanted", bundle |-> IF lister = Absent THEN NoBundle ELSE lister.bundle]

SafeToSkipApply(req) == lister # Absent /\ memo.at = 1 /\ memo.required = req

\* Variant: a CRD that was skipped is not hashed.
SkipCRDUnhashed ==
    /\ pc = "crd"
    /\ SafeToSkipApply(RequiredCRD)
    /\ pc' = "webhook"
    /\ UNCHANGED <<clusterVars, memo, required, hashes, template, rotations, changes, faults>>

\* The lister's copy is what is hashed when the apply is skipped.
SkipCRD ==
    /\ pc = "crd"
    /\ SafeToSkipApply(RequiredCRD)
    /\ computeSpecHash("crd", lister, "webhook")
    /\ UNCHANGED <<clusterVars, memo, required, template, rotations, changes, faults>>

PrepareCRD ==
    /\ pc = "crd"
    /\ ~ SafeToSkipApply(RequiredCRD)
    /\ required' = RequiredCRD
    /\ pc' = "applyCRD"
    /\ UNCHANGED <<clusterVars, memo, hashes, template, rotations, changes, faults>>

\* Variant: the version that was read is remembered for what was written.
applyCRDRemembersRead ==
    /\ pc = "applyCRD"
    /\ WriteCRD(required)
    /\ memo' = [required |-> required, at |-> Len(versions)]
    /\ computeSpecHash("crd", required, "webhook")
    /\ required' = Absent
    /\ UNCHANGED <<ca, template, rotations, changes, faults>>

\* ApplyCustomResourceDefinitionV1 reads the live CRD and replaces its spec by
\* the required one; a conflict is a failure.
applyCustomResourceDefinitionWithCache ==
    /\ pc = "applyCRD"
    /\ WriteCRD(required)
    /\ memo' = [required |-> required, at |-> Len(versions')]
    /\ computeSpecHash("crd", required, "webhook")
    /\ required' = Absent
    /\ UNCHANGED <<ca, template, rotations, changes, faults>>

\* The webhooks' apply keeps the live bundle.
manageWebhooks ==
    /\ pc = "webhook"
    /\ LET existing == live["webhook"]
           applied == [spec |-> "wanted",
                       bundle |-> IF existing = Absent THEN NoBundle ELSE existing.bundle]
       IN  Write("webhook", applied) /\ computeSpecHash("webhook", applied, "deployment")
    /\ UNCHANGED <<ca, memo, required, template, rotations, changes, faults>>

\* The sync returns and its locals are gone.
Return ==
    /\ pc' = "idle"
    /\ required' = Absent
    /\ hashes' = [o \in Objects |-> Absent]

\* A template that differs from the live one starts a rollout.
manageDeployment ==
    /\ pc = "deployment"
    /\ template' = hashes
    /\ Return
    /\ UNCHANGED <<clusterVars, memo, rotations, changes, faults>>

SyncFails ==
    /\ pc # "idle"
    /\ faults < MaxFaults
    /\ faults' = faults + 1
    /\ Return
    /\ UNCHANGED <<clusterVars, memo, template, rotations, changes>>

\* A new process: an empty resource cache and a lister from a new list.
Restart ==
    /\ faults < MaxFaults
    /\ faults' = faults + 1
    /\ memo' = [required |-> Absent, at |-> 0]
    /\ versions' = <<live["crd"]>>
    /\ Return
    /\ UNCHANGED <<others, ca, template, rotations, changes>>

Sync ==
    \/ BeginSync \/ manageAPIService
    \/ SkipCRD \/ PrepareCRD \/ applyCustomResourceDefinitionWithCache
    \/ manageWebhooks \/ manageDeployment

-----------------------------------------------------------------------------
(* Around the operator *)

\* client-go delivers the next version.
WatchDeliver ==
    /\ Len(versions) > 1
    /\ versions' = Tail(versions)
    /\ memo' = [memo EXCEPT !.at = IF @ = 0 THEN 0 ELSE @ - 1]
    /\ UNCHANGED <<others, ca, syncVars, template, rotations, changes, faults>>

Injected(o) == live[o] # Absent => live[o].bundle = ca[certOf[o]]

\* cert-manager's injector writes the current CA into an annotated object.
Inject(o) ==
    /\ ~ Injected(o)
    /\ Write(o, [live[o] EXCEPT !.bundle = ca[certOf[o]]])
    /\ UNCHANGED <<ca, memo, syncVars, template, rotations, changes, faults>>

\* cert-manager issues a Certificate again: self-signed, so with a new CA.
Rotate(c) ==
    /\ rotations < MaxRotations
    /\ rotations' = rotations + 1
    /\ ca' = [ca EXCEPT ![c] = rotations + 2]
    /\ UNCHANGED <<versions, others, memo, syncVars, template, changes, faults>>

\* Another client edits or deletes an object.
Disturb(o) ==
    /\ changes < MaxChanges
    /\ changes' = changes + 1
    /\ live[o] # Absent
    /\ \/ Write(o, [live[o] EXCEPT !.spec = "other"])
       \/ Write(o, Absent)
    /\ UNCHANGED <<ca, memo, syncVars, template, rotations, faults>>

Init ==
    /\ versions = <<Absent>>
    /\ others = [o \in {"webhook", "apiservice"} |-> Absent]
    /\ ca = [c \in Certificates |-> 1]
    /\ memo = [required |-> Absent, at |-> 0]
    /\ pc = "idle" /\ required = Absent
    /\ hashes = [o \in Objects |-> Absent]
    /\ template = [o \in Objects |-> Absent]
    /\ rotations = 0 /\ changes = 0 /\ faults = 0

Next ==
    \/ Sync \/ SyncFails \/ Restart
    \/ WatchDeliver
    \/ \E o \in Objects : Inject(o) \/ Disturb(o)
    \/ \E c \in Certificates : Rotate(c)

Spec ==
    /\ Init /\ [][Next]_vars
    /\ WF_vars(Sync) /\ WF_vars(WatchDeliver)
    /\ \A o \in Objects : WF_vars(Inject(o))

-----------------------------------------------------------------------------
(* Properties *)

TypeOK ==
    /\ versions \in Seq(MaybeAbsent)
    /\ Len(versions) \in 1..(MaxLag + 1)
    /\ others \in [{"webhook", "apiservice"} -> MaybeAbsent]
    /\ rotations \in 0..MaxRotations
    /\ ca \in [Certificates -> 1..(rotations + 1)]
    /\ memo \in [required: MaybeAbsent, at: 0..Len(versions)]
    /\ memo.at > 0 => memo.required # Absent
    /\ pc \in {"idle", "apiservice", "crd", "applyCRD", "webhook", "deployment"}
    /\ required \in MaybeAbsent
    /\ (pc = "applyCRD") = (required # Absent)
    /\ hashes \in [Objects -> MaybeAbsent]
    /\ pc = "deployment" => \A o \in Objects : hashes[o] # Absent
    /\ template \in [Objects -> MaybeAbsent]

\* The memory of the resource cache is true of the version it names.
MemoTrue == memo.at > 0 => versions[memo.at] = memo.required

\* A sync begins with the lister up to date and the injector at rest.
QuietSync == BeginSync /\ Len(versions) = 1 /\ \A o \in Objects : Injected(o)

Settled ==
    /\ \A o \in Objects : live[o] = [spec |-> "wanted", bundle |-> ca[certOf[o]]]
    /\ template = live

\* The restarts come to an end: if syncs keep finding quiet moments to begin
\* in, objects and template settle on the assets with the current CAs, the
\* template stays as it is, and operator and injector do not undo each
\* other's writes for ever ("causes rollout loops", T:607; T:2392-2393).
RolloutsEnd == []<><<QuietSync>>_vars => <>[]Settled
=============================================================================
