-------------------------- MODULE NetworkPolicies ---------------------------
(***************************************************************************)
(* The operator isolates itself and its operand: the network policies it   *)
(* writes select its own pod, so that its own access to the API server     *)
(* hangs on the order in which they are written, and on the one in which   *)
(* the garbage collector removes them.                                     *)
(*                                                                         *)
(* One application of a policy is one step; its reads and writes, and      *)
(* drift that other clients cause, are the subject of ApplyWithCache.  The *)
(* network enforces what it has seen of the policies, and the informers    *)
(* are other copies, each of them behind by any amount.  The rest of a     *)
(* sync is left out, but for the finalizer and the re-read of the Kueue    *)
(* object; they decide under which uid the policies are written.           *)
(* A resourceVersion is modelled by the content it stands for.             *)
(***************************************************************************)
EXTENDS Naturals, Sequences

CONSTANTS
    Policies,           \* the policies of the instance
    OpenShift,          \* what the cluster is
    Absent, None,
    MaxObjects,         \* Kueue objects created in succession
    MaxLag,             \* versions of the Kueue object the informer has not seen
    MaxFaults           \* failed calls and restarts

AllPolicies == {"api", "dns", "metrics", "visibility", "webhook", "deny"}

ASSUME NetworkAssumption ==
    /\ Policies \subseteq AllPolicies /\ "api" \in Policies
    /\ OpenShift \in BOOLEAN
    /\ MaxObjects \in Nat /\ MaxLag \in Nat /\ MaxFaults \in Nat

Peers == {"apiServerPort", "openshift-dns", "monitoring", "pods", "kubeAPIServerPods",
          "kube-dns", "everywhere"}
Kueues == [uid: Nat, deleting: BOOLEAN, finalizer: BOOLEAN]
Owned == [owner: Nat, peers: SUBSET Peers]
Memos == [required: Owned, made: Owned]

ASSUME NothingAssumption ==
    /\ Absent \notin Owned /\ \A peers \in SUBSET Peers : Absent # peers
    /\ None \notin Kueues \union Memos

VARIABLES
    kueue,        \* the live Kueue object, or None
    cached,       \* the informer's copy
    events,       \* the versions it has yet to see
    objects,      \* Kueue objects created so far
    live,         \* the policies: owner, peers allowed
    lister,       \* the informer's copy of them
    enforced,     \* the peers the network allows for each
    memo,         \* the resource cache: what was required, and what that made
    isOpenShift,  \* what the operator takes the cluster for
    pc,
    snap,         \* the sync's kueue, until it is read again
    aliased,      \* it is the informer's own object, not yet replaced there
    next,         \* the position in files of the next policy
    owner,        \* the uid in the ownerReference of this sync, or of the last
    setBack,      \* history: a sync was for an older object than one before it
    faults

kueueVars == <<kueue, cached, events, objects>>
syncVars == <<pc, snap, aliased, next, owner, setBack>>
vars == <<kueueVars, live, lister, enforced, memo, isOpenShift, syncVars, faults>>

-----------------------------------------------------------------------------
(* The policies *)

\* A policy's place in the list, if it is one of the instance.
Listed(p) == IF p \in Policies THEN <<p>> ELSE <<>>

\* Variant: the allow policies are sorted by what they select.
filesDNSFirst == Listed("dns") \o Listed("metrics") \o Listed("api")
                 \o Listed("visibility") \o Listed("webhook") \o Listed("deny")

\* AssetDir lists the directory by file name: 10-allow-egress-api comes first
\* and 99-deny-all last.
files == Listed("api") \o Listed("dns") \o Listed("metrics")
         \o Listed("visibility") \o Listed("webhook") \o Listed("deny")

\* The peers of the asset; deny-all has none.
assetPeers ==
    [api |-> {"apiServerPort"}, dns |-> {"openshift-dns"}, metrics |-> {"monitoring"},
     visibility |-> {"pods"}, webhook |-> {"kubeAPIServerPods"}, deny |-> {}]

\* All but the policies of the operand's own servers select both pods, and
\* all of them are of type Egress: a pod that one of them selects may only
\* connect to where one of them lets it.
SelectsOperator(p) == p \notin {"visibility", "webhook"}

adjustDNSNetworkPolicyForPlatform(peers) == IF isOpenShift THEN peers ELSE {"kube-dns"}
adjustVisibilityNetworkPolicyForPlatform(peers) == IF isOpenShift THEN peers ELSE {"everywhere"}
adjustWebhookNetworkPolicyForPlatform(peers) == IF isOpenShift THEN peers ELSE {"everywhere"}

Wanted(p) ==
    CASE p = "dns" -> adjustDNSNetworkPolicyForPlatform(assetPeers[p])
      [] p = "visibility" -> adjustVisibilityNetworkPolicyForPlatform(assetPeers[p])
      [] p = "webhook" -> adjustWebhookNetworkPolicyForPlatform(assetPeers[p])
      [] OTHER -> assetPeers[p]

\* What the network takes from the policies.
Rules(policies) ==
    [p \in Policies |-> IF policies[p] = Absent THEN Absent ELSE policies[p].peers]

\* The operator's pod may connect to the API server.
Reaches(rules) ==
    LET selecting == {p \in Policies : rules[p] # Absent /\ SelectsOperator(p)}
    IN  selecting = {} \/ \E p \in selecting : "apiServerPort" \in rules[p]

-----------------------------------------------------------------------------
(* The operator *)

\* The sync returns and its locals are gone.
Return ==
    /\ pc' = "idle" /\ snap' = None /\ aliased' = FALSE /\ next' = 1
    /\ UNCHANGED <<owner, setBack>>

\* Every write to the Kueue object reaches the informer as a watch event.
Push(version) == Len(events) < MaxLag /\ events' = Append(events, version)

\* Once per process: six attempts, five seconds apart, that get neither the
\* group nor NotFound for an answer pass for a cluster that is not OpenShift.
detectOpenShift ==
    /\ pc = "detect"
    /\ isOpenShift' \in IF Reaches(enforced) THEN {OpenShift, FALSE} ELSE {FALSE}
    /\ pc' = "idle"
    /\ UNCHANGED <<kueueVars, live, lister, enforced, memo, snap, aliased, next, owner,
                   setBack, faults>>

BeginSync ==
    /\ pc = "idle"
    /\ Reaches(enforced)
    /\ cached # None
    /\ pc' = "addFinalizer"
    /\ snap' = cached /\ aliased' = TRUE
    /\ owner' = cached.uid
    /\ setBack' = (setBack \/ cached.uid < owner)
    /\ UNCHANGED <<kueueVars, live, lister, enforced, memo, isOpenShift, next, faults>>

\* The finalizer is on; the ownerReference is not looked at again.
AfterAddFinalizer(k) ==
    /\ pc' = IF k.deleting THEN "remove" ELSE "reRead"
    /\ snap' = k
    /\ UNCHANGED <<live, lister, enforced, memo, isOpenShift, next, owner, setBack, faults>>

FinalizerPresent ==
    /\ pc = "addFinalizer"
    /\ snap.finalizer \/ (Reaches(enforced) /\ kueue # None /\ kueue.finalizer)
    /\ AfterAddFinalizer(snap)
    /\ UNCHANGED <<kueueVars, aliased>>

\* The object of that name is patched, whichever it is now, and *kueue = *patched
\* overwrites the informer's object while kueue still points at it.
AddFinalizer ==
    /\ pc = "addFinalizer"
    /\ Reaches(enforced)
    /\ ~ snap.finalizer /\ kueue # None /\ ~ kueue.finalizer
    /\ kueue' = [kueue EXCEPT !.finalizer = TRUE]
    /\ Push(kueue')
    /\ cached' = IF aliased THEN kueue' ELSE cached
    /\ AfterAddFinalizer(kueue')
    /\ UNCHANGED <<objects, aliased>>

\* The live Get finds no object: an error.
AddFinalizerNotFound ==
    /\ pc = "addFinalizer"
    /\ Reaches(enforced)
    /\ ~ snap.finalizer /\ kueue = None
    /\ Return
    /\ UNCHANGED <<kueueVars, live, lister, enforced, memo, isOpenShift, faults>>

\* Cleanup and the removal of the finalizer, again from the object of that
\* name; policies are not cleaned up.
RemoveFinalizer ==
    /\ pc = "remove"
    /\ Reaches(enforced)
    /\ IF snap.finalizer /\ kueue # None /\ kueue.finalizer
       THEN LET patched == [kueue EXCEPT !.finalizer = FALSE]
            IN  /\ kueue' = IF kueue.deleting THEN None ELSE patched
                /\ Push(kueue')
                /\ cached' = IF aliased THEN patched ELSE cached
       ELSE UNCHANGED <<kueue, cached, events>>
    /\ Return
    /\ UNCHANGED <<objects, live, lister, enforced, memo, isOpenShift, faults>>

\* kueue is read again; the ownerReference keeps its uid.  No later step of
\* this model uses kueue.
ReRead ==
    /\ pc = "reRead"
    /\ IF cached = None THEN Return
       ELSE /\ pc' = "manage" /\ snap' = None /\ aliased' = FALSE
            /\ UNCHANGED <<next, owner, setBack>>
    /\ UNCHANGED <<kueueVars, live, lister, enforced, memo, isOpenShift, faults>>

Required(p) == [owner |-> owner, peers |-> Wanted(p)]

SafeToSkipApply(p) ==
    /\ lister[p] # Absent
    /\ memo[p] = [required |-> Required(p), made |-> lister[p]]

Advance ==
    IF next = Len(files) THEN Return
    ELSE next' = next + 1 /\ UNCHANGED <<pc, snap, aliased, owner, setBack>>

SkipPolicy ==
    /\ pc = "manage"
    /\ SafeToSkipApply(files[next])
    /\ Advance
    /\ UNCHANGED <<kueueVars, live, lister, enforced, memo, isOpenShift, faults>>

\* Variant: an existing policy is left alone if its peers are the wanted ones.
manageNetworkPoliciesByPeers ==
    LET p == files[next]
    IN  /\ pc = "manage"
        /\ ~ SafeToSkipApply(p)
        /\ Reaches(enforced)
        /\ IF live[p] # Absent /\ live[p].peers = Wanted(p)
           THEN UNCHANGED live
           ELSE live' = [live EXCEPT ![p] = Required(p)]
        /\ memo' = [memo EXCEPT ![p] = [required |-> Required(p), made |-> live'[p]]]
        /\ Advance
        /\ UNCHANGED <<kueueVars, lister, enforced, isOpenShift, faults>>

\* The policy is created, updated, or left alone if it is as required.
\* MergeOwnerRefs looks for an owner of that kind and name, not of that uid: an
\* owner that is a former Kueue object is replaced, and so is the living one by
\* a sync that is for a former object.
ApplyNetworkPolicy(p) == live' = [live EXCEPT ![p] = Required(p)]

manageNetworkPolicies ==
    LET p == files[next]
    IN  /\ pc = "manage"
        /\ ~ SafeToSkipApply(p)
        /\ Reaches(enforced)
        /\ ApplyNetworkPolicy(p)
        /\ memo' = [memo EXCEPT ![p] = [required |-> Required(p), made |-> live'[p]]]
        /\ Advance
        /\ UNCHANGED <<kueueVars, lister, enforced, isOpenShift, faults>>

\* A call that cannot get through ends the sync.
CutOff ==
    /\ pc \in {"addFinalizer", "manage", "remove"}
    /\ ~ Reaches(enforced)
    /\ Return
    /\ UNCHANGED <<kueueVars, live, lister, enforced, memo, isOpenShift, faults>>

Sync ==
    \/ detectOpenShift \/ BeginSync
    \/ FinalizerPresent \/ AddFinalizer \/ AddFinalizerNotFound \/ RemoveFinalizer
    \/ ReRead \/ SkipPolicy \/ manageNetworkPolicies \/ CutOff

SyncFails ==
    /\ pc \in {"addFinalizer", "reRead", "manage", "remove"}
    /\ faults < MaxFaults
    /\ faults' = faults + 1
    /\ Return
    /\ UNCHANGED <<kueueVars, live, lister, enforced, memo, isOpenShift>>

\* The informers of the new process list before its first sync.
Restart ==
    /\ faults < MaxFaults
    /\ faults' = faults + 1
    /\ pc' = "detect" /\ snap' = None /\ aliased' = FALSE /\ next' = 1
    /\ isOpenShift' = FALSE
    /\ memo' = [p \in Policies |-> None]
    /\ cached' = kueue /\ events' = <<>> /\ lister' = live
    /\ UNCHANGED <<kueue, objects, live, enforced, owner, setBack>>

-----------------------------------------------------------------------------
(* The cluster *)

UserCreate ==
    /\ kueue = None
    /\ objects < MaxObjects
    /\ objects' = objects + 1
    /\ kueue' = [uid |-> objects', deleting |-> FALSE, finalizer |-> FALSE]
    /\ Push(kueue')
    /\ UNCHANGED <<cached, live, lister, enforced, memo, isOpenShift, syncVars, faults>>

\* What an edit changes is left out, but the informer has one more version of
\* the object to see.  (Bound: only while there is room for three more.)
UserEdit ==
    /\ kueue # None
    /\ Len(events) + 3 < MaxLag
    /\ Push(kueue)
    /\ UNCHANGED <<kueue, cached, objects, live, lister, enforced, memo, isOpenShift,
                   syncVars, faults>>

\* An object without a finalizer is gone at once.
UserDelete ==
    /\ kueue # None /\ ~ kueue.deleting
    /\ kueue' = IF kueue.finalizer THEN [kueue EXCEPT !.deleting = TRUE] ELSE None
    /\ Push(kueue')
    /\ UNCHANGED <<cached, objects, live, lister, enforced, memo, isOpenShift, syncVars,
                   faults>>

Living == IF kueue = None THEN {} ELSE {kueue.uid}

\* A policy whose owner does not exist is deleted, unless it was changed since
\* the collector looked at it; in any order.
GarbageCollect ==
    /\ \E p \in Policies :
          /\ live[p] # Absent /\ live[p].owner \notin Living
          /\ live' = [live EXCEPT ![p] = Absent]
    /\ UNCHANGED <<kueueVars, lister, enforced, memo, isOpenShift, syncVars, faults>>

\* The network sees a policy, whatever it has seen of the others.
Enforce(p) ==
    /\ enforced[p] # Rules(live)[p]
    /\ enforced' = [enforced EXCEPT ![p] = Rules(live)[p]]
    /\ UNCHANGED <<kueueVars, live, lister, memo, isOpenShift, syncVars, faults>>

ListerCatchesUp ==
    /\ Reaches(enforced)
    /\ lister # live
    /\ lister' = live
    /\ UNCHANGED <<kueueVars, live, enforced, memo, isOpenShift, syncVars, faults>>

\* The next event, or the live object if the informer has to list again.  It is
\* stored whatever the informer's object has become meanwhile; the kueue of a
\* running sync is an object of its own then.
InformerCatchesUp ==
    /\ Reaches(enforced)
    /\ events # <<>>
    /\ \E n \in {1, Len(events)} :
          cached' = events[n] /\ events' = SubSeq(events, n + 1, Len(events))
    /\ aliased' = FALSE
    /\ UNCHANGED <<kueue, objects, live, lister, enforced, memo, isOpenShift, pc, snap,
                   next, owner, setBack, faults>>

-----------------------------------------------------------------------------

Init ==
    /\ kueue = None /\ cached = None /\ events = <<>> /\ objects = 0
    /\ live = [p \in Policies |-> Absent] /\ lister = live /\ enforced = live
    /\ memo = [p \in Policies |-> None]
    /\ isOpenShift = FALSE
    /\ pc = "detect" /\ snap = None /\ aliased = FALSE /\ next = 1
    /\ owner = 0 /\ setBack = FALSE
    /\ faults = 0

Next ==
    \/ Sync \/ SyncFails \/ Restart
    \/ UserCreate \/ UserEdit \/ UserDelete
    \/ GarbageCollect \/ (\E p \in Policies : Enforce(p))
    \/ ListerCatchesUp \/ InformerCatchesUp

\* The network, the collector and the watches do their work; a sync follows
\* every event and, failing that, the resync.  The informer tries again for
\* ever: its watch gets through if the operator can connect again and again.
Fairness ==
    /\ WF_vars(Sync) /\ WF_vars(GarbageCollect)
    /\ \A p \in Policies : WF_vars(Enforce(p))
    /\ WF_vars(ListerCatchesUp) /\ SF_vars(InformerCatchesUp)

Spec == Init /\ [][Next]_vars /\ Fairness

-----------------------------------------------------------------------------
(* Properties *)

\* manageNetworkPolicies never cuts the operator off from the API server,
\* whatever call fails, however the garbage of a former Kueue object is
\* collected in between, and although a sync may write the policies under the
\* uid of a former object while a new one lives: where it is cut off, every
\* policy that selects it is garbage, which goes away without the operator.
\* Not so once a sync for the new object was followed by one for the former:
\* it takes the policies away from the living object, one by one.
CutOffOnlyByGarbage ==
    ~ setBack /\ ~ Reaches(Rules(live)) =>
        \A p \in Policies :
            live[p] # Absent /\ SelectsOperator(p) => live[p].owner \notin Living

\* The policies are those of the platform the operator found, as long as there
\* is a Kueue object, and there are none and an operator that is not isolated
\* after its deletion.
Settled ==
    /\ Reaches(enforced)
    /\ enforced = Rules(live)
    /\ IF kueue = None THEN \A p \in Policies : live[p] = Absent
       ELSE \A p \in Policies : live[p] = [owner |-> kueue.uid, peers |-> Wanted(p)]

\* The cluster ends like that, with the same exception.
Converges == <>[](Settled \/ setBack)
=============================================================================
