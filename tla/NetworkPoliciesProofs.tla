----------------------- MODULE NetworkPoliciesProofs ------------------------
(* Machine-checked proofs about NetworkPolicies, for every choice of        *)
(* policies, either platform and every bound.                               *)
EXTENDS NetworkPolicies, SequenceTheorems, TLAPS

(***************************************************************************)
(* The inductive invariant                                                 *)
(***************************************************************************)

MaybeOwned == [Policies -> Owned \union {Absent}]

\* The versions of Kueue objects that were created; uids grow.
Versions(n) == {k \in Kueues : k.uid <= n} \union {None}

NetworkTypes ==
    /\ objects \in Nat
    /\ kueue \in Versions(objects) /\ (kueue # None => kueue.uid = objects)
    /\ cached \in Versions(objects) /\ snap \in Versions(objects)
    /\ events \in Seq(Versions(objects))
    /\ live \in MaybeOwned /\ lister \in MaybeOwned
    /\ memo \in [Policies -> Memos \union {None}]
    /\ isOpenShift \in BOOLEAN /\ setBack \in BOOLEAN
    /\ next \in 1..Len(files)
    /\ pc # "manage" => next = 1
    /\ owner \in Nat /\ owner <= objects

\* u is the owner of the policy that allows access to the API server.
Allows(policies, u) == policies["api"] # Absent /\ policies["api"].owner = u

\* That policy allows what it is for, whoever owns it.
ApiAllows == live["api"] # Absent => "apiServerPort" \in live["api"].peers

\* What the resource cache remembers to have been made is what was required.
MemoTrue == \A p \in Policies : memo[p] # None => memo[p].made = memo[p].required

\* Nobody but a sync makes an object the owner of a policy: none of them, and
\* none that the informer shows, is owned by a later object than the sync's.
OwnersSynced ==
    \A p \in Policies :
        /\ live[p] # Absent => live[p].owner <= owner
        /\ lister[p] # Absent => lister[p].owner <= owner

\* A living object that owns a policy owns the one that allows access; once it
\* was seen to own that one, it owns it for as long as it lives.
ApiFirst ==
    \A u \in Living :
        /\ \A p \in Policies : live[p] # Absent /\ live[p].owner = u => Allows(live, u)
        /\ Allows(lister, u) => Allows(live, u)

\* A sync past the first policy has found, or made, its Kueue the owner of it.
PastApi == pc = "manage" /\ next > 1 /\ owner \in Living => Allows(live, owner)

Orderly == OwnersSynced /\ ApiFirst /\ PastApi

NetworkInv == NetworkTypes /\ MemoTrue /\ ApiAllows /\ (~ setBack => Orderly)

(***************************************************************************)
(* The policies                                                            *)
(***************************************************************************)

\* The first policy that is written allows access to the API server.
LEMMA FilesProperties ==
    /\ "api" \in Policies
    /\ files \in Seq(Policies) /\ Len(files) \in Nat \ {0}
    /\ files[1] = "api"
    /\ \A i \in 1..Len(files) : files[i] \in Policies
<1>1. "api" \in Policies
  BY NetworkAssumption
<1>2. ASSUME NEW p PROVE Listed(p) \in Seq(Policies)
  BY DEF Listed
<1>3. ASSUME NEW s \in Seq(Policies), Len(s) > 0, s[1] = "api", NEW p
      PROVE  /\ s \o Listed(p) \in Seq(Policies)
             /\ Len(s \o Listed(p)) > 0 /\ (s \o Listed(p))[1] = "api"
  BY <1>2, <1>3, ConcatProperties
<1> DEFINE s1 == Listed("api")
           s2 == s1 \o Listed("dns")
           s3 == s2 \o Listed("metrics")
           s4 == s3 \o Listed("visibility")
           s5 == s4 \o Listed("webhook")
           s6 == s5 \o Listed("deny")
<1>4. s1 \in Seq(Policies) /\ Len(s1) > 0 /\ s1[1] = "api"
  BY <1>1 DEF Listed
<1>5. files = s6
  BY DEF files
<1> HIDE DEF s1
<1>6. s2 \in Seq(Policies) /\ Len(s2) > 0 /\ s2[1] = "api"
  BY <1>3, <1>4
<1> HIDE DEF s2
<1>7. s3 \in Seq(Policies) /\ Len(s3) > 0 /\ s3[1] = "api"
  BY <1>3, <1>6
<1> HIDE DEF s3
<1>8. s4 \in Seq(Policies) /\ Len(s4) > 0 /\ s4[1] = "api"
  BY <1>3, <1>7
<1> HIDE DEF s4
<1>9. s5 \in Seq(Policies) /\ Len(s5) > 0 /\ s5[1] = "api"
  BY <1>3, <1>8
<1> HIDE DEF s5
<1>10. s6 \in Seq(Policies) /\ Len(s6) > 0 /\ s6[1] = "api"
  BY <1>3, <1>9
<1> HIDE DEF s6
<1> QED
  BY <1>1, <1>5, <1>10, LenProperties

\* What a policy allows on either platform; the first one is the same on both.
LEMMA WantedProperties ==
    ASSUME NEW p \in Policies
    PROVE  /\ Wanted(p) \in SUBSET Peers
           /\ p = "api" => "apiServerPort" \in Wanted(p)
<1>1. p \in AllPolicies
  BY NetworkAssumption
<1>2. assetPeers[p] \in SUBSET Peers /\ assetPeers["api"] = {"apiServerPort"}
  <2>1. /\ assetPeers["api"] = {"apiServerPort"} /\ assetPeers["dns"] = {"openshift-dns"}
        /\ assetPeers["metrics"] = {"monitoring"} /\ assetPeers["visibility"] = {"pods"}
        /\ assetPeers["webhook"] = {"kubeAPIServerPods"} /\ assetPeers["deny"] = {}
    BY DEF assetPeers
  <2>2. CASE p = "deny"
    BY <2>1, <2>2
  <2>3. CASE p # "deny"
    BY <1>1, <2>1, <2>3 DEF AllPolicies, Peers
  <2> QED
    BY <2>1, <2>2, <2>3
<1>3. CASE p \in {"api", "metrics", "deny"}
  <2>1. Wanted(p) = assetPeers[p]
    BY <1>3 DEF Wanted
  <2> QED
    BY <1>2, <2>1
<1>4. CASE p \in {"dns", "visibility", "webhook"}
  <2>1. Wanted(p) \in {assetPeers[p], {"kube-dns"}, {"everywhere"}}
    BY <1>4
       DEF Wanted, adjustDNSNetworkPolicyForPlatform,
           adjustVisibilityNetworkPolicyForPlatform, adjustWebhookNetworkPolicyForPlatform
  <2> QED
    <3>1. {"kube-dns"} \in SUBSET Peers /\ {"everywhere"} \in SUBSET Peers
      BY DEF Peers
    <3>2. Wanted(p) \in SUBSET Peers
      BY <1>2, <2>1, <3>1
    <3> QED
      BY <1>4, <3>2
<1> QED
  BY <1>1, <1>3, <1>4 DEF AllPolicies

(***************************************************************************)
(* The steps                                                               *)
(***************************************************************************)

\* Later objects add versions.
LEMMA VersionsGrow ==
    ASSUME NEW n \in Nat
    PROVE  /\ Versions(n) \subseteq Versions(n + 1)
           /\ \A s \in Seq(Versions(n)) : s \in Seq(Versions(n + 1))
<1>1. Versions(n) \subseteq Versions(n + 1)
  BY DEF Versions, Kueues
<1> QED
  BY <1>1

\* A watch event is one of the versions.
LEMMA PushEffect ==
    ASSUME NEW n \in Nat, events \in Seq(Versions(n)), NEW k \in Versions(n), Push(k)
    PROVE  events' \in Seq(Versions(n))
BY DEF Push

\* One application of a policy: the sync's Kueue is the owner of it then.
LEMMA ManageEffect ==
    ASSUME NetworkInv, manageNetworkPolicies
    PROVE  LET p == files[next]
           IN  /\ p \in Policies
               /\ live' \in MaybeOwned
               /\ \A q \in Policies \ {p} : live'[q] = live[q]
               /\ live'[p] \in Owned /\ live'[p].owner = owner
               /\ p = "api" => "apiServerPort" \in live'[p].peers
               /\ memo' \in [Policies -> Memos \union {None}]
               /\ \A q \in Policies \ {p} : memo'[q] = memo[q]
               /\ memo'[p].made = memo'[p].required
<1> DEFINE p == files[next]
           entry == [required |-> Required(p), made |-> live'[p]]
<1>1. p \in Policies /\ "api" \in Policies
  BY FilesProperties DEF NetworkInv, NetworkTypes
<1>2. live \in MaybeOwned /\ owner \in Nat /\ memo \in [Policies -> Memos \union {None}]
  BY DEF NetworkInv, NetworkTypes
<1>3. live' = [live EXCEPT ![p] = Required(p)] /\ memo' = [memo EXCEPT ![p] = entry]
  BY DEF manageNetworkPolicies, ApplyNetworkPolicy
<1>4. Wanted(p) \in SUBSET Peers /\ (p = "api" => "apiServerPort" \in Wanted(p))
  BY <1>1, WantedProperties
<1> HIDE DEF p
<1>5. Required(p) \in Owned /\ Required(p).owner = owner /\ Required(p).peers = Wanted(p)
  BY <1>2, <1>4 DEF Required, Owned
<1>6. /\ live' \in MaybeOwned /\ live'[p] = Required(p)
      /\ \A q \in Policies \ {p} : live'[q] = live[q]
  BY <1>1, <1>2, <1>3, <1>5 DEF MaybeOwned
<1>7. entry \in Memos /\ entry.made = entry.required
  BY <1>5, <1>6 DEF Memos
<1> HIDE DEF entry
<1>8. /\ memo' \in [Policies -> Memos \union {None}] /\ memo'[p] = entry
      /\ \A q \in Policies \ {p} : memo'[q] = memo[q]
  BY <1>1, <1>2, <1>3, <1>7
<1> QED
  BY <1>1, <1>4, <1>5, <1>6, <1>7, <1>8 DEF p

\* The next policy, or the end of the sync.
LEMMA AdvanceEffect ==
    ASSUME NetworkInv, pc = "manage", Advance
    PROVE  /\ next' \in 1..Len(files) /\ (pc' # "manage" => next' = 1)
           /\ snap' \in Versions(objects)
           /\ UNCHANGED <<owner, setBack>>
BY FilesProperties DEF NetworkInv, NetworkTypes, Advance, Return, Versions

\* A step that leaves the policies alone, and lets no Kueue object come to life,
\* keeps the invariant if it keeps the sync's part and takes no owner back.
LEMMA SyncStep ==
    ASSUME NetworkInv,
           UNCHANGED <<objects, live>>, lister' \in {lister, live},
           kueue' \in Versions(objects),
           kueue' # None => kueue # None /\ kueue'.uid = kueue.uid,
           cached' \in Versions(objects), snap' \in Versions(objects),
           events' \in Seq(Versions(objects)),
           memo' \in [Policies -> Memos \union {None}],
           \A p \in Policies : memo'[p] \in {memo[p], None},
           isOpenShift' \in BOOLEAN, setBack' \in BOOLEAN,
           next' \in 1..Len(files), pc' # "manage" => next' = 1,
           owner' \in Nat, owner' <= objects,
           ~ setBack' => ~ setBack /\ owner <= owner',
           ~ setBack' /\ pc' = "manage" /\ next' > 1 /\ owner' \in Living =>
               Allows(live, owner')
    PROVE  NetworkInv'
<1>1. Living' \subseteq Living
  BY DEF Living
<1>2. NetworkTypes'
  BY DEF NetworkInv, NetworkTypes
<1>3. ApiAllows' /\ MemoTrue'
  BY DEF NetworkInv, ApiAllows, MemoTrue
<1>4. ASSUME ~ setBack' PROVE Orderly'
  <2>1. OwnersSynced /\ ApiFirst /\ owner <= owner' /\ owner \in Nat
    BY <1>4 DEF NetworkInv, NetworkTypes, Orderly
  <2>2. OwnersSynced'
    <3> SUFFICES ASSUME NEW p \in Policies
                 PROVE  /\ live[p] # Absent => live[p].owner <= owner'
                        /\ lister'[p] # Absent => lister'[p].owner <= owner'
      BY DEF OwnersSynced
    <3>1. /\ live[p] # Absent => live[p].owner \in Nat /\ live[p].owner <= owner
          /\ lister[p] # Absent => lister[p].owner \in Nat /\ lister[p].owner <= owner
      BY <2>1 DEF OwnersSynced, NetworkInv, NetworkTypes, MaybeOwned, Owned
    <3> QED
      BY <2>1, <3>1
  <2>3. ApiFirst'
    BY <1>1, <2>1 DEF ApiFirst, Allows
  <2>4. PastApi'
    BY <1>1, <1>4 DEF PastApi, Allows
  <2> QED
    BY <2>2, <2>3, <2>4 DEF Orderly
<1> QED
  BY <1>2, <1>3, <1>4 DEF NetworkInv

\* Every step keeps the invariant.
LEMMA NetworkStep == NetworkInv /\ [Next]_vars => NetworkInv'
<1> SUFFICES ASSUME NetworkInv, [Next]_vars PROVE NetworkInv'
  OBVIOUS
<1>a. /\ NetworkTypes /\ MemoTrue /\ ApiAllows /\ (~ setBack => Orderly)
      /\ "api" \in Policies /\ 1 \in 1..Len(files) /\ files[1] = "api"
      /\ None \in Versions(objects)
      /\ \A p \in Policies : memo[p] \in {memo[p], None}
      /\ owner <= owner
  BY FilesProperties DEF NetworkInv, NetworkTypes, Versions
<1> USE NetworkAssumption, NothingAssumption DEF kueueVars, syncVars
<1>1. CASE UNCHANGED vars
  BY <1>1, <1>a, SyncStep DEF vars, NetworkTypes, Orderly, PastApi
<1>2. CASE detectOpenShift
  <2>1. isOpenShift' \in BOOLEAN
    BY <1>2 DEF detectOpenShift
  <2>2. /\ pc' = "idle" /\ next' = 1
        /\ UNCHANGED <<kueue, cached, events, objects, live, lister, memo, snap, owner, setBack>>
    BY <1>2, <1>a DEF detectOpenShift, NetworkTypes
  <2> QED
    BY <1>a, <2>1, <2>2, SyncStep DEF NetworkTypes
<1>3. CASE BeginSync
  <2>1. /\ pc' = "addFinalizer" /\ next' = 1 /\ snap' = cached
        /\ owner' = cached.uid /\ cached # None
        /\ setBack' = (setBack \/ cached.uid < owner)
        /\ UNCHANGED <<kueue, cached, events, objects, live, lister, memo, isOpenShift>>
    BY <1>3, <1>a DEF BeginSync, NetworkTypes
  <2>2. owner' \in Nat /\ owner' <= objects
    BY <1>a, <2>1 DEF NetworkTypes, Versions, Kueues
  <2>3. setBack' \in BOOLEAN /\ (~ setBack' => ~ setBack /\ owner <= owner')
    <3>1. ~ (owner' < owner) => owner <= owner'
      BY <1>a, <2>2 DEF NetworkTypes
    <3>2. setBack' = (setBack \/ owner' < owner)
      BY <2>1
    <3> QED
      BY <3>1, <3>2, Zenon
  <2> QED
    BY <1>a, <2>1, <2>2, <2>3, SyncStep DEF NetworkTypes
<1>4. CASE FinalizerPresent
  <2>1. /\ pc' # "manage" /\ next' = 1
        /\ UNCHANGED <<kueue, cached, events, objects, live, lister, memo, isOpenShift, snap,
                       owner, setBack>>
    BY <1>4, <1>a DEF FinalizerPresent, AfterAddFinalizer, NetworkTypes
  <2> QED
    BY <1>a, <2>1, SyncStep DEF NetworkTypes
<1>5. CASE AddFinalizer
  <2>1. /\ pc' # "manage" /\ next' = 1 /\ snap' = kueue'
        /\ kueue # None /\ kueue' = [kueue EXCEPT !.finalizer = TRUE]
        /\ cached' \in {kueue', cached} /\ Push(kueue')
        /\ UNCHANGED <<objects, live, lister, memo, isOpenShift, owner, setBack>>
    BY <1>5, <1>a DEF AddFinalizer, AfterAddFinalizer, NetworkTypes
  <2>2. kueue' \in Versions(objects) /\ kueue'.uid = kueue.uid
    BY <1>a, <2>1 DEF NetworkTypes, Versions, Kueues
  <2>3. events' \in Seq(Versions(objects))
    BY <1>a, <2>1, <2>2, PushEffect DEF NetworkTypes
  <2> QED
    BY <1>a, <2>1, <2>2, <2>3, SyncStep DEF NetworkTypes
<1>6. CASE RemoveFinalizer
  <2>1. /\ pc' = "idle" /\ next' = 1 /\ snap' = None
        /\ UNCHANGED <<objects, live, lister, memo, isOpenShift, owner, setBack>>
    BY <1>6 DEF RemoveFinalizer, Return
  <2>2. CASE snap.finalizer /\ kueue # None /\ kueue.finalizer
    <3> DEFINE patched == [kueue EXCEPT !.finalizer = FALSE]
    <3>1. kueue' \in {None, patched} /\ cached' \in {patched, cached} /\ Push(kueue')
      BY <1>6, <2>2 DEF RemoveFinalizer
    <3>2. patched \in Versions(objects) /\ patched.uid = kueue.uid
      BY <1>a, <2>2 DEF NetworkTypes, Versions, Kueues
    <3> HIDE DEF patched
    <3>3. /\ kueue' \in Versions(objects) /\ cached' \in Versions(objects)
          /\ kueue' # None => kueue'.uid = kueue.uid
      BY <1>a, <3>1, <3>2 DEF NetworkTypes
    <3>4. events' \in Seq(Versions(objects))
      BY <1>a, <3>1, <3>3, PushEffect DEF NetworkTypes
    <3> QED
      BY <1>a, <2>1, <2>2, <3>3, <3>4, SyncStep DEF NetworkTypes
  <2>3. CASE ~ (snap.finalizer /\ kueue # None /\ kueue.finalizer)
    <3>1. UNCHANGED <<kueue, cached, events>>
      BY <1>6, <2>3 DEF RemoveFinalizer
    <3> QED
      BY <1>a, <2>1, <3>1, SyncStep DEF NetworkTypes
  <2> QED
    BY <2>2, <2>3
<1>7. CASE AddFinalizerNotFound \/ CutOff \/ SyncFails \/ ReRead
  <2>1. /\ next' = 1 /\ snap' = None
        /\ UNCHANGED <<kueue, cached, events, objects, live, lister, memo, isOpenShift,
                       owner, setBack>>
    BY <1>7, <1>a DEF AddFinalizerNotFound, CutOff, SyncFails, ReRead, Return, NetworkTypes
  <2> QED
    BY <1>a, <2>1, SyncStep DEF NetworkTypes
<1>8. CASE Restart
  <2>1. /\ pc' = "detect" /\ next' = 1 /\ snap' = None /\ isOpenShift' = FALSE
        /\ cached' = kueue /\ events' = <<>> /\ lister' = live
        /\ memo' = [p \in Policies |-> None]
        /\ UNCHANGED <<kueue, objects, live, owner, setBack>>
    BY <1>8 DEF Restart
  <2>2. /\ events' \in Seq(Versions(objects))
        /\ memo' \in [Policies -> Memos \union {None}]
        /\ \A p \in Policies : memo'[p] \in {memo[p], None}
    BY <2>1
  <2> QED
    BY <1>a, <2>1, <2>2, SyncStep DEF NetworkTypes
<1>9. CASE SkipPolicy
  <2>1. ASSUME ~ setBack, next = 1, owner \in Living
        PROVE  Allows(live, owner)
    <3>1. /\ lister["api"] \in Owned
          /\ memo["api"] = [required |-> Required("api"), made |-> lister["api"]]
      BY <1>9, <1>a, <2>1 DEF SkipPolicy, SafeToSkipApply, NetworkTypes, MaybeOwned
    <3>2. Required("api") \in Owned /\ Required("api").owner = owner
      BY <1>a, WantedProperties DEF Required, Owned, NetworkTypes
    <3>3. memo["api"] \in Memos
      BY <3>1, <3>2 DEF Memos
    <3>4. lister["api"] = Required("api")
      BY <1>a, <3>1, <3>3 DEF MemoTrue
    <3>5. Allows(lister, owner)
      BY <3>1, <3>2, <3>4 DEF Allows
    <3> QED
      BY <1>a, <2>1, <3>5 DEF Orderly, ApiFirst
  <2>2. ~ setBack /\ owner \in Living => Allows(live, owner)
    BY <1>9, <1>a, <2>1 DEF SkipPolicy, Orderly, PastApi, NetworkTypes
  <2>3. /\ next' \in 1..Len(files) /\ (pc' # "manage" => next' = 1)
        /\ snap' \in Versions(objects)
        /\ UNCHANGED <<kueue, cached, events, objects, live, lister, memo, isOpenShift,
                       owner, setBack>>
    BY <1>9, AdvanceEffect DEF SkipPolicy
  <2> QED
    BY <1>a, <2>2, <2>3, SyncStep DEF NetworkTypes
<1>10. CASE manageNetworkPolicies
  <2> DEFINE p == files[next]
  <2>1. /\ p \in Policies
        /\ live' \in MaybeOwned
        /\ \A q \in Policies \ {p} : live'[q] = live[q]
        /\ live'[p] \in Owned /\ live'[p].owner = owner
        /\ p = "api" => "apiServerPort" \in live'[p].peers
        /\ memo' \in [Policies -> Memos \union {None}]
        /\ \A q \in Policies \ {p} : memo'[q] = memo[q]
        /\ memo'[p].made = memo'[p].required
    BY <1>10, ManageEffect
  <2>2. /\ next' \in 1..Len(files) /\ (pc' # "manage" => next' = 1)
        /\ snap' \in Versions(objects)
        /\ UNCHANGED <<kueue, cached, events, objects, lister, isOpenShift, owner, setBack>>
    BY <1>10, AdvanceEffect DEF manageNetworkPolicies
  <2>3. pc = "manage" /\ (p # "api" => next > 1)
    BY <1>10, <1>a DEF manageNetworkPolicies, NetworkTypes
  <2> HIDE DEF p
  <2>4. NetworkTypes'
    BY <1>a, <2>1, <2>2 DEF NetworkTypes
  <2>5. ApiAllows' /\ MemoTrue'
    BY <1>a, <2>1 DEF ApiAllows, MemoTrue
  <2>6. ASSUME ~ setBack' PROVE Orderly'
    <3>1. OwnersSynced /\ ApiFirst /\ PastApi /\ owner \in Nat
      BY <1>a, <2>2, <2>6 DEF Orderly, NetworkTypes
    <3>2. Living' = Living /\ Living \subseteq {objects} /\ owner <= objects
      BY <1>a, <2>2 DEF Living, NetworkTypes
    <3>3. OwnersSynced'
      BY <2>1, <2>2, <3>1 DEF OwnersSynced
    \* A sync for a former object finds nothing that a living one owns.
    <3>4. CASE owner \notin Living
      <4>1. ASSUME NEW u \in Living
            PROVE  /\ \A q \in Policies : live'[q] # Absent => live'[q].owner # u
                   /\ ~ Allows(lister', u)
        <5>1. u = objects /\ owner < u
          BY <1>a, <3>2, <3>4, <4>1 DEF NetworkTypes
        <5>2. /\ \A q \in Policies : live'[q] # Absent =>
                    live'[q].owner \in Nat /\ live'[q].owner <= owner
              /\ \A q \in Policies : lister'[q] # Absent =>
                    lister'[q].owner \in Nat /\ lister'[q].owner <= owner
          BY <2>2, <2>4, <3>3 DEF OwnersSynced, NetworkTypes, MaybeOwned, Owned
        <5> QED
          BY <1>a, <3>1, <5>1, <5>2 DEF Allows, NetworkTypes
      <4> QED
        BY <2>2, <3>2, <3>3, <3>4, <4>1 DEF Orderly, ApiFirst, PastApi
    <3>5. CASE owner \in Living
      <4>1. Allows(live', owner)
        BY <1>a, <2>1, <2>3, <3>1, <3>5 DEF PastApi, Allows
      <4>2. \A u \in Living : u = owner
        BY <3>2, <3>5
      <4> QED
        BY <2>2, <3>2, <3>3, <4>1, <4>2 DEF Orderly, ApiFirst, PastApi
    <3> QED
      BY <3>4, <3>5
  <2> QED
    BY <2>4, <2>5, <2>6 DEF NetworkInv
<1>11. CASE UserCreate
  <2>1. /\ objects' = objects + 1 /\ objects \in Nat
        /\ kueue' = [uid |-> objects', deleting |-> FALSE, finalizer |-> FALSE]
        /\ Push(kueue')
        /\ UNCHANGED <<cached, live, lister, memo, isOpenShift, pc, snap, next, owner, setBack>>
    BY <1>11, <1>a DEF UserCreate, NetworkTypes
  <2>2. kueue' \in Versions(objects + 1) /\ kueue'.uid = objects + 1
    BY <2>1 DEF Kueues, Versions
  <2>3. Living' = {objects + 1}
    <3>1. None \notin Kueues /\ kueue' \in Kueues
      BY <2>1 DEF Kueues
    <3> QED
      BY <2>2, <3>1 DEF Living
  <2>4. /\ cached \in Versions(objects + 1) /\ snap \in Versions(objects + 1)
        /\ events \in Seq(Versions(objects + 1))
    BY <1>a, <2>1, VersionsGrow DEF NetworkTypes
  <2>5. events' \in Seq(Versions(objects + 1))
    BY <2>1, <2>2, <2>4, PushEffect
  <2>6. NetworkTypes'
    BY <1>a, <2>1, <2>2, <2>4, <2>5 DEF NetworkTypes
  <2>7. ApiAllows' /\ MemoTrue'
    BY <1>a, <2>1 DEF ApiAllows, MemoTrue
  <2>8. ASSUME ~ setBack' PROVE Orderly'
    <3>1. OwnersSynced /\ owner \in Nat /\ owner <= objects
      BY <1>a, <2>1, <2>8 DEF Orderly, NetworkTypes
    <3>2. owner # objects + 1 /\ \A q \in Policies :
             /\ live[q] # Absent => live[q].owner # objects + 1
             /\ lister[q] # Absent => lister[q].owner # objects + 1
      BY <1>a, <2>1, <3>1 DEF OwnersSynced, NetworkTypes, MaybeOwned, Owned
    <3>3. OwnersSynced'
      BY <2>1, <3>1 DEF OwnersSynced
    <3> QED
      BY <1>a, <2>1, <2>3, <3>2, <3>3 DEF Orderly, ApiFirst, PastApi, Allows
  <2> QED
    BY <2>6, <2>7, <2>8 DEF NetworkInv
<1>12. CASE UserEdit
  <2>1. /\ Push(kueue)
        /\ UNCHANGED <<kueue, cached, objects, live, lister, memo, isOpenShift, pc, snap, next,
                       owner, setBack>>
    BY <1>12 DEF UserEdit
  <2>2. events' \in Seq(Versions(objects))
    BY <1>a, <2>1, PushEffect DEF NetworkTypes
  <2> QED
    BY <1>a, <2>1, <2>2, SyncStep DEF NetworkTypes, Orderly, PastApi
<1>13. CASE UserDelete
  <2>1. /\ kueue # None /\ Push(kueue')
        /\ kueue' \in {[kueue EXCEPT !.deleting = TRUE], None}
        /\ UNCHANGED <<cached, objects, live, lister, memo, isOpenShift, pc, snap, next, owner,
                       setBack>>
    BY <1>13 DEF UserDelete
  <2>2. kueue' \in Versions(objects) /\ (kueue' # None => kueue'.uid = kueue.uid)
    BY <1>a, <2>1 DEF NetworkTypes, Versions, Kueues
  <2>3. events' \in Seq(Versions(objects))
    BY <1>a, <2>1, <2>2, PushEffect DEF NetworkTypes
  <2> QED
    BY <1>a, <2>1, <2>2, <2>3, SyncStep DEF NetworkTypes, Orderly, PastApi
<1>14. CASE GarbageCollect
  <2>1. PICK p \in Policies :
           /\ live[p] # Absent /\ live[p].owner \notin Living
           /\ live' = [live EXCEPT ![p] = Absent]
    BY <1>14 DEF GarbageCollect
  <2>2. UNCHANGED <<kueue, cached, events, objects, lister, memo, isOpenShift, pc, snap, next,
                    owner, setBack>>
    BY <1>14 DEF GarbageCollect
  <2>3. /\ live' \in MaybeOwned /\ live'[p] = Absent
        /\ \A q \in Policies \ {p} : live'[q] = live[q]
    BY <1>a, <2>1 DEF NetworkTypes, MaybeOwned
  <2>4. \A u \in Living : Allows(live, u) => Allows(live', u)
    BY <1>a, <2>1, <2>3 DEF Allows
  <2>5. Living' = Living
    BY <2>2 DEF Living
  <2>6. NetworkTypes'
    BY <1>a, <2>2, <2>3 DEF NetworkTypes
  <2>7. ApiAllows' /\ MemoTrue'
    BY <1>a, <2>2, <2>3 DEF ApiAllows, MemoTrue
  <2>8. ASSUME ~ setBack' PROVE Orderly'
    <3>1. OwnersSynced /\ ApiFirst /\ PastApi
      BY <1>a, <2>2, <2>8 DEF Orderly
    <3>2. OwnersSynced'
      BY <2>2, <2>3, <3>1 DEF OwnersSynced
    <3>3. ASSUME NEW u \in Living
          PROVE  /\ \A q \in Policies : live'[q] # Absent /\ live'[q].owner = u => Allows(live', u)
                 /\ Allows(lister, u) => Allows(live', u)
      BY <2>3, <2>4, <3>1 DEF ApiFirst
    <3>4. ApiFirst'
      BY <2>2, <2>5, <3>3 DEF ApiFirst, Allows
    <3>5. PastApi'
      BY <2>2, <2>4, <2>5, <3>1 DEF PastApi
    <3> QED
      BY <3>2, <3>4, <3>5 DEF Orderly
  <2> QED
    BY <2>6, <2>7, <2>8 DEF NetworkInv
<1>15. CASE \E p \in Policies : Enforce(p)
  <2>1. UNCHANGED <<kueue, cached, events, objects, live, lister, memo, isOpenShift, pc, snap,
                    next, owner, setBack>>
    BY <1>15 DEF Enforce
  <2> QED
    BY <1>a, <2>1, SyncStep DEF NetworkTypes, Orderly, PastApi
<1>16. CASE ListerCatchesUp
  <2>1. /\ lister' = live
        /\ UNCHANGED <<kueue, cached, events, objects, live, memo, isOpenShift, pc, snap, next,
                       owner, setBack>>
    BY <1>16 DEF ListerCatchesUp
  <2> QED
    BY <1>a, <2>1, SyncStep DEF NetworkTypes, Orderly, PastApi
<1>17. CASE InformerCatchesUp
  <2>1. PICK n \in {1, Len(events)} :
           cached' = events[n] /\ events' = SubSeq(events, n + 1, Len(events))
    BY <1>17 DEF InformerCatchesUp
  <2>2. /\ events # <<>>
        /\ UNCHANGED <<kueue, objects, live, lister, memo, isOpenShift, pc, snap, next, owner,
                       setBack>>
    BY <1>17 DEF InformerCatchesUp
  <2>3. events \in Seq(Versions(objects)) /\ Len(events) \in Nat \ {0}
    BY <1>a, <2>2, EmptySeq, LenProperties DEF NetworkTypes
  <2>4. n \in 1..Len(events)
    BY <2>3
  <2>5. cached' \in Versions(objects)
    BY <2>1, <2>3, <2>4, ElementOfSeq
  <2>6. events' \in Seq(Versions(objects))
    BY <2>1, <2>3, <2>4, SubSeqProperties
  <2> QED
    BY <1>a, <2>2, <2>5, <2>6, SyncStep DEF NetworkTypes, Orderly, PastApi
<1> QED
  BY <1>1, <1>2, <1>3, <1>4, <1>5, <1>6, <1>7, <1>8, <1>9, <1>10, <1>11, <1>12, <1>13,
     <1>14, <1>15, <1>16, <1>17
     DEF Next, Sync

\* Every behaviour keeps the invariant.
LEMMA NetworkInvariant == Spec => []NetworkInv
<1>1. Init => NetworkInv
  <2> SUFFICES ASSUME Init PROVE NetworkInv
    OBVIOUS
  <2>1. "api" \in Policies /\ 1 \in 1..Len(files)
    BY FilesProperties
  <2>2. /\ live \in MaybeOwned /\ lister \in MaybeOwned
        /\ memo \in [Policies -> Memos \union {None}]
        /\ \A p \in Policies : live[p] = Absent /\ lister[p] = Absent /\ memo[p] = None
    BY DEF Init, MaybeOwned
  <2>3. NetworkTypes
    <3>1. None \in Versions(0) /\ <<>> \in Seq(Versions(0))
      BY EmptySeq DEF Versions
    <3>2. pc = "detect" /\ next = 1 /\ owner = 0 /\ objects = 0
      BY DEF Init
    <3>3. setBack \in BOOLEAN /\ isOpenShift \in BOOLEAN
      BY DEF Init
    <3>4. kueue = None /\ cached = None /\ snap = None /\ events = <<>>
      BY DEF Init
    <3> QED
      BY <2>1, <2>2, <3>1, <3>2, <3>3, <3>4 DEF NetworkTypes
  <2> QED
    BY <2>1, <2>2, <2>3
       DEF Init, NetworkInv, MemoTrue, ApiAllows, Orderly, OwnersSynced, ApiFirst, PastApi, Allows
<1> QED
  BY <1>1, NetworkStep, PTL DEF Spec

(***************************************************************************)
(* The theorems                                                            *)
(***************************************************************************)

\* Access is possible where the first policy is there.
LEMMA ApiReaches == NetworkInv /\ live["api"] # Absent => Reaches(Rules(live))
<1> SUFFICES ASSUME NetworkInv, live["api"] # Absent PROVE Reaches(Rules(live))
  OBVIOUS
<1>1. "api" \in Policies /\ live["api"] \in Owned /\ "apiServerPort" \in live["api"].peers
  BY FilesProperties DEF NetworkInv, NetworkTypes, MaybeOwned, ApiAllows
<1>2. Rules(live)["api"] = live["api"].peers /\ live["api"].peers \in SUBSET Peers
  BY <1>1 DEF Rules, Owned
<1>3. Rules(live)["api"] # Absent
  BY <1>2, NothingAssumption
<1> QED
  BY <1>1, <1>2, <1>3 DEF Reaches, SelectsOperator

\* Where the policies cut the operator off from the API server, those that
\* select it have no living owner: the garbage collector takes them away.  With a
\* Kueue object that lives, the operator's own policies never stand in its way,
\* although a write replaces the owner and may do so under the uid of a former
\* object; unless a sync for the living object was followed by one for a former
\* one (T:1670-1725).
THEOREM CutOffOnlyByGarbageCorrect == Spec => []CutOffOnlyByGarbage
<1>1. NetworkInv => CutOffOnlyByGarbage
  <2> SUFFICES ASSUME NetworkInv, ~ setBack, ~ Reaches(Rules(live)),
                      NEW p \in Policies, live[p] # Absent, SelectsOperator(p)
               PROVE  live[p].owner \notin Living
    BY DEF CutOffOnlyByGarbage
  <2>1. \A u \in Living : ~ Allows(live, u)
    BY ApiReaches DEF Allows
  <2> QED
    BY <2>1 DEF NetworkInv, Orderly, ApiFirst
<1> QED
  BY <1>1, NetworkInvariant, PTL

\* Every copy is current, nothing is left to collect, and a sync would skip
\* every policy of the Kueue object that is there.
Rested ==
    /\ cached = kueue /\ lister = live /\ enforced = Rules(live)
    /\ \A p \in Policies : live[p] # Absent => live[p].owner \in Living
    /\ kueue # None =>
          \A p \in Policies :
              /\ live[p] # Absent
              /\ memo[p] = [required |-> [owner |-> kueue.uid, peers |-> Wanted(p)],
                            made |-> live[p]]

LEMMA RestedSettled == NetworkInv /\ Rested => Settled
<1> SUFFICES ASSUME NetworkInv, Rested PROVE Settled
  OBVIOUS
<1>1. enforced = Rules(live) /\ MemoTrue /\ "api" \in Policies
  BY FilesProperties DEF NetworkInv, Rested
<1>2. CASE kueue = None
  <2>1. \A p \in Policies : live[p] = Absent
    BY <1>2 DEF Rested, Living
  <2> QED
    BY <1>1, <1>2, <2>1 DEF Settled, Reaches, Rules
<1>3. CASE kueue # None
  <2>1. ASSUME NEW p \in Policies
        PROVE  live[p] # Absent /\ live[p] = [owner |-> kueue.uid, peers |-> Wanted(p)]
    <3> DEFINE required == [owner |-> kueue.uid, peers |-> Wanted(p)]
    <3>1. live[p] # Absent /\ memo[p] = [required |-> required, made |-> live[p]]
      BY <1>3 DEF Rested
    <3>2. live[p] \in Owned
      BY <3>1 DEF NetworkInv, NetworkTypes, MaybeOwned
    <3>3. required \in Owned
      BY <1>3, WantedProperties DEF NetworkInv, NetworkTypes, Versions, Kueues, Owned
    <3> HIDE DEF required
    <3>4. memo[p] \in Memos /\ memo[p].required = required /\ memo[p].made = live[p]
      BY <3>1, <3>2, <3>3 DEF Memos
    <3>5. live[p] = required
      BY <1>1, <3>4, NothingAssumption DEF MemoTrue
    <3> QED
      BY <3>1, <3>5 DEF required
  <2>2. Reaches(enforced)
    BY <1>1, <2>1, ApiReaches
  <2> QED
    BY <1>1, <1>3, <2>1, <2>2 DEF Settled
<1> QED
  BY <1>2, <1>3

\* Whatever objects, faults and delays came before: when there is nothing left
\* to collect or to write, the policies are those of the platform that was
\* found, each owned by the Kueue object that lives, or all of them are gone; and
\* the operator is not isolated either way (manageNetworkPolicies, T:1670-1725).
\* The safety half of Converges, and without its exception.
THEOREM RestsOnlyWhenSettled == Spec => [](Rested => Settled)
  BY NetworkInvariant, RestedSettled, PTL
=============================================================================
