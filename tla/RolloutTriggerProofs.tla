------------------------ MODULE RolloutTriggerProofs ------------------------
(* Machine-checked proofs about RolloutTrigger, for every lag of the lister *)
(* and every number of rotations, changes and faults.                       *)
EXTENDS RolloutTrigger, SequenceTheorems, TLAPS

(***************************************************************************)
(* Contents and writes                                                     *)
(***************************************************************************)

\* The contents the operator and the others write.
LEMMA ContentsType ==
    /\ \A b \in 0..(MaxRotations + 1) : [spec |-> "wanted", bundle |-> b] \in Contents
    /\ 0 \in 0..(MaxRotations + 1)
    /\ \A x \in Contents : /\ x.bundle \in 0..(MaxRotations + 1)
                           /\ [x EXCEPT !.spec = "other"] \in Contents
    /\ \A x \in Contents, b \in 0..(MaxRotations + 1) : [x EXCEPT !.bundle = b] \in Contents
BY RolloutAssumption DEF Contents

\* What is live is a content or nothing.
LEMMA LiveType ==
    ASSUME TypeOK
    PROVE  /\ \A o \in Objects : live[o] \in MaybeAbsent
           /\ live["crd"] = versions[Len(versions)]
           /\ lister = versions[1] /\ lister \in MaybeAbsent
           /\ \A o \in Objects : ca[certOf[o]] \in 0..(MaxRotations + 1)
<1>1. versions \in Seq(MaybeAbsent) /\ Len(versions) \in 1..(MaxLag + 1)
  BY DEF TypeOK
<1>2. versions[Len(versions)] \in MaybeAbsent /\ versions[1] \in MaybeAbsent
  BY <1>1, LenProperties, RolloutAssumption
<1>3. Head(versions) = versions[1]
  BY <1>1
<1>4. \A o \in Objects : live[o] = IF o = "crd" THEN versions[Len(versions)] ELSE others[o]
  BY DEF live
<1>5. \A o \in Objects \ {"crd"} : others[o] \in MaybeAbsent
  BY DEF TypeOK, Objects
<1>6. \A o \in Objects : certOf[o] \in Certificates
  BY DEF Certificates
<1>7. \A c \in Certificates : ca[c] \in 0..(MaxRotations + 1)
  BY RolloutAssumption DEF TypeOK
<1>8. "crd" \in Objects
  BY DEF Objects
<1> QED
  BY <1>2, <1>3, <1>4, <1>5, <1>6, <1>7, <1>8 DEF lister

\* A write of the CRD leaves the versions in order before the live one.
LEMMA WriteCRDEffect ==
    ASSUME TypeOK, NEW content \in MaybeAbsent, WriteCRD(content)
    PROVE  /\ versions' \in Seq(MaybeAbsent)
           /\ Len(versions') \in 1..(MaxLag + 1) /\ Len(versions) <= Len(versions')
           /\ \A i \in 1..Len(versions) : versions'[i] = versions[i]
           /\ versions'[Len(versions')] = content
           /\ others' = others
<1>1. versions \in Seq(MaybeAbsent) /\ Len(versions) \in 1..(MaxLag + 1)
  BY DEF TypeOK
<1>2. CASE content = live["crd"]
  BY <1>1, <1>2, LiveType DEF WriteCRD
<1>3. CASE content # live["crd"]
  <2>1. versions' = Append(versions, content) /\ Len(versions) <= MaxLag /\ others' = others
    BY <1>3 DEF WriteCRD
  <2> QED
    BY <1>1, <2>1, AppendProperties, RolloutAssumption
<1> QED
  BY <1>2, <1>3

\* So does a write of any object.
LEMMA WriteEffect ==
    ASSUME TypeOK, NEW o \in Objects, NEW content \in MaybeAbsent, Write(o, content)
    PROVE  /\ versions' \in Seq(MaybeAbsent)
           /\ Len(versions') \in 1..(MaxLag + 1) /\ Len(versions) <= Len(versions')
           /\ \A i \in 1..Len(versions) : versions'[i] = versions[i]
           /\ others' \in [{"webhook", "apiservice"} -> MaybeAbsent]
<1>1. CASE o = "crd"
  BY <1>1, WriteCRDEffect DEF Write, TypeOK
<1>2. CASE o # "crd"
  <2>1. others' = [others EXCEPT ![o] = content] /\ versions' = versions
    BY <1>2 DEF Write
  <2>2. o \in {"webhook", "apiservice"}
    BY <1>2 DEF Objects
  <2>3. others' \in [{"webhook", "apiservice"} -> MaybeAbsent]
    BY <2>1, <2>2 DEF TypeOK
  <2> QED
    BY <2>1, <2>3, RolloutAssumption DEF TypeOK
<1> QED
  BY <1>1, <1>2

(***************************************************************************)
(* The inductive invariant                                                 *)
(***************************************************************************)

\* Where a sync is, it has hashed what it has applied.
HashedSoFar ==
    /\ pc \in {"crd", "applyCRD", "webhook", "deployment"} => hashes["apiservice"] # Absent
    /\ pc \in {"webhook", "deployment"} => hashes["crd"] # Absent
    /\ pc = "deployment" => hashes["webhook"] # Absent

RolloutInv == TypeOK /\ MemoTrue /\ HashedSoFar

\* A step that writes an object, or none, and neither remembers nor syncs.
LEMMA ClusterStep ==
    ASSUME RolloutInv,
           versions' \in Seq(MaybeAbsent),
           Len(versions') \in 1..(MaxLag + 1), Len(versions) <= Len(versions'),
           \A i \in 1..Len(versions) : versions'[i] = versions[i],
           others' \in [{"webhook", "apiservice"} -> MaybeAbsent],
           rotations' \in 0..MaxRotations,
           ca' \in [Certificates -> 1..(rotations' + 1)],
           UNCHANGED <<memo, syncVars, template>>
    PROVE  RolloutInv'
<1>1. memo.at \in 0..Len(versions) /\ memo \in [required: MaybeAbsent, at: 0..Len(versions')]
  BY RolloutAssumption DEF RolloutInv, TypeOK
<1>2. TypeOK'
  BY <1>1 DEF RolloutInv, TypeOK, syncVars
<1>3. MemoTrue'
  BY <1>1, RolloutAssumption DEF RolloutInv, TypeOK, MemoTrue
<1>4. HashedSoFar'
  BY DEF RolloutInv, HashedSoFar, syncVars
<1> QED
  BY <1>2, <1>3, <1>4 DEF RolloutInv

\* A return leaves a sync with nothing.
LEMMA ReturnEffect ==
    ASSUME Return
    PROVE  /\ pc' = "idle" /\ required' = Absent
           /\ hashes' \in [Objects -> MaybeAbsent]
BY DEF Return, MaybeAbsent

\* A step of the sync that hashes what it has written.
LEMMA HashEffect ==
    ASSUME RolloutInv, NEW o \in Objects, NEW content \in Contents, NEW then,
           computeSpecHash(o, content, then)
    PROVE  /\ pc' = then
           /\ hashes' \in [Objects -> MaybeAbsent]
           /\ hashes'[o] # Absent
           /\ \A p \in Objects : hashes[p] # Absent => hashes'[p] # Absent
BY AbsentAssumption DEF computeSpecHash, RolloutInv, TypeOK, MaybeAbsent

\* Every step keeps the invariant.
LEMMA RolloutStep == RolloutInv /\ [Next]_vars => RolloutInv'
<1> SUFFICES ASSUME RolloutInv, [Next]_vars PROVE RolloutInv'
  OBVIOUS
<1> USE RolloutAssumption DEF clusterVars
<1>a. /\ TypeOK /\ MemoTrue /\ HashedSoFar
      /\ versions \in Seq(MaybeAbsent) /\ Len(versions) \in 1..(MaxLag + 1)
  BY DEF RolloutInv, TypeOK
<1>b. {"crd", "webhook", "apiservice"} = Objects
  BY DEF Objects
<1>1. CASE UNCHANGED vars
  BY <1>1, <1>a DEF vars, syncVars, RolloutInv, TypeOK, MemoTrue, HashedSoFar
<1>2. CASE BeginSync
  BY <1>2, <1>a DEF BeginSync, RolloutInv, TypeOK, MemoTrue, HashedSoFar
<1>3. CASE manageAPIService
  <2> DEFINE applied == AppliedAPIService(live["apiservice"])
  <2>1. applied \in Contents
    BY <1>a, <1>b, LiveType, ContentsType, AbsentAssumption
       DEF AppliedAPIService, NoBundle, MaybeAbsent
  <2>2. /\ pc = "apiservice" /\ Write("apiservice", applied)
        /\ computeSpecHash("apiservice", applied, "crd")
        /\ UNCHANGED <<ca, memo, required, template, rotations>>
    BY <1>3 DEF manageAPIService
  <2> HIDE DEF applied
  <2>3. /\ pc' = "crd" /\ hashes' \in [Objects -> MaybeAbsent]
        /\ hashes'["apiservice"] # Absent
    BY <1>b, <2>1, <2>2, HashEffect
  <2>4. /\ versions' = versions
        /\ others' \in [{"webhook", "apiservice"} -> MaybeAbsent]
    BY <1>a, <1>b, <2>1, <2>2, WriteEffect DEF Write, MaybeAbsent
  <2> QED
    BY <1>a, <2>2, <2>3, <2>4 DEF RolloutInv, TypeOK, MemoTrue, HashedSoFar
<1>4. CASE SkipCRD
  <2>1. lister \in Contents
    BY <1>4, <1>a, LiveType DEF SkipCRD, SafeToSkipApply, MaybeAbsent
  <2>2. /\ pc' = "webhook" /\ hashes' \in [Objects -> MaybeAbsent]
        /\ hashes'["crd"] # Absent
        /\ hashes["apiservice"] # Absent => hashes'["apiservice"] # Absent
    BY <1>4, <1>b, <2>1, HashEffect DEF SkipCRD
  <2> QED
    BY <1>4, <1>a, <2>2 DEF SkipCRD, RolloutInv, TypeOK, MemoTrue, HashedSoFar
<1>5. CASE PrepareCRD
  <2>1. RequiredCRD \in Contents
    BY <1>a, LiveType, ContentsType DEF RequiredCRD, NoBundle, MaybeAbsent
  <2>2. required' # Absent /\ required' \in MaybeAbsent
    BY <1>5, <2>1, AbsentAssumption DEF PrepareCRD, MaybeAbsent
  <2> QED
    BY <1>5, <1>a, <2>2 DEF PrepareCRD, RolloutInv, TypeOK, MemoTrue, HashedSoFar
<1>6. CASE applyCustomResourceDefinitionWithCache
  <2>1. required \in Contents /\ required \in MaybeAbsent
    BY <1>6, <1>a DEF applyCustomResourceDefinitionWithCache, TypeOK, MaybeAbsent
  <2>2. /\ versions' \in Seq(MaybeAbsent)
        /\ Len(versions') \in 1..(MaxLag + 1)
        /\ versions'[Len(versions')] = required
        /\ others' = others
    BY <1>6, <1>a, <2>1, WriteCRDEffect DEF applyCustomResourceDefinitionWithCache
  <2>3. /\ pc' = "webhook" /\ hashes' \in [Objects -> MaybeAbsent]
        /\ hashes'["crd"] # Absent
        /\ hashes["apiservice"] # Absent => hashes'["apiservice"] # Absent
    BY <1>6, <1>b, <2>1, HashEffect DEF applyCustomResourceDefinitionWithCache
  <2>4. memo' = [required |-> required, at |-> Len(versions')]
    BY <1>6 DEF applyCustomResourceDefinitionWithCache
  <2>5. /\ memo' \in [required: MaybeAbsent, at: 0..Len(versions')]
        /\ memo'.required = required /\ memo'.at = Len(versions')
    BY <2>1, <2>2, <2>4
  <2>6. required' = Absent /\ Absent \in MaybeAbsent /\ required # Absent
    BY <1>6, <2>1, AbsentAssumption DEF applyCustomResourceDefinitionWithCache, MaybeAbsent
  <2> QED
    BY <1>6, <1>a, <2>2, <2>3, <2>5, <2>6
       DEF applyCustomResourceDefinitionWithCache, RolloutInv, TypeOK, MemoTrue, HashedSoFar
<1>7. CASE manageWebhooks
  <2> DEFINE existing == live["webhook"]
             applied == [spec |-> "wanted",
                         bundle |-> IF existing = Absent THEN NoBundle ELSE existing.bundle]
  <2>1. applied \in Contents
    BY <1>a, <1>b, LiveType, ContentsType DEF NoBundle, MaybeAbsent
  <2>2. /\ pc = "webhook" /\ Write("webhook", applied)
        /\ computeSpecHash("webhook", applied, "deployment")
        /\ UNCHANGED <<ca, memo, required, template, rotations>>
    BY <1>7 DEF manageWebhooks
  <2> HIDE DEF applied
  <2>3. /\ pc' = "deployment" /\ hashes' \in [Objects -> MaybeAbsent]
        /\ hashes'["webhook"] # Absent
        /\ hashes["apiservice"] # Absent => hashes'["apiservice"] # Absent
        /\ hashes["crd"] # Absent => hashes'["crd"] # Absent
    BY <1>b, <2>1, <2>2, HashEffect
  <2>4. /\ versions' = versions
        /\ others' \in [{"webhook", "apiservice"} -> MaybeAbsent]
    BY <1>a, <1>b, <2>1, <2>2, WriteEffect DEF Write, MaybeAbsent
  <2> QED
    BY <1>a, <1>b, <2>2, <2>3, <2>4 DEF RolloutInv, TypeOK, MemoTrue, HashedSoFar
<1>8. CASE manageDeployment \/ SyncFails
  BY <1>8, <1>a, ReturnEffect
     DEF manageDeployment, SyncFails, RolloutInv, TypeOK, MemoTrue, HashedSoFar, MaybeAbsent
<1>9. CASE Restart
  <2>1. versions' = <<live["crd"]>> /\ live["crd"] \in MaybeAbsent
    BY <1>9, <1>a, <1>b, LiveType DEF Restart
  <2>2. versions' \in Seq(MaybeAbsent) /\ Len(versions') = 1
    BY <2>1
  <2>3. memo' \in [required: MaybeAbsent, at: 0..Len(versions')] /\ memo'.at = 0
    BY <1>9, <2>2 DEF Restart, MaybeAbsent
  <2> QED
    BY <1>9, <1>a, <2>2, <2>3, ReturnEffect
       DEF Restart, RolloutInv, TypeOK, MemoTrue, HashedSoFar, MaybeAbsent
<1>10. CASE WatchDeliver
  <2>1. /\ versions' = Tail(versions) /\ versions # <<>> /\ Len(versions) > 1
    BY <1>10, <1>a DEF WatchDeliver
  <2>2. /\ versions' \in Seq(MaybeAbsent) /\ Len(versions') = Len(versions) - 1
        /\ \A i \in 1..Len(versions') : versions'[i] = versions[i + 1]
    BY <1>a, <2>1, HeadTailProperties
  <2>3. memo' = [memo EXCEPT !.at = IF @ = 0 THEN 0 ELSE @ - 1]
        /\ memo \in [required: MaybeAbsent, at: 0..Len(versions)]
    BY <1>10, <1>a DEF WatchDeliver, TypeOK
  <2>4. /\ memo' \in [required: MaybeAbsent, at: 0..Len(versions')]
        /\ memo'.required = memo.required
        /\ memo'.at > 0 => memo.at = memo'.at + 1
    <3> DEFINE at == IF memo.at = 0 THEN 0 ELSE memo.at - 1
    <3>1. memo.at \in 0..Len(versions) /\ memo.required \in MaybeAbsent
      BY <2>3
    <3>2. at \in 0..Len(versions') /\ (at > 0 => memo.at = at + 1)
      BY <1>a, <2>2, <3>1
    <3>3. memo' = [required |-> memo.required, at |-> at]
      BY <2>3
    <3> HIDE DEF at
    <3> QED
      BY <3>1, <3>2, <3>3
  <2>5. MemoTrue'
    <3>1. ASSUME memo'.at > 0
          PROVE  versions'[memo'.at] = memo'.required
      <4>1. memo'.at \in 1..Len(versions') /\ memo.at = memo'.at + 1 /\ memo.at > 0
        BY <3>1, <2>2, <2>4, <1>a
      <4>2. versions'[memo'.at] = versions[memo.at]
        BY <4>1, <2>2
      <4> QED
        BY <4>1, <4>2, <2>4, <1>a DEF MemoTrue
    <3> QED
      BY <3>1 DEF MemoTrue
  <2> QED
    BY <1>10, <1>a, <2>2, <2>4, <2>5
       DEF WatchDeliver, syncVars, RolloutInv, TypeOK, HashedSoFar
<1>11. ASSUME NEW o \in Objects, Inject(o)
       PROVE  RolloutInv'
  <2>1. live[o] \in Contents
    BY <1>11, <1>a, LiveType DEF Inject, Injected, MaybeAbsent
  <2>2. [live[o] EXCEPT !.bundle = ca[certOf[o]]] \in MaybeAbsent
    BY <1>a, <2>1, LiveType, ContentsType DEF MaybeAbsent
  <2> QED
    BY <1>11, <1>a, <2>2, WriteEffect, ClusterStep DEF Inject, TypeOK
<1>12. ASSUME NEW o \in Objects, Disturb(o)
       PROVE  RolloutInv'
  <2>1. live[o] \in Contents
    BY <1>12, <1>a, LiveType DEF Disturb, MaybeAbsent
  <2>2. [live[o] EXCEPT !.spec = "other"] \in MaybeAbsent /\ Absent \in MaybeAbsent
    BY <2>1, ContentsType DEF MaybeAbsent
  <2>3. PICK content \in MaybeAbsent : Write(o, content)
    BY <1>12, <2>2 DEF Disturb
  <2> QED
    BY <1>12, <1>a, <2>3, WriteEffect, ClusterStep DEF Disturb, TypeOK
<1>13. ASSUME NEW c \in Certificates, Rotate(c)
       PROVE  RolloutInv'
  <2>1. /\ rotations' = rotations + 1 /\ rotations' \in 0..MaxRotations
        /\ ca' = [ca EXCEPT ![c] = rotations + 2]
        /\ UNCHANGED <<versions, others, memo, syncVars, template>>
    BY <1>13, <1>a DEF Rotate, TypeOK
  <2>2. ca \in [Certificates -> 1..(rotations + 1)] /\ rotations \in Nat
    BY <1>a DEF TypeOK
  <2>3. ca' \in [Certificates -> 1..(rotations' + 1)]
    BY <2>1, <2>2
  <2> QED
    BY <1>a, <2>1, <2>3, ClusterStep DEF TypeOK
<1> QED
  BY <1>1, <1>2, <1>3, <1>4, <1>5, <1>6, <1>7, <1>8, <1>9, <1>10, <1>11, <1>12, <1>13
     DEF Next, Sync

\* Every behaviour keeps the invariant.
LEMMA RolloutInvariant == Spec => []RolloutInv
<1>1. Init => RolloutInv
  <2> SUFFICES ASSUME Init PROVE RolloutInv
    OBVIOUS
  <2>1. /\ versions \in Seq(MaybeAbsent) /\ Len(versions) = 1
        /\ 1 \in 1..(MaxLag + 1) /\ 0 \in 0..MaxRotations /\ 1 \in 1..(0 + 1)
    BY RolloutAssumption DEF Init, MaybeAbsent
  <2> QED
    BY <2>1 DEF Init, RolloutInv, TypeOK, MemoTrue, HashedSoFar, MaybeAbsent
<1> QED
  BY <1>1, RolloutStep, PTL DEF Spec

(***************************************************************************)
(* The theorems                                                            *)
(***************************************************************************)

\* Every variable keeps its type, and the Deployment is written with a hash of
\* every object, whichever way the sync took (T:598-735).
THEOREM TypeCorrect == Spec => []TypeOK
<1>1. RolloutInv => TypeOK
  BY DEF RolloutInv
<1> QED
  BY <1>1, RolloutInvariant, PTL

\* What the resource cache remembers of the CRD is what that version holds,
\* however far the lister is behind and whoever wrote since.
THEOREM MemoTrueCorrect == Spec => []MemoTrue
<1>1. RolloutInv => MemoTrue
  BY DEF RolloutInv
<1> QED
  BY <1>1, RolloutInvariant, PTL

\* An apply of the CRD that is skipped hashes what it would have written: the
\* lister's copy, which stands for it, is the required CRD.
SkipHashesRequired == [][SkipCRD => hashes'["crd"] = RequiredCRD]_vars
THEOREM SkipHashesRequiredCorrect == Spec => SkipHashesRequired
<1>1. RolloutInv /\ SkipCRD => hashes'["crd"] = RequiredCRD
  <2> SUFFICES ASSUME RolloutInv, SkipCRD PROVE hashes'["crd"] = RequiredCRD
    OBVIOUS
  <2>1. lister = versions[1] /\ memo.at = 1 /\ memo.required = RequiredCRD
    BY LiveType DEF RolloutInv, SkipCRD, SafeToSkipApply
  <2>2. lister = RequiredCRD
    BY <2>1 DEF RolloutInv, MemoTrue
  <2> QED
    BY <2>2 DEF SkipCRD, computeSpecHash, RolloutInv, TypeOK, Objects
<1>2. RolloutInv => [SkipCRD => hashes'["crd"] = RequiredCRD]_vars
  BY <1>1
<1> QED
  BY <1>2, RolloutInvariant, PTL DEF SkipHashesRequired

(***************************************************************************)
(* No rollout without a cause                                              *)
(***************************************************************************)

\* Objects and template are settled, the lister is up to date, and a sync that
\* is on its way has hashed and prepared nothing older.
Stable ==
    /\ Settled /\ Len(versions) = 1
    /\ \A o \in Objects : hashes[o] \in {Absent, live[o]}
    /\ required \in {Absent, live["crd"]}

\* A CA certificate is issued, or another client writes or deletes an object.
Cause == (\E o \in Objects : Disturb(o)) \/ (\E c \in Certificates : Rotate(c))

\* Every other step leaves the cluster as it is.
LEMMA StableStep ==
    ASSUME RolloutInv, Stable, [Next]_vars, ~ Cause
    PROVE  Stable' /\ template' = template
<1> USE RolloutAssumption DEF clusterVars
<1>a. /\ TypeOK /\ HashedSoFar
      /\ versions \in Seq(MaybeAbsent) /\ Len(versions) = 1
      /\ template = live
  BY DEF RolloutInv, TypeOK, Stable, Settled
<1>b. {"crd", "webhook", "apiservice"} = Objects
  BY DEF Objects
<1>c. \A o \in Objects : live[o] = [spec |-> "wanted", bundle |-> ca[certOf[o]]]
  BY DEF Stable, Settled
<1>d. \A o \in Objects : live[o] \in Contents /\ live[o] # Absent /\ live[o].spec = "wanted"
  <2> SUFFICES ASSUME NEW o \in Objects
               PROVE  live[o] \in Contents /\ live[o] # Absent /\ live[o].spec = "wanted"
    OBVIOUS
  <2>1. live[o] = [spec |-> "wanted", bundle |-> ca[certOf[o]]]
    BY <1>c
  <2>2. ca[certOf[o]] \in 0..(MaxRotations + 1)
    BY <1>a, LiveType
  <2>3. live[o] \in Contents
    BY <2>1, <2>2, ContentsType
  <2> QED
    BY <2>1, <2>3, AbsentAssumption
<1>e. lister = live["crd"] /\ live["crd"] = versions[1]
  BY <1>a, LiveType
<1>f. /\ live["webhook"] = others["webhook"] /\ live["apiservice"] = others["apiservice"]
  BY <1>b DEF live
<1>g. /\ hashes \in [Objects -> MaybeAbsent]
      /\ \A o \in Objects : hashes[o] \in {Absent, live[o]}
      /\ required \in {Absent, live["crd"]}
  BY <1>a DEF TypeOK, Stable
<1>h. ASSUME UNCHANGED <<versions, others, ca>>, template' = live,
             \A o \in Objects : hashes'[o] \in {Absent, live[o]},
             required' \in {Absent, live["crd"]}
      PROVE  Stable' /\ template' = template
  <2>1. live' = live
    BY <1>h DEF live
  <2> QED
    BY <1>a, <1>c, <1>h, <2>1 DEF Stable, Settled
<1>i. ASSUME NEW o \in Objects, NEW then, computeSpecHash(o, live[o], then)
      PROVE  \A p \in Objects : hashes'[p] \in {Absent, live[p]}
  BY <1>g, <1>i DEF computeSpecHash
<1>1. CASE UNCHANGED vars
  BY <1>1, <1>a, <1>g, <1>h DEF vars, syncVars
<1>2. CASE BeginSync
  BY <1>2, <1>a, <1>g, <1>h DEF BeginSync
<1>3. CASE manageAPIService
  <2>1. AppliedAPIService(live["apiservice"]) = live["apiservice"]
    BY <1>b, <1>d DEF AppliedAPIService
  <2>2. /\ Write("apiservice", live["apiservice"])
        /\ computeSpecHash("apiservice", live["apiservice"], "crd")
        /\ UNCHANGED <<ca, required, template>>
    BY <1>3, <2>1 DEF manageAPIService
  <2>3. versions' = versions /\ others' = others
    BY <1>a, <1>f, <2>2 DEF Write, TypeOK
  <2> QED
    BY <1>a, <1>b, <1>g, <1>h, <1>i, <2>2, <2>3
<1>4. CASE SkipCRD
  <2>1. computeSpecHash("crd", live["crd"], "webhook")
    BY <1>4, <1>e DEF SkipCRD
  <2> QED
    BY <1>4, <1>a, <1>b, <1>g, <1>h, <1>i, <2>1 DEF SkipCRD
<1>5. CASE PrepareCRD
  <2>1. RequiredCRD = live["crd"]
    <3>1. live["crd"] = [spec |-> "wanted", bundle |-> ca[certOf["crd"]]]
      BY <1>b, <1>c
    <3>2. live["crd"].bundle = ca[certOf["crd"]] /\ lister # Absent
      BY <1>b, <1>d, <1>e, <3>1
    <3> QED
      BY <1>e, <3>1, <3>2 DEF RequiredCRD
  <2> QED
    BY <1>5, <1>a, <1>g, <1>h, <2>1 DEF PrepareCRD
<1>6. CASE applyCustomResourceDefinitionWithCache
  <2>1. required = live["crd"]
    BY <1>6, <1>a, <1>g DEF applyCustomResourceDefinitionWithCache, TypeOK
  <2>2. /\ UNCHANGED <<versions, others, ca, template>>
        /\ computeSpecHash("crd", live["crd"], "webhook") /\ required' = Absent
    BY <1>6, <2>1 DEF applyCustomResourceDefinitionWithCache, WriteCRD
  <2> QED
    BY <1>a, <1>b, <1>h, <1>i, <2>2
<1>7. CASE manageWebhooks
  <2> DEFINE existing == live["webhook"]
             applied == [spec |-> "wanted",
                         bundle |-> IF existing = Absent THEN NoBundle ELSE existing.bundle]
  <2>1. applied = live["webhook"]
    <3>1. live["webhook"] = [spec |-> "wanted", bundle |-> ca[certOf["webhook"]]]
      BY <1>b, <1>c
    <3>2. live["webhook"].bundle = ca[certOf["webhook"]] /\ live["webhook"] # Absent
      BY <1>b, <1>d, <3>1
    <3> QED
      BY <3>1, <3>2
  <2>2. /\ Write("webhook", live["webhook"])
        /\ computeSpecHash("webhook", live["webhook"], "deployment")
        /\ UNCHANGED <<ca, required, template>>
    BY <1>7, <2>1 DEF manageWebhooks
  <2>3. versions' = versions /\ others' = others
    BY <1>a, <1>f, <2>2 DEF Write, TypeOK
  <2> QED
    BY <1>a, <1>b, <1>g, <1>h, <1>i, <2>2, <2>3
<1>8. CASE manageDeployment
  <2>1. /\ template' = hashes /\ Return /\ UNCHANGED <<versions, others, ca>>
    BY <1>8 DEF manageDeployment
  <2>2. \A o \in Objects : hashes[o] = live[o]
    BY <1>8, <1>a, <1>g DEF manageDeployment, TypeOK
  <2>3. hashes = live
    BY <1>g, <2>2 DEF live
  <2> QED
    BY <1>h, <2>1, <2>3 DEF Return
<1>9. CASE SyncFails
  BY <1>9, <1>a, <1>h DEF SyncFails, Return
<1>10. CASE Restart
  <2>1. versions = <<live["crd"]>>
    BY <1>a, <1>e
  <2> QED
    BY <1>10, <1>a, <1>h, <2>1 DEF Restart, Return
<1>11. ~ WatchDeliver /\ ~ \E o \in Objects : Inject(o)
  <2>1. ~ WatchDeliver
    BY <1>a DEF WatchDeliver
  <2>2. ASSUME NEW o \in Objects PROVE live[o].bundle = ca[certOf[o]]
    <3>1. live[o] = [spec |-> "wanted", bundle |-> ca[certOf[o]]]
      BY <1>c
    <3> QED
      BY <3>1
  <2>3. \A o \in Objects : Injected(o)
    BY <2>2 DEF Injected
  <2> QED
    BY <2>1, <2>3 DEF Inject
<1>12. ~ (\E o \in Objects : Disturb(o)) /\ ~ \E c \in Certificates : Rotate(c)
  BY DEF Cause
<1> QED
  BY <1>1, <1>2, <1>3, <1>4, <1>5, <1>6, <1>7, <1>8, <1>9, <1>10, <1>11, <1>12
     DEF Next, Sync

\* Once objects and template have settled, nothing but a new CA certificate or
\* a write of another client restarts the operand again: no sync, skipped or
\* applied, no failed one, no restart of the operator with its empty cache and
\* no write of the injector changes the template ("causes rollout loops", T:607).
NoRolloutWithoutCause ==
    [][Stable /\ ~ Cause => Stable' /\ template' = template]_vars
THEOREM NoRolloutWithoutCauseCorrect == Spec => NoRolloutWithoutCause
<1>1. RolloutInv /\ [Next]_vars =>
         [Stable /\ ~ Cause => Stable' /\ template' = template]_vars
  BY StableStep
<1> QED
  BY <1>1, RolloutInvariant, PTL DEF Spec, NoRolloutWithoutCause
=============================================================================
