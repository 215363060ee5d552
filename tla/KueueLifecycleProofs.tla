------------------------ MODULE KueueLifecycleProofs ------------------------
(* Machine-checked proofs about KueueLifecycle, for every value of its      *)
(* constants.                                                               *)
EXTENDS KueueLifecycle, TLAPS

(***************************************************************************)
(* Type correctness                                                        *)
(***************************************************************************)

\* The initial state is well typed.
LEMMA TypeInit == Init => TypeOK
BY BoundsAssumption
   DEF Init, TypeOK, Steps, NoStatus, StatusKinds, Groups, CertSecrets

\* Patching the finalizer, editing and deleting make versions of the same object.
LEMMA KueueUpdates ==
    ASSUME NEW k \in Kueue
    PROVE  /\ WithFinalizer(k) \in Kueue /\ WithFinalizer(k).gen = k.gen
           /\ Fin(WithFinalizer(k)) /\ (Del(WithFinalizer(k)) <=> Del(k))
           /\ WithoutFinalizer(k) \in Kueue /\ WithoutFinalizer(k).gen = k.gen
           /\ ~Fin(WithoutFinalizer(k)) /\ (Del(WithoutFinalizer(k)) <=> Del(k))
<1>1. /\ k.uid \in Uids /\ k.gen \in Gens
      /\ k.meta \in SUBSET {"deletionTimestamp", "finalizer"}
  BY DEF Kueue
<1>2. /\ WithFinalizer(k) = [uid |-> k.uid, gen |-> k.gen, meta |-> k.meta \union {"finalizer"}]
      /\ WithoutFinalizer(k) = [uid |-> k.uid, gen |-> k.gen, meta |-> k.meta \ {"finalizer"}]
  BY DEF WithFinalizer, WithoutFinalizer, Kueue
<1> QED
  BY <1>1, <1>2 DEF Kueue, Fin, Del

\* An edit within the bound makes a version.
LEMMA EditType ==
    ASSUME NEW k \in Kueue, k.gen < MaxGen
    PROVE  LET e == [k EXCEPT !.gen = k.gen + 1]
           IN  e \in Kueue /\ e.gen <= MaxGen /\ (Del(e) <=> Del(k)) /\ (Fin(e) <=> Fin(k))
<1>1. /\ k.uid \in Uids /\ k.gen \in Gens
      /\ k.meta \in SUBSET {"deletionTimestamp", "finalizer"}
  BY DEF Kueue
<1>2. k.gen + 1 \in Gens /\ k.gen + 1 <= MaxGen
  BY <1>1, BoundsAssumption DEF Gens
<1>3. [k EXCEPT !.gen = k.gen + 1] = [uid |-> k.uid, gen |-> k.gen + 1, meta |-> k.meta]
  BY DEF Kueue
<1> QED
  BY <1>1, <1>2, <1>3 DEF Kueue, Del, Fin

\* Marking for deletion makes a version that is being deleted.
LEMMA DeletedType ==
    ASSUME NEW k \in Kueue, k.gen <= MaxGen
    PROVE  Deleted(k) \in Kueue /\ Del(Deleted(k)) /\ (Fin(Deleted(k)) <=> Fin(k))
<1>1. /\ k.uid \in Uids /\ k.gen \in Gens
      /\ k.meta \in SUBSET {"deletionTimestamp", "finalizer"}
  BY DEF Kueue
<1>2. k.gen + 1 \in Gens
  BY <1>1, BoundsAssumption DEF Gens
<1>3. Deleted(k) = [uid |-> k.uid, gen |-> k.gen + 1, meta |-> k.meta \union {"deletionTimestamp"}]
  BY DEF Deleted
<1> QED
  BY <1>1, <1>2, <1>3 DEF Kueue, Del, Fin

\* A new watch event keeps events a sequence of versions.
LEMMA PushType ==
    ASSUME TypeOK, NEW v \in Kueue \union {NoCR}, Push(v)
    PROVE  events' \in Seq(Kueue \union {NoCR})
BY DEF Push, TypeOK

\* What sync writes for a group is well typed.
LEMMA RequiredType ==
    ASSUME TypeOK, pc # "idle", NEW g \in Groups
    PROVE  Required(g) \in Written
<1>1. snap \in Kueue /\ owner \in 0..MaxUid /\ annGen \in 0..(MaxGen + 1)
  BY DEF TypeOK
<1>2. snap.uid \in 0..MaxUid /\ snap.gen \in 0..(MaxGen + 1)
  BY <1>1, BoundsAssumption DEF Kueue, Uids, Gens
<1>3. 0 \in 0..MaxUid /\ 0 \in 0..(MaxGen + 1)
  BY BoundsAssumption
<1>4. /\ Required(g).owner \in 0..MaxUid
      /\ Required(g).gen \in 0..(MaxGen + 1)
      /\ Required(g).ann \in 0..(MaxGen + 1)
  BY <1>1, <1>2, <1>3 DEF Required
<1> QED
  BY <1>4 DEF Required, Written

\* A status write keeps status and events well typed.
LEMMA StatusType ==
    ASSUME TypeOK, NEW s \in [kind: StatusKinds, gen: 0..(MaxGen + 1)], updateKueueStatus(s)
    PROVE  /\ status' \in [kind: StatusKinds, gen: 0..(MaxGen + 1)]
           /\ events' \in Seq(Kueue \union {NoCR})
<1>1. CASE cr = NoCR \/ status = s
  BY <1>1 DEF updateKueueStatus, TypeOK
<1>2. CASE ~(cr = NoCR \/ status = s)
  <2>1. status' = s /\ Push(cr) /\ cr \in Kueue \union {NoCR}
    BY <1>2 DEF updateKueueStatus, TypeOK
  <2> QED
    BY <2>1, PushType
<1> QED
  BY <1>1, <1>2

\* Every step of the reconciler keeps the types.
LEMMA TypeReconciler == TypeOK /\ Reconciler => TypeOK'
<1> SUFFICES ASSUME TypeOK, Reconciler PROVE TypeOK'
  OBVIOUS
<1> USE BoundsAssumption, NoCRAssumption
<1>1. CASE BeginSync
  BY <1>1 DEF BeginSync, TypeOK, crVars, watchVars, operandVars, clusterVars, Steps,
              Kueue, Uids, Gens
<1>2. CASE CertManagerMissing
  <2>1. [kind |-> "CertManagerMissing", gen |-> 0] \in [kind: StatusKinds, gen: 0..(MaxGen + 1)]
    BY DEF StatusKinds
  <2> QED
    BY <1>2, <2>1, StatusType
       DEF CertManagerMissing, TypeOK, locals, operandVars, clusterVars
<1>3. CASE FinalizerPresent
  BY <1>3 DEF FinalizerPresent, AfterAddFinalizer, TypeOK, crVars, watchVars, operandVars,
              clusterVars, Steps, CleanupSteps, ApplySteps, Kueue, Gens
<1>4. CASE AddFinalizer
  <2>1. /\ cr \in Kueue
        /\ cr' = WithFinalizer(cr) /\ snap' = cr'
        /\ cached' \in {cr', cached}
        /\ Push(cr')
        /\ annGen' = cr'.gen
        /\ pc' \in {"cleanUpWebhooks", "certs"}
        /\ UNCHANGED <<uids, status, alias, owner, depGen, obj, secrets, cluster, changes,
                       faults>>
    BY <1>4 DEF AddFinalizer, AfterAddFinalizer, TypeOK, operandVars, clusterVars
  <2>2. /\ cr' \in Kueue /\ cr'.gen \in 0..(MaxGen + 1)
        /\ ~Del(cr') => cr'.gen <= MaxGen
    BY <2>1, KueueUpdates DEF TypeOK, Kueue, Gens
  <2>3. events' \in Seq(Kueue \union {NoCR})
    BY <2>1, <2>2, PushType
  <2> QED
    BY <2>1, <2>2, <2>3 DEF TypeOK, Steps, CleanupSteps, ApplySteps
<1>5. CASE AddFinalizerNotFound
  BY <1>5 DEF AddFinalizerNotFound, Return, TypeOK, crVars, watchVars, operandVars,
              clusterVars, Steps
<1>6. ASSUME NEW step \in Steps, NEW g \in Groups, NEW next \in Steps,
             CleanUp(step, g, next), step # "idle"
      PROVE  TypeOK'
  BY <1>6 DEF CleanUp, TypeOK, crVars, watchVars, locals, clusterVars
<1>7. CASE cleanUpResources
  <2>1. /\ obj' \in [Groups -> Written \union {Absent}]
        /\ secrets' \in SUBSET CertSecrets
        /\ UNCHANGED <<cr, uids, status, cached, events, cluster, changes, faults>>
    BY <1>7 DEF cleanUpResources, TypeOK, crVars, watchVars, clusterVars
  <2>2. \/ pc' = "removeFinalizer" /\ UNCHANGED <<snap, alias, owner, depGen, annGen>>
        \/ Return
    BY <1>7 DEF cleanUpResources, locals
  <2>3. pc = "cleanUpResources"
    BY <1>7 DEF cleanUpResources
  <2> QED
    BY <2>1, <2>2, <2>3 DEF Return, TypeOK, Steps, CleanupSteps
<1>8. CASE RemoveFinalizer
  <2>1. /\ cr \in Kueue
        /\ cr' = IF Del(cr) THEN NoCR ELSE WithoutFinalizer(cr)
        /\ cached' \in {WithoutFinalizer(cr), cached}
        /\ Push(cr')
        /\ Return
        /\ UNCHANGED <<uids, status, obj, secrets, cluster, changes, faults>>
    BY <1>8 DEF RemoveFinalizer, TypeOK, operandVars, clusterVars
  <2>2. /\ cr' \in Kueue \union {NoCR} /\ cached' \in Kueue \union {NoCR}
        /\ cr' # NoCR /\ ~Del(cr') => cr'.gen <= MaxGen
    BY <2>1, KueueUpdates DEF TypeOK
  <2>3. events' \in Seq(Kueue \union {NoCR})
    BY <2>1, <2>2, PushType
  <2> QED
    BY <2>1, <2>2, <2>3 DEF TypeOK, Return, Steps
<1>9. CASE RemoveFinalizerSkipped
  BY <1>9 DEF RemoveFinalizerSkipped, Return, TypeOK, crVars, watchVars, operandVars,
              clusterVars, Steps
<1>10. ASSUME NEW g \in Groups, NEW next \in Steps, Manage(g, next)
       PROVE  TypeOK'
  <2>1. Required(g) \in Written
    BY <1>10, RequiredType DEF Manage, Groups
  <2> QED
    BY <1>10, <2>1 DEF Manage, TypeOK, crVars, watchVars, locals, clusterVars, Groups
<1>11. CASE WaitForCertificateReady
  BY <1>11 DEF WaitForCertificateReady, TypeOK, crVars, watchVars, locals, operandVars,
               clusterVars, Steps, ApplySteps, PostWaitSteps
<1>12. CASE WaitTimeout
  BY <1>12 DEF WaitTimeout, Fault, Return, TypeOK, crVars, watchVars, operandVars,
               clusterVars, Steps
<1>13. CASE CertManagerCallFails
  BY <1>13 DEF CertManagerCallFails, Return, TypeOK, crVars, watchVars, operandVars,
               clusterVars, Steps
<1>14. CASE ReRead
  BY <1>14 DEF ReRead, Return, TypeOK, crVars, watchVars, operandVars, clusterVars,
               Steps, ApplySteps, PostWaitSteps
<1>15. CASE TLSProfileSupported
  BY <1>15 DEF TLSProfileSupported, TypeOK, crVars, watchVars, locals, operandVars,
               clusterVars, Steps, ApplySteps, PostWaitSteps
<1>16. CASE TLSProfileUnsupported
  <2>1. [kind |-> "UnsupportedTLS", gen |-> 0] \in [kind: StatusKinds, gen: 0..(MaxGen + 1)]
    BY DEF StatusKinds
  <2> QED
    BY <1>16, <2>1, StatusType
       DEF TLSProfileUnsupported, Return, TypeOK, operandVars, clusterVars, Steps
<1>17. CASE ReportStatus
  <2>1. [kind |-> "Synced", gen |-> depGen] \in [kind: StatusKinds, gen: 0..(MaxGen + 1)]
    BY DEF StatusKinds, TypeOK
  <2> QED
    BY <1>17, <2>1, StatusType
       DEF ReportStatus, Return, TypeOK, operandVars, clusterVars, Steps
<1> QED
  <2> USE DEF Steps, CleanupSteps, ApplySteps, PostWaitSteps, Groups
  <2>1. CASE cleanUpWebhooks \/ cleanUpCertificatesAndIssuers \/ cleanUpClusterRoles
             \/ cleanUpClusterRoleBindings
    BY <1>6, <2>1 DEF cleanUpWebhooks, cleanUpCertificatesAndIssuers, cleanUpClusterRoles,
                      cleanUpClusterRoleBindings
  <2>2. CASE manageCertificates \/ manageConfigMap \/ manageBase \/ manageCustomResources
             \/ manageClusterRoles \/ manageClusterRoleBindings \/ manageWebhooks
             \/ manageDeployment
    BY <1>10, <2>2 DEF manageCertificates, manageConfigMap, manageBase,
       manageCustomResources, manageClusterRoles, manageClusterRoleBindings,
       manageWebhooks, manageDeployment
  <2> QED
    BY <1>1, <1>2, <1>3, <1>4, <1>5, <1>7, <1>8, <1>9, <1>11, <1>12, <1>13, <1>14, <1>15,
       <1>16, <1>17, <2>1, <2>2 DEF Reconciler

\* Every fault keeps the types.
LEMMA TypeFaults == TypeOK /\ Faults => TypeOK'
<1> SUFFICES ASSUME TypeOK, Faults PROVE TypeOK'
  OBVIOUS
<1> USE BoundsAssumption, NoCRAssumption
<1>1. CASE CallFails
  BY <1>1 DEF CallFails, Fault, Return, TypeOK, crVars, watchVars, operandVars,
              clusterVars, Steps
<1>2. CASE PatchAnswerLost
  <2>1. /\ cr \in Kueue
        /\ cr' \in {NoCR, WithFinalizer(cr), WithoutFinalizer(cr)}
        /\ Push(cr')
        /\ Return
        /\ Fault
        /\ UNCHANGED <<uids, status, cached, obj, secrets, cluster, changes>>
    BY <1>2 DEF PatchAnswerLost, TypeOK, operandVars, clusterVars
  <2>2. /\ cr' \in Kueue \union {NoCR}
        /\ cr' # NoCR /\ ~Del(cr') => cr'.gen <= MaxGen
    BY <2>1, KueueUpdates DEF TypeOK
  <2>3. events' \in Seq(Kueue \union {NoCR})
    BY <2>1, <2>2, PushType
  <2> QED
    BY <2>1, <2>2, <2>3 DEF TypeOK, Return, Fault, Steps
<1>3. CASE CleanUpResourcesFails
  BY <1>3 DEF CleanUpResourcesFails, Fault, Return, TypeOK, crVars, watchVars,
              clusterVars, Steps, Groups
<1>4. CASE Restart
  BY <1>4 DEF Restart, Fault, Return, TypeOK, crVars, operandVars, clusterVars, Steps
<1> QED
  BY <1>1, <1>2, <1>3, <1>4 DEF Faults

\* Every step of the environment keeps the types.
LEMMA TypeEnvironment == TypeOK /\ Environment => TypeOK'
<1> SUFFICES ASSUME TypeOK, Environment PROVE TypeOK'
  OBVIOUS
<1> USE BoundsAssumption, NoCRAssumption
<1>1. CASE UserCreate
  BY <1>1 DEF UserCreate, Push, TypeOK, locals, operandVars, clusterVars, NoStatus,
              StatusKinds, Kueue, Uids, Gens, Del
<1>2. CASE UserEdit
  <2>1. /\ cr \in Kueue /\ cr.gen < MaxGen
        /\ cr' = [cr EXCEPT !.gen = cr.gen + 1]
        /\ Push(cr')
    BY <1>2 DEF UserEdit, TypeOK
  <2>2. cr' \in Kueue /\ cr'.gen <= MaxGen
    BY <2>1, EditType
  <2>3. events' \in Seq(Kueue \union {NoCR})
    BY <2>1, <2>2, PushType
  <2> QED
    BY <1>2, <2>2, <2>3 DEF UserEdit, TypeOK, locals, operandVars, clusterVars
<1>3. CASE UserDelete
  <2>1. /\ cr \in Kueue /\ cr.gen <= MaxGen
        /\ cr' = IF Fin(cr) THEN Deleted(cr) ELSE NoCR
        /\ Push(cr')
    BY <1>3 DEF UserDelete, TypeOK
  <2>2. /\ cr' \in Kueue \union {NoCR}
        /\ cr' # NoCR => Del(cr')
    BY <2>1, DeletedType
  <2>3. events' \in Seq(Kueue \union {NoCR})
    BY <2>1, <2>2, PushType
  <2> QED
    BY <1>3, <2>2, <2>3 DEF UserDelete, TypeOK, locals, operandVars, clusterVars
<1>4. CASE WatchDeliver
  BY <1>4 DEF WatchDeliver, TypeOK, crVars, operandVars, clusterVars
<1>5. CASE Relist
  BY <1>5 DEF Relist, TypeOK, crVars, operandVars, clusterVars
<1>6. CASE IssueCertificate
  BY <1>6 DEF IssueCertificate, TypeOK, crVars, watchVars, locals, clusterVars
<1>7. CASE GarbageCollect
  BY <1>7 DEF GarbageCollect, TypeOK, crVars, watchVars, locals, clusterVars, Owned
<1>8. CASE ChangeCertManager
  BY <1>8 DEF ChangeCertManager, TypeOK, crVars, watchVars, locals, Groups, Toggled,
              ClusterFacts
<1>9. CASE ChangeTLSProfile
  BY <1>9 DEF ChangeTLSProfile, TypeOK, crVars, watchVars, locals, operandVars,
              Toggled, ClusterFacts
<1> QED
  BY <1>1, <1>2, <1>3, <1>4, <1>5, <1>6, <1>7, <1>8, <1>9 DEF Environment, User

\* Every variable keeps its type, whatever the user, the faults and the
\* interleaving: in particular a running sync always has a Kueue object in hand.
THEOREM TypeCorrect == Spec => []TypeOK
<1>1. TypeOK /\ [Next]_vars => TypeOK'
  <2> SUFFICES ASSUME TypeOK, [Next]_vars PROVE TypeOK'
    OBVIOUS
  <2>1. CASE UNCHANGED vars
    BY <2>1 DEF vars, TypeOK
  <2> QED
    BY <2>1, TypeReconciler, TypeFaults, TypeEnvironment DEF Next
<1> QED
  BY <1>1, TypeInit, PTL DEF Spec

(***************************************************************************)
(* The finalizer guards the operand                                        *)
(***************************************************************************)

\* The live object exists and carries the finalizer.
Guarded == cr # NoCR /\ Fin(cr)

\* The part of GuardInv that is about the live object and the informer only.
WatchInv ==
    /\ DeletingHasFinalizer
    /\ \A v \in Kueue : InFlight(v) /\ Fin(v) /\ ~Del(v) => Guarded
    /\ SeenDeletionIsLive
    /\ DeletionIsMonotone

\* The part of SeenFinalizerIsLive that is about sync's snapshot.
SnapInv == pc = "addFinalizer" /\ Fin(snap) /\ ~Del(snap) => Guarded

\* A step that writes no operand object and makes nothing dirty.
Shrinks ==
    /\ \A g \in Groups : obj'[g] = obj[g] \/ obj'[g] = Absent
    /\ Dirty' => Dirty

\* GuardInv, split along who can disturb it.
LEMMA GuardInvParts ==
    ASSUME TypeOK
    PROVE  GuardInv <=> /\ FinalizerGuards /\ WatchInv /\ SnapInv
                        /\ CleanupIsDue /\ CleanupProgress /\ ApplyIsGuarded
<1>1. pc = "addFinalizer" => snap \in Kueue
  BY DEF TypeOK
<1> QED
  BY <1>1 DEF GuardInv, WatchInv, SnapInv, SeenFinalizerIsLive, Guarded

\* The informer's and the live object's part does not depend on anything else.
LEMMA WatchUnchanged ==
    ASSUME WatchInv, UNCHANGED <<cr, cached, events>>
    PROVE  WatchInv' /\ (Guarded' <=> Guarded) /\ (DeletionKnown' <=> DeletionKnown)
BY DEF WatchInv, DeletingHasFinalizer, Deleting, SeenDeletionIsLive, DeletionIsMonotone,
       InFlight, Guarded, DeletionKnown

\* A sync that returns leaves only the first two parts to show.
LEMMA ToIdle ==
    ASSUME TypeOK', FinalizerGuards', WatchInv', pc' = "idle"
    PROVE  GuardInv'
<1>1. SnapInv' /\ CleanupIsDue' /\ CleanupProgress' /\ ApplyIsGuarded'
  BY DEF SnapInv, CleanupIsDue, CleanupProgress, ApplyIsGuarded, CleanupSteps, ApplySteps,
         PostWaitSteps
<1> QED
  BY <1>1 DEF GuardInv, WatchInv, SeenFinalizerIsLive, Guarded

\* A step of somebody else, during or between syncs.
LEMMA SameSync ==
    ASSUME TypeOK, TypeOK', GuardInv, WatchInv', Shrinks, UNCHANGED <<pc, snap>>,
           Guarded => Guarded', DeletionKnown => DeletionKnown'
    PROVE  GuardInv'
<1>1. /\ FinalizerGuards /\ WatchInv /\ SnapInv
      /\ CleanupIsDue /\ CleanupProgress /\ ApplyIsGuarded
  BY GuardInvParts
<1>2. FinalizerGuards' /\ ApplyIsGuarded'
  BY <1>1 DEF FinalizerGuards, ApplyIsGuarded, Shrinks, Guarded
<1>3. SnapInv'
  BY <1>1 DEF SnapInv
<1>4. CleanupIsDue'
  BY <1>1 DEF CleanupIsDue, Shrinks
<1>5. CleanupProgress'
  BY <1>1 DEF CleanupProgress, Shrinks, Groups
<1>6. SeenFinalizerIsLive'
  BY <1>3 DEF WatchInv, SnapInv, SeenFinalizerIsLive, Guarded
<1> QED
  BY <1>2, <1>4, <1>5, <1>6 DEF GuardInv, WatchInv

\* What a new watch event does to the sequence of pending ones.
LEMMA PushIndex ==
    ASSUME TypeOK, NEW v \in Kueue \union {NoCR}, Push(v)
    PROVE  /\ Len(events) \in Nat /\ Len(events') = Len(events) + 1
           /\ \A i \in 1..Len(events) : events'[i] = events[i] /\ events[i] \in Kueue \union {NoCR}
           /\ events'[Len(events) + 1] = v
BY DEF TypeOK, Push

\* A new event adds one version to those in flight, and an overwritten cache another.
LEMMA PushInFlight ==
    ASSUME TypeOK, NEW w \in Kueue \union {NoCR}, Push(w), NEW v \in Kueue, InFlight(v)'
    PROVE  InFlight(v) \/ v = w \/ v = cached'
<1>1. v = cached' \/ \E i \in 1..Len(events') : v = events'[i]
  BY DEF InFlight
<1>2. ASSUME NEW i \in 1..Len(events'), v = events'[i] PROVE InFlight(v) \/ v = w
  <2>1. i \in 1..Len(events) \/ i = Len(events) + 1
    BY PushIndex
  <2> QED
    BY <1>2, <2>1, PushIndex, NoCRAssumption DEF InFlight
<1> QED
  BY <1>1, <1>2

\* A write to the Kueue object, seen from the informer.  The hypotheses say that
\* what the versions in flight claim is still true of the new live object.
LEMMA WatchPush ==
    ASSUME TypeOK, WatchInv, cr' \in Kueue \union {NoCR}, Push(cr'), DeletingHasFinalizer',
           \A v \in Kueue : InFlight(v) /\ Fin(v) /\ ~Del(v) => Guarded',
           \A v \in Kueue : InFlight(v) /\ Del(v) => cr' = NoCR \/ Del(cr'),
           \/ cached' = cached
           \/ /\ cached' \in Kueue
              /\ Fin(cached') /\ ~Del(cached') => Guarded'
              /\ Del(cached') => /\ cr' = NoCR \/ Del(cr')
                                 /\ \A v \in Kueue : InFlight(v) => Del(v)
    PROVE  WatchInv'
<1> USE NoCRAssumption
<1>1. cached \in Kueue \union {NoCR} /\ cached' \in Kueue \union {NoCR}
  BY DEF TypeOK
<1>2. ASSUME NEW v \in Kueue, InFlight(v)'
      PROVE  InFlight(v) \/ v = cr' \/ (v = cached' /\ cached' # cached)
  <2>1. InFlight(v) \/ v = cr' \/ v = cached'
    BY <1>2, PushInFlight
  <2>2. v = cached => InFlight(v)
    BY DEF InFlight
  <2> QED
    BY <2>1, <2>2
<1>3. \A v \in Kueue : InFlight(v)' /\ Fin(v) /\ ~Del(v) => Guarded'
  BY <1>2 DEF Guarded
<1>4. SeenDeletionIsLive'
  BY <1>2 DEF SeenDeletionIsLive
<1>5. \A i \in 1..Len(events) : events[i] # NoCR => events[i] \in Kueue /\ InFlight(events[i])
  BY PushIndex DEF InFlight
<1>6. \A i, j \in 1..Len(events') :
        i < j /\ events'[i] # NoCR /\ events'[j] # NoCR /\ Del(events'[i]) => Del(events'[j])
  <2> SUFFICES ASSUME NEW i \in 1..Len(events'), NEW j \in 1..Len(events'), i < j,
                      events'[i] # NoCR, events'[j] # NoCR, Del(events'[i])
               PROVE  Del(events'[j])
    OBVIOUS
  <2>1. i \in 1..Len(events) /\ events'[i] = events[i]
    BY PushIndex
  <2>2. CASE j \in 1..Len(events)
    BY <2>1, <2>2, PushIndex DEF WatchInv, DeletionIsMonotone
  <2>3. CASE j = Len(events) + 1
    <3>1. events'[j] = cr' /\ cr' # NoCR
      BY <2>3, PushIndex
    <3> QED
      BY <2>1, <3>1, <1>5
  <2> QED
    BY <2>2, <2>3, PushIndex
<1>7. ASSUME cached' # NoCR, Del(cached'), NEW i \in 1..Len(events'), events'[i] # NoCR
      PROVE  Del(events'[i])
  <2>1. CASE i = Len(events) + 1
    <3>1. events'[i] = cr' /\ cr' # NoCR
      BY <1>7, <2>1, PushIndex
    <3>2. cached' = cached => InFlight(cached)
      BY <1>7 DEF InFlight
    <3> QED
      BY <1>1, <1>7, <3>1, <3>2
  <2>2. CASE i \in 1..Len(events)
    <3>1. events'[i] = events[i] /\ events[i] \in Kueue /\ InFlight(events[i])
      BY <1>5, <1>7, <2>2, PushIndex
    <3>2. cached' = cached => Del(events[i])
      BY <1>7, <2>2, <3>1 DEF WatchInv, DeletionIsMonotone
    <3> QED
      BY <1>7, <3>1, <3>2
  <2> QED
    BY <2>1, <2>2, PushIndex
<1>8. DeletionIsMonotone'
  BY <1>6, <1>7 DEF DeletionIsMonotone
<1> QED
  BY <1>3, <1>4, <1>8 DEF WatchInv

\* A write to an object that is known to be deleted leaves it so.
LEMMA PushDeletionKnown ==
    ASSUME TypeOK, DeletionKnown, cr' \in Kueue, Push(cr'), Del(cr'), cached' = cached
    PROVE  DeletionKnown'
<1> SUFFICES ASSUME NEW v \in Kueue, InFlight(v)' PROVE Del(v)
  BY NoCRAssumption DEF DeletionKnown, Deleting
<1>1. InFlight(v) \/ v = cr' \/ v = cached
  BY PushInFlight
<1>2. v = cached => InFlight(v)
  BY NoCRAssumption DEF InFlight
<1> QED
  BY <1>1, <1>2 DEF DeletionKnown

\* The informer stores the next event: nothing new is in flight.
LEMMA WatchDelivered ==
    ASSUME TypeOK, WatchInv, WatchDeliver
    PROVE  WatchInv' /\ (DeletionKnown => DeletionKnown')
<1> USE NoCRAssumption
<1>1. /\ cr' = cr /\ events \in Seq(Kueue \union {NoCR}) /\ events # <<>>
      /\ cached' = Head(events) /\ events' = Tail(events)
  BY DEF WatchDeliver, crVars, TypeOK
<1>2. /\ Len(events) \in Nat /\ Len(events) > 0 /\ Len(events') = Len(events) - 1
      /\ cached' = events[1]
      /\ \A i \in 1..Len(events') : i + 1 \in 1..Len(events) /\ events'[i] = events[i + 1]
  BY <1>1
<1>3. ASSUME NEW v \in Kueue, InFlight(v)' PROVE InFlight(v)
  <2>1. v = cached' \/ \E i \in 1..Len(events') : v = events'[i]
    BY <1>3 DEF InFlight
  <2>2. 1 \in 1..Len(events)
    BY <1>2
  <2> QED
    BY <1>2, <2>1, <2>2 DEF InFlight
<1>4. DeletionIsMonotone'
  <2>1. ASSUME NEW i \in 1..Len(events'), NEW j \in 1..Len(events'), i < j,
               events'[i] # NoCR, events'[j] # NoCR, Del(events'[i])
        PROVE  Del(events'[j])
    <3>1. /\ i + 1 \in 1..Len(events) /\ events'[i] = events[i + 1]
          /\ j + 1 \in 1..Len(events) /\ events'[j] = events[j + 1]
          /\ i + 1 < j + 1
      BY <1>2, <2>1
    <3> QED
      BY <2>1, <3>1 DEF WatchInv, DeletionIsMonotone
  <2>2. ASSUME cached' # NoCR, Del(cached'), NEW i \in 1..Len(events'), events'[i] # NoCR
        PROVE  Del(events'[i])
    <3>1. 1 \in 1..Len(events) /\ i + 1 \in 1..Len(events) /\ 1 < i + 1
      BY <1>2
    <3> QED
      BY <1>2, <2>2, <3>1 DEF WatchInv, DeletionIsMonotone
  <2> QED
    BY <2>1, <2>2 DEF DeletionIsMonotone
<1> QED
  BY <1>1, <1>3, <1>4
     DEF WatchInv, DeletingHasFinalizer, Deleting, SeenDeletionIsLive, DeletionKnown, Guarded

\* After a fresh list the informer holds the live object and nothing else.
LEMMA WatchListed ==
    ASSUME TypeOK, WatchInv, cr' = cr, cached' = cr, events' = <<>>
    PROVE  WatchInv' /\ (DeletionKnown => DeletionKnown') /\ (Guarded => Guarded')
<1>1. \A v \in Kueue : InFlight(v)' => v = cr /\ cr # NoCR
  BY DEF InFlight
<1>2. DeletionIsMonotone'
  BY DEF DeletionIsMonotone
<1> QED
  BY <1>1, <1>2
     DEF WatchInv, DeletingHasFinalizer, Deleting, SeenDeletionIsLive, DeletionKnown, Guarded

\* A step between two apply steps may write whatever it likes: the finalizer is there.
LEMMA WithinApply ==
    ASSUME TypeOK, TypeOK', GuardInv, pc \in ApplySteps, pc' \in ApplySteps,
           UNCHANGED <<cr, cached, events>>
    PROVE  GuardInv'
<1>1. /\ WatchInv' /\ (Guarded' <=> Guarded) /\ Guarded
  BY GuardInvParts, WatchUnchanged DEF ApplyIsGuarded, Guarded
<1>2. FinalizerGuards' /\ ApplyIsGuarded'
  BY <1>1 DEF FinalizerGuards, ApplyIsGuarded, Guarded
<1>3. SnapInv' /\ CleanupIsDue' /\ CleanupProgress'
  BY DEF SnapInv, CleanupIsDue, CleanupProgress, CleanupSteps, ApplySteps, PostWaitSteps
<1> QED
  BY <1>1, <1>2, <1>3 DEF GuardInv, WatchInv, SnapInv, SeenFinalizerIsLive, Guarded

\* A sync that returns without touching the Kueue object and without writing.
LEMMA QuietReturn ==
    ASSUME TypeOK, TypeOK', GuardInv, pc' = "idle", UNCHANGED <<cr, cached, events>>,
           Dirty' => Dirty
    PROVE  GuardInv'
<1>1. WatchInv' /\ (Guarded' <=> Guarded)
  BY GuardInvParts, WatchUnchanged
<1>2. FinalizerGuards'
  BY <1>1 DEF GuardInv, FinalizerGuards, Guarded
<1> QED
  BY <1>1, <1>2, ToIdle

\* A status write changes nothing that matters to the invariant.
LEMMA StatusWrite ==
    ASSUME TypeOK, GuardInv, NEW s, updateKueueStatus(s), UNCHANGED <<cr, cached>>
    PROVE  WatchInv' /\ (Guarded => Guarded') /\ (DeletionKnown => DeletionKnown')
<1>1. WatchInv
  BY GuardInvParts
<1>2. CASE UNCHANGED events
  BY <1>1, <1>2, WatchUnchanged
<1>3. CASE ~UNCHANGED events
  <2>1. cr \in Kueue /\ cr' = cr /\ Push(cr')
    BY <1>3 DEF updateKueueStatus, TypeOK
  <2>2. DeletingHasFinalizer' /\ (Guarded' <=> Guarded)
    BY <1>1 DEF WatchInv, DeletingHasFinalizer, Deleting, Guarded
  <2>3. WatchInv'
    BY <1>1, <2>1, <2>2, WatchPush DEF WatchInv, SeenDeletionIsLive
  <2>4. DeletionKnown => DeletionKnown'
    BY <2>1, PushDeletionKnown DEF DeletionKnown, Deleting
  <2> QED
    BY <2>2, <2>3, <2>4
<1> QED
  BY <1>2, <1>3

\* A step that leaves the operand alone.
LEMMA OperandUnchanged ==
    ASSUME UNCHANGED <<obj, secrets>>
    PROVE  Shrinks /\ (Dirty' <=> Dirty)
BY DEF Shrinks, Dirty

\* One of the four cleanup steps.
LEMMA CleanUpGuard ==
    ASSUME TypeOK, TypeOK', GuardInv, NEW step, NEW g, NEW next, CleanUp(step, g, next),
           <<step, g, next>> \in
             {<<"cleanUpWebhooks", "webhooks", "cleanUpCertificatesAndIssuers">>,
              <<"cleanUpCertificatesAndIssuers", "certs", "cleanUpClusterRoles">>,
              <<"cleanUpClusterRoles", "clusterRoles", "cleanUpClusterRoleBindings">>,
              <<"cleanUpClusterRoleBindings", "clusterRoleBindings", "cleanUpResources">>}
    PROVE  GuardInv'
<1>1. /\ pc = step /\ pc' = next /\ obj' = [obj EXCEPT ![g] = Absent]
      /\ UNCHANGED <<cr, cached, events, snap, secrets>>
  BY DEF CleanUp, crVars, watchVars, locals
<1>2. obj \in [Groups -> Written \union {Absent}] /\ g \in Groups
  BY DEF TypeOK, Groups
<1>3. /\ obj'[g] = Absent
      /\ \A h \in Groups : obj'[h] = obj[h] \/ obj'[h] = Absent
  BY <1>1, <1>2
<1>4. Dirty' => Dirty
  BY <1>1, <1>3 DEF Dirty, Cleaned, Groups
<1>5. WatchInv' /\ (Guarded' <=> Guarded) /\ (DeletionKnown' <=> DeletionKnown)
  BY <1>1, GuardInvParts, WatchUnchanged
<1>6. FinalizerGuards'
  BY <1>4, <1>5 DEF GuardInv, FinalizerGuards, Guarded
<1>7. CleanupIsDue'
  BY <1>1, <1>4, <1>5 DEF GuardInv, CleanupIsDue, CleanupSteps
<1>8. CleanupProgress'
  BY <1>1, <1>3 DEF GuardInv, CleanupProgress, CleanupSteps, Groups
<1>9. SnapInv' /\ ApplyIsGuarded'
  BY <1>1 DEF SnapInv, ApplyIsGuarded, ApplySteps, PostWaitSteps
<1> QED
  BY <1>5, <1>6, <1>7, <1>8, <1>9, GuardInvParts
     DEF GuardInv, WatchInv, SnapInv, SeenFinalizerIsLive, Guarded

\* Every step of the reconciler preserves the invariant.
LEMMA GuardReconciler == TypeOK /\ TypeOK' /\ GuardInv /\ Reconciler => GuardInv'
<1> SUFFICES ASSUME TypeOK, TypeOK', GuardInv, Reconciler PROVE GuardInv'
  OBVIOUS
<1> USE NoCRAssumption
<1>0. /\ FinalizerGuards /\ WatchInv /\ SnapInv
      /\ CleanupIsDue /\ CleanupProgress /\ ApplyIsGuarded
  BY GuardInvParts
<1>1. CASE BeginSync
  <2>1. /\ cached \in Kueue /\ snap' = cached /\ pc' = "addFinalizer"
        /\ UNCHANGED <<cr, cached, events, obj, secrets>>
    BY <1>1 DEF BeginSync, TypeOK, crVars, watchVars, operandVars
  <2>2. WatchInv' /\ (Guarded' <=> Guarded) /\ (DeletionKnown' <=> DeletionKnown)
    BY <1>0, <2>1, WatchUnchanged
  <2>3. FinalizerGuards'
    BY <1>0, <2>1, <2>2, OperandUnchanged DEF FinalizerGuards, Guarded
  <2>4. InFlight(cached)
    BY <2>1 DEF InFlight
  <2>5. SnapInv'
    BY <1>0, <2>1, <2>2, <2>4 DEF SnapInv, WatchInv
  <2>6. CleanupIsDue'
    <3> SUFFICES ASSUME Del(cached) PROVE DeletionKnown \/ ~Dirty
      BY <2>1, <2>2, OperandUnchanged DEF CleanupIsDue, CleanupSteps
    <3>1. CASE cr = NoCR
      BY <1>0, <3>1 DEF FinalizerGuards
    <3>2. CASE cr # NoCR
      <4>1. Deleting
        BY <1>0, <2>1, <2>4, <3>2 DEF WatchInv, SeenDeletionIsLive, Deleting
      <4>2. ASSUME NEW v \in Kueue, InFlight(v) PROVE Del(v)
        BY <1>0, <2>1, <4>2 DEF WatchInv, DeletionIsMonotone, InFlight
      <4> QED
        BY <4>1, <4>2 DEF DeletionKnown
    <3> QED
      BY <3>1, <3>2
  <2>7. CleanupProgress' /\ ApplyIsGuarded'
    BY <2>1 DEF CleanupProgress, ApplyIsGuarded, CleanupSteps, ApplySteps, PostWaitSteps
  <2> QED
    BY <2>2, <2>3, <2>5, <2>6, <2>7
       DEF GuardInv, WatchInv, SnapInv, SeenFinalizerIsLive, Guarded
<1>2. CASE CertManagerMissing
  <2>1. /\ updateKueueStatus([kind |-> "CertManagerMissing", gen |-> 0])
        /\ UNCHANGED <<cr, cached, pc, snap, obj, secrets>>
    BY <1>2 DEF CertManagerMissing, locals, operandVars
  <2>2. WatchInv' /\ (Guarded => Guarded') /\ (DeletionKnown => DeletionKnown')
    BY <2>1, StatusWrite
  <2> QED
    BY <2>1, <2>2, OperandUnchanged, SameSync
<1>3. CASE FinalizerPresent
  <2>1. /\ pc = "addFinalizer" /\ snap' = snap
        /\ Fin(snap) \/ (cr # NoCR /\ Fin(cr))
        /\ pc' = IF Del(snap) THEN "cleanUpWebhooks" ELSE "certs"
        /\ UNCHANGED <<cr, cached, events, obj, secrets>>
    BY <1>3 DEF FinalizerPresent, AfterAddFinalizer, crVars, watchVars, operandVars
  <2>2. WatchInv' /\ (Guarded' <=> Guarded) /\ (DeletionKnown' <=> DeletionKnown)
    BY <1>0, <2>1, WatchUnchanged
  <2>3. FinalizerGuards'
    BY <1>0, <2>1, <2>2, OperandUnchanged DEF FinalizerGuards, Guarded
  <2>4. CleanupIsDue'
    BY <1>0, <2>1, <2>2, OperandUnchanged DEF CleanupIsDue, CleanupSteps
  <2>5. ApplyIsGuarded'
    BY <1>0, <2>1, <2>2 DEF ApplyIsGuarded, SnapInv, Guarded, ApplySteps, PostWaitSteps
  <2>6. SnapInv' /\ CleanupProgress'
    BY <2>1 DEF SnapInv, CleanupProgress, CleanupSteps
  <2> QED
    BY <2>2, <2>3, <2>4, <2>5, <2>6
       DEF GuardInv, WatchInv, SnapInv, SeenFinalizerIsLive, Guarded
<1>4. CASE AddFinalizer
  <2>1. /\ pc = "addFinalizer" /\ cr \in Kueue /\ cr # NoCR /\ ~Fin(cr)
        /\ cr' = WithFinalizer(cr) /\ Push(cr') /\ snap' = cr'
        /\ cached' = cached \/ cached' = cr'
        /\ pc' = IF Del(cr') THEN "cleanUpWebhooks" ELSE "certs"
        /\ UNCHANGED <<obj, secrets>>
    BY <1>4 DEF AddFinalizer, AfterAddFinalizer, TypeOK, operandVars
  <2>2. ~Del(cr) /\ ~Dirty /\ ~Guarded
    BY <1>0, <2>1 DEF WatchInv, DeletingHasFinalizer, Deleting, FinalizerGuards, Guarded
  <2>3. cr' \in Kueue /\ Fin(cr') /\ ~Del(cr')
    BY <2>1, <2>2, KueueUpdates
  <2>4. Guarded' /\ DeletingHasFinalizer' /\ ~Dirty' /\ pc' = "certs"
    BY <2>1, <2>2, <2>3, OperandUnchanged DEF Guarded, DeletingHasFinalizer, Deleting
  <2>5. \A v \in Kueue : InFlight(v) /\ Del(v) => cr' = NoCR \/ Del(cr')
    BY <1>0, <2>1, <2>2 DEF WatchInv, SeenDeletionIsLive
  <2>6. WatchInv'
    BY <1>0, <2>1, <2>3, <2>4, <2>5, WatchPush
  <2>7. /\ FinalizerGuards' /\ SnapInv' /\ CleanupIsDue' /\ CleanupProgress'
        /\ ApplyIsGuarded'
    BY <2>4 DEF FinalizerGuards, SnapInv, CleanupIsDue, CleanupProgress, ApplyIsGuarded,
                CleanupSteps, Guarded
  <2> QED
    BY <2>6, <2>7 DEF GuardInv, WatchInv, SnapInv, SeenFinalizerIsLive, Guarded
<1>5. CASE AddFinalizerNotFound \/ RemoveFinalizerSkipped \/ WaitTimeout
           \/ CertManagerCallFails
  <2>1. pc' = "idle" /\ UNCHANGED <<cr, cached, events, obj, secrets>>
    BY <1>5 DEF AddFinalizerNotFound, RemoveFinalizerSkipped, WaitTimeout,
                CertManagerCallFails, Return, crVars, watchVars, operandVars
  <2> QED
    BY <2>1, OperandUnchanged, QuietReturn
<1>6. CASE cleanUpResources
  <2>1. /\ pc = "cleanUpResources"
        /\ obj' = [obj EXCEPT !["configMap"] = Absent]
        /\ secrets' = secrets \ NamedSecrets
        /\ obj \in [Groups -> Written \union {Absent}]
        /\ UNCHANGED <<cr, cached, events>>
    BY <1>6 DEF cleanUpResources, TypeOK, crVars, watchVars
  <2>2. /\ obj'["configMap"] = Absent
        /\ \A h \in Groups : obj'[h] = obj[h] \/ obj'[h] = Absent
    BY <2>1 DEF Groups
  <2>3. ~Dirty'
    BY <1>0, <2>1, <2>2 DEF Dirty, CleanupProgress, CleanupSteps, Cleaned, Groups
  <2>4. CASE pc' = "idle"
    BY <2>1, <2>3, <2>4, QuietReturn
  <2>5. CASE pc' # "idle"
    <3>1. pc' = "removeFinalizer" /\ obj["configMap"] # Absent
      BY <1>6, <2>5 DEF cleanUpResources, Return
    <3>2. Dirty
      BY <3>1 DEF Dirty, Cleaned
    <3>3. DeletionKnown
      BY <1>0, <2>1, <3>2 DEF CleanupIsDue, CleanupSteps
    <3>4. WatchInv' /\ DeletionKnown'
      BY <1>0, <2>1, <3>3, WatchUnchanged
    <3>5. CleanupProgress'
      BY <1>0, <2>1, <2>2, <2>3, <3>1, <3>4 DEF CleanupProgress, CleanupSteps, Groups
    <3>6. FinalizerGuards' /\ SnapInv' /\ CleanupIsDue' /\ ApplyIsGuarded'
      BY <2>3, <3>1 DEF FinalizerGuards, SnapInv, CleanupIsDue, ApplyIsGuarded, ApplySteps,
                        PostWaitSteps
    <3> QED
      BY <3>4, <3>5, <3>6 DEF GuardInv, WatchInv, SnapInv, SeenFinalizerIsLive, Guarded
  <2> QED
    BY <2>4, <2>5
<1>7. CASE RemoveFinalizer
  <2>1. /\ pc = "removeFinalizer" /\ cr \in Kueue
        /\ cr' = IF Del(cr) THEN NoCR ELSE WithoutFinalizer(cr)
        /\ Push(cr') /\ pc' = "idle"
        /\ cached' = cached \/ cached' = WithoutFinalizer(cr)
        /\ UNCHANGED <<obj, secrets>>
    BY <1>7 DEF RemoveFinalizer, Return, TypeOK, operandVars
  <2>2. DeletionKnown /\ ~Dirty
    BY <1>0, <2>1 DEF CleanupProgress
  <2>3. cr' = NoCR /\ \A v \in Kueue : InFlight(v) => Del(v)
    BY <2>1, <2>2 DEF DeletionKnown, Deleting
  <2>4. DeletingHasFinalizer'
    BY <2>3 DEF DeletingHasFinalizer, Deleting
  <2>5. WithoutFinalizer(cr) \in Kueue /\ ~Fin(WithoutFinalizer(cr))
    BY <2>1, KueueUpdates
  <2>6. WatchInv'
    BY <1>0, <2>1, <2>3, <2>4, <2>5, WatchPush
  <2>7. FinalizerGuards'
    BY <2>1, <2>2, OperandUnchanged DEF FinalizerGuards
  <2> QED
    BY <2>1, <2>6, <2>7, ToIdle
<1>8. ASSUME NEW g \in Groups, NEW next \in ApplySteps, g \in ApplySteps, Manage(g, next)
      PROVE  GuardInv'
  BY <1>8, WithinApply DEF Manage, crVars, watchVars
<1>9. CASE WaitForCertificateReady \/ TLSProfileSupported
  BY <1>9, WithinApply DEF WaitForCertificateReady, TLSProfileSupported, crVars, watchVars,
                           ApplySteps, PostWaitSteps
<1>10. CASE ReRead
  <2>1. /\ pc = "reRead" /\ pc' \in {"idle", "tlsProfile"}
        /\ UNCHANGED <<cr, cached, events, obj, secrets>>
    BY <1>10 DEF ReRead, Return, crVars, watchVars, operandVars
  <2> QED
    BY <2>1, OperandUnchanged, QuietReturn, WithinApply DEF ApplySteps, PostWaitSteps
<1>11. CASE TLSProfileUnsupported \/ ReportStatus
  <2>1. /\ \E s : updateKueueStatus(s)
        /\ pc' = "idle"
        /\ UNCHANGED <<cr, cached, obj, secrets>>
    BY <1>11 DEF TLSProfileUnsupported, ReportStatus, Return, operandVars
  <2>2. WatchInv' /\ (Guarded => Guarded')
    BY <2>1, StatusWrite
  <2>3. FinalizerGuards'
    BY <1>0, <2>1, <2>2, OperandUnchanged DEF FinalizerGuards, Guarded
  <2> QED
    BY <2>1, <2>2, <2>3, ToIdle
<1>12. CASE cleanUpWebhooks \/ cleanUpCertificatesAndIssuers \/ cleanUpClusterRoles
            \/ cleanUpClusterRoleBindings
  BY <1>12, CleanUpGuard DEF cleanUpWebhooks, cleanUpCertificatesAndIssuers,
     cleanUpClusterRoles, cleanUpClusterRoleBindings
<1>13. CASE manageCertificates \/ manageConfigMap \/ manageBase \/ manageCustomResources
            \/ manageClusterRoles \/ manageClusterRoleBindings \/ manageWebhooks
            \/ manageDeployment
  BY <1>8, <1>13 DEF manageCertificates, manageConfigMap, manageBase, manageCustomResources,
     manageClusterRoles, manageClusterRoleBindings, manageWebhooks, manageDeployment,
     ApplySteps, PostWaitSteps, Groups
<1> QED
  BY <1>1, <1>2, <1>3, <1>4, <1>5, <1>6, <1>7, <1>9, <1>10, <1>11, <1>12, <1>13
     DEF Reconciler

\* Every fault preserves the invariant.
LEMMA GuardFaults == TypeOK /\ TypeOK' /\ GuardInv /\ Faults => GuardInv'
<1> SUFFICES ASSUME TypeOK, TypeOK', GuardInv, Faults PROVE GuardInv'
  OBVIOUS
<1> USE NoCRAssumption
<1>0. /\ FinalizerGuards /\ WatchInv /\ SnapInv
      /\ CleanupIsDue /\ CleanupProgress /\ ApplyIsGuarded
  BY GuardInvParts
<1>1. CASE CallFails
  BY <1>1, OperandUnchanged, QuietReturn
     DEF CallFails, Return, crVars, watchVars, operandVars
<1>2. CASE PatchAnswerLost
  <2>1. /\ cr \in Kueue /\ cr # NoCR /\ Push(cr') /\ pc' = "idle"
        /\ UNCHANGED <<cached, obj, secrets>>
    BY <1>2 DEF PatchAnswerLost, Return, TypeOK, operandVars
  <2>2. CASE pc = "addFinalizer" /\ ~Fin(cr) /\ cr' = WithFinalizer(cr)
    <3>1. ~Del(cr) /\ cr' \in Kueue /\ Fin(cr') /\ ~Del(cr')
      BY <1>0, <2>1, <2>2, KueueUpdates DEF WatchInv, DeletingHasFinalizer, Deleting
    <3>2. Guarded' /\ DeletingHasFinalizer'
      BY <3>1 DEF Guarded, DeletingHasFinalizer, Deleting
    <3>3. \A v \in Kueue : InFlight(v) /\ Del(v) => cr' = NoCR \/ Del(cr')
      BY <1>0, <2>1, <3>1 DEF WatchInv, SeenDeletionIsLive
    <3>4. WatchInv'
      BY <1>0, <2>1, <3>1, <3>2, <3>3, WatchPush
    <3>5. FinalizerGuards'
      BY <3>2 DEF FinalizerGuards, Guarded
    <3> QED
      BY <2>1, <3>4, <3>5, ToIdle
  <2>3. CASE pc = "removeFinalizer" /\ cr' = IF Del(cr) THEN NoCR ELSE WithoutFinalizer(cr)
    <3>1. DeletionKnown /\ ~Dirty
      BY <1>0, <2>3 DEF CleanupProgress
    <3>2. cr' = NoCR /\ \A v \in Kueue : InFlight(v) => Del(v)
      BY <2>3, <3>1 DEF DeletionKnown, Deleting
    <3>3. DeletingHasFinalizer'
      BY <3>2 DEF DeletingHasFinalizer, Deleting
    <3>4. WatchInv'
      BY <1>0, <2>1, <3>2, <3>3, WatchPush
    <3>5. FinalizerGuards'
      BY <2>1, <3>1, OperandUnchanged DEF FinalizerGuards
    <3> QED
      BY <2>1, <3>4, <3>5, ToIdle
  <2> QED
    BY <1>2, <2>2, <2>3 DEF PatchAnswerLost
<1>3. CASE CleanUpResourcesFails
  <2>1. /\ obj' = [obj EXCEPT !["configMap"] = Absent] \/ obj' = obj
        /\ obj \in [Groups -> Written \union {Absent}]
        /\ secrets' \subseteq secrets
        /\ pc' = "idle"
        /\ UNCHANGED <<cr, cached, events>>
    BY <1>3 DEF CleanUpResourcesFails, Return, TypeOK, crVars, watchVars
  <2>2. \A h \in Groups : obj'[h] = obj[h] \/ obj'[h] = Absent
    BY <2>1 DEF Groups
  <2>3. Dirty' => Dirty
    BY <2>1, <2>2 DEF Dirty, Cleaned, Groups
  <2> QED
    BY <2>1, <2>3, QuietReturn
<1>4. CASE Restart
  <2>1. /\ cr' = cr /\ cached' = cr /\ events' = <<>> /\ pc' = "idle"
        /\ UNCHANGED <<obj, secrets>>
    BY <1>4 DEF Restart, Return, crVars, operandVars
  <2>2. WatchInv' /\ (Guarded => Guarded')
    BY <1>0, <2>1, WatchListed
  <2>3. FinalizerGuards'
    BY <1>0, <2>1, <2>2, OperandUnchanged DEF FinalizerGuards, Guarded
  <2> QED
    BY <2>1, <2>2, <2>3, ToIdle
<1> QED
  BY <1>1, <1>2, <1>3, <1>4 DEF Faults

\* Every step of the environment preserves the invariant, provided nobody
\* re-creates the object before the informer has seen the old one go.
LEMMA GuardEnvironment ==
    ~StaleRecreate /\ TypeOK /\ TypeOK' /\ GuardInv /\ Environment => GuardInv'
<1> SUFFICES ASSUME ~StaleRecreate, TypeOK, TypeOK', GuardInv, Environment PROVE GuardInv'
  OBVIOUS
<1> USE NoCRAssumption
<1>0. /\ FinalizerGuards /\ WatchInv /\ SnapInv
      /\ CleanupIsDue /\ CleanupProgress /\ ApplyIsGuarded
  BY GuardInvParts
<1>1. CASE UserCreate
  <2>1. /\ cr = NoCR /\ cached = NoCR /\ events = <<>>
        /\ cr' = [uid |-> uids + 1, gen |-> 1, meta |-> {}]
        /\ Push(cr')
        /\ UNCHANGED <<cached, pc, snap, obj, secrets>>
    BY <1>1 DEF UserCreate, locals, operandVars
  <2>2. \A v \in Kueue : ~InFlight(v)
    BY <2>1 DEF InFlight
  <2>3. ~Guarded /\ ~DeletionKnown
    BY <2>1 DEF Guarded, DeletionKnown, Deleting
  <2>4. cr' \in Kueue \union {NoCR} /\ ~Del(cr') /\ DeletingHasFinalizer'
    BY <2>1 DEF Del, TypeOK, DeletingHasFinalizer, Deleting
  <2>5. WatchInv'
    BY <1>0, <2>1, <2>2, <2>4, WatchPush
  <2> QED
    BY <2>1, <2>3, <2>5, OperandUnchanged, SameSync
<1>2. CASE UserEdit
  <2>1. /\ cr \in Kueue /\ cr # NoCR /\ cr.gen < MaxGen
        /\ cr' = [cr EXCEPT !.gen = cr.gen + 1]
        /\ Push(cr')
        /\ UNCHANGED <<cached, pc, snap, obj, secrets>>
    BY <1>2 DEF UserEdit, TypeOK, locals, operandVars
  <2>2. cr' \in Kueue /\ (Del(cr') <=> Del(cr)) /\ (Fin(cr') <=> Fin(cr))
    BY <2>1, EditType
  <2>3. (Guarded => Guarded') /\ DeletingHasFinalizer'
    BY <1>0, <2>1, <2>2 DEF Guarded, WatchInv, DeletingHasFinalizer, Deleting
  <2>4. \A v \in Kueue : InFlight(v) /\ Del(v) => cr' = NoCR \/ Del(cr')
    BY <1>0, <2>1, <2>2 DEF WatchInv, SeenDeletionIsLive
  <2>5. WatchInv'
    BY <1>0, <2>1, <2>2, <2>3, <2>4, WatchPush DEF WatchInv
  <2>6. DeletionKnown => DeletionKnown'
    BY <2>1, <2>2, PushDeletionKnown DEF DeletionKnown, Deleting
  <2> QED
    BY <2>1, <2>3, <2>5, <2>6, OperandUnchanged, SameSync
<1>3. CASE UserDelete
  <2>1. /\ cr \in Kueue /\ cr # NoCR /\ ~Del(cr) /\ cr.gen <= MaxGen
        /\ cr' = IF Fin(cr) THEN Deleted(cr) ELSE NoCR
        /\ Push(cr')
        /\ UNCHANGED <<cached, pc, snap, obj, secrets>>
    BY <1>3 DEF UserDelete, TypeOK, locals, operandVars
  <2>2. /\ cr' \in Kueue \union {NoCR}
        /\ cr' # NoCR => Del(cr') /\ Fin(cr')
        /\ Fin(cr) => cr' # NoCR
    BY <2>1, DeletedType
  <2>3. (Guarded => Guarded') /\ DeletingHasFinalizer' /\ ~DeletionKnown
    BY <2>1, <2>2 DEF Guarded, DeletingHasFinalizer, Deleting, DeletionKnown
  <2>4. WatchInv'
    BY <1>0, <2>1, <2>2, <2>3, WatchPush DEF WatchInv
  <2> QED
    BY <2>1, <2>3, <2>4, OperandUnchanged, SameSync
<1>4. CASE WatchDeliver
  <2>1. UNCHANGED <<cr, pc, snap, obj, secrets>>
    BY <1>4 DEF WatchDeliver, crVars, operandVars
  <2>2. Guarded => Guarded'
    BY <2>1 DEF Guarded
  <2> QED
    BY <1>0, <1>4, <2>1, <2>2, OperandUnchanged, WatchDelivered, SameSync
<1>5. CASE Relist
  <2>1. /\ cr' = cr /\ cached' = cr /\ events' = <<>>
        /\ UNCHANGED <<pc, snap, obj, secrets>>
    BY <1>5 DEF Relist, crVars, operandVars
  <2> QED
    BY <1>0, <2>1, OperandUnchanged, WatchListed, SameSync
<1>6. ASSUME UNCHANGED <<cr, cached, events, pc, snap>>, Shrinks PROVE GuardInv'
  BY <1>0, <1>6, WatchUnchanged, SameSync
<1>7. CASE IssueCertificate
  <2>1. obj' = obj /\ obj["certs"] # Absent /\ UNCHANGED <<cr, cached, events, pc, snap>>
    BY <1>7 DEF IssueCertificate, crVars, watchVars, locals
  <2>2. Shrinks
    BY <2>1 DEF Shrinks, Dirty, Cleaned
  <2> QED
    BY <1>6, <2>1, <2>2
<1>8. CASE GarbageCollect
  <2>1. /\ \E g \in Owned : obj' = [obj EXCEPT ![g] = Absent]
        /\ obj \in [Groups -> Written \union {Absent}]
        /\ UNCHANGED <<cr, cached, events, pc, snap, secrets>>
    BY <1>8 DEF GarbageCollect, TypeOK, crVars, watchVars, locals
  <2>2. \A h \in Groups : obj'[h] = obj[h] \/ obj'[h] = Absent
    BY <2>1 DEF Owned
  <2>3. Shrinks
    BY <2>1, <2>2 DEF Shrinks, Dirty, Cleaned, Groups
  <2> QED
    BY <1>6, <2>1, <2>3
<1>9. CASE ChangeCertManager
  <2>1. /\ obj' = [obj EXCEPT !["certs"] = Absent] \/ obj' = obj
        /\ obj \in [Groups -> Written \union {Absent}]
        /\ UNCHANGED <<cr, cached, events, pc, snap, secrets>>
    BY <1>9 DEF ChangeCertManager, TypeOK, crVars, watchVars, locals
  <2>2. \A h \in Groups : obj'[h] = obj[h] \/ obj'[h] = Absent
    BY <2>1 DEF Groups
  <2>3. Shrinks
    BY <2>1, <2>2 DEF Shrinks, Dirty, Cleaned, Groups
  <2> QED
    BY <1>6, <2>1, <2>3
<1>10. CASE ChangeTLSProfile
  BY <1>6, <1>10, OperandUnchanged
     DEF ChangeTLSProfile, crVars, watchVars, locals, operandVars
<1> QED
  BY <1>1, <1>2, <1>3, <1>4, <1>5, <1>7, <1>8, <1>9, <1>10 DEF Environment, User

\* Nothing exists initially.
LEMMA GuardInit == Init => GuardInv
<1> SUFFICES ASSUME Init PROVE GuardInv
  OBVIOUS
<1>1. ~Dirty
  BY DEF Init, Dirty, Cleaned, Groups
<1>2. pc = "idle" /\ cr = NoCR /\ cached = NoCR /\ events = <<>>
  BY DEF Init
<1>3. \A v \in Kueue : ~InFlight(v)
  BY <1>2 DEF InFlight
<1> QED
  BY <1>1, <1>2, <1>3
     DEF GuardInv, FinalizerGuards, DeletingHasFinalizer, Deleting, SeenFinalizerIsLive,
         SeenDeletionIsLive, DeletionIsMonotone, CleanupIsDue, CleanupProgress,
         ApplyIsGuarded, CleanupSteps, ApplySteps, PostWaitSteps

\* The invariant is inductive.
LEMMA GuardStep == ~StaleRecreate /\ TypeOK /\ TypeOK' /\ GuardInv /\ [Next]_vars => GuardInv'
<1> SUFFICES ASSUME ~StaleRecreate, TypeOK, TypeOK', GuardInv, [Next]_vars PROVE GuardInv'
  OBVIOUS
<1>1. CASE UNCHANGED vars
  <2>1. UNCHANGED <<cr, cached, events, pc, snap, obj, secrets>>
    BY <1>1 DEF vars
  <2> QED
    BY <2>1, GuardInvParts, WatchUnchanged, OperandUnchanged, SameSync
<1> QED
  BY <1>1, GuardReconciler, GuardFaults, GuardEnvironment DEF Next

\* For every number of incarnations, edits, faults and pending events: if nobody
\* re-creates the Kueue object before the informer has seen its deletion, the
\* inductive invariant holds, and with it, whatever only the cleanup removes
\* exists only under the finalizer.
THEOREM GuardCorrect == ASSUME ~StaleRecreate PROVE Spec => [](TypeOK /\ GuardInv)
<1>1. Init => GuardInv
  BY GuardInit
<1>2. TypeOK /\ TypeOK' /\ GuardInv /\ [Next]_vars => GuardInv'
  BY GuardStep
<1> QED
  BY <1>1, <1>2, TypeCorrect, PTL DEF Spec

\* The operand never outlives the finalizer (sync adds the finalizer before it
\* applies anything, and removes it after the cleanup removed everything).
THEOREM FinalizerGuardsCorrect == ASSUME ~StaleRecreate PROVE Spec => []FinalizerGuards
<1>1. GuardInv => FinalizerGuards
  BY DEF GuardInv
<1> QED
  BY <1>1, GuardCorrect, PTL

\* Which steps change the live object, and how.
LEMMA LiveSteps ==
    ASSUME TypeOK, Next, cr' # cr
    PROVE  \/ pc = "addFinalizer" /\ cr \in Kueue /\ ~Fin(cr) /\ cr' = WithFinalizer(cr)
              /\ UNCHANGED <<obj, secrets>>
           \/ pc = "removeFinalizer" /\ cr \in Kueue /\ Fin(cr)
              /\ cr' = (IF Del(cr) THEN NoCR ELSE WithoutFinalizer(cr))
              /\ UNCHANGED <<obj, secrets>>
           \/ UserCreate \/ UserEdit \/ UserDelete
<1>1. Reconciler => AddFinalizer \/ RemoveFinalizer
  BY DEF Reconciler, BeginSync, CertManagerMissing, FinalizerPresent, AddFinalizerNotFound,
         cleanUpWebhooks, cleanUpCertificatesAndIssuers, cleanUpClusterRoles,
         cleanUpClusterRoleBindings, CleanUp, cleanUpResources, RemoveFinalizerSkipped,
         manageCertificates, manageConfigMap, manageBase, manageCustomResources,
         manageClusterRoles, manageClusterRoleBindings, manageWebhooks, manageDeployment,
         Manage, WaitForCertificateReady, WaitTimeout, CertManagerCallFails, ReRead,
         TLSProfileSupported, TLSProfileUnsupported, ReportStatus, crVars
<1>2. Faults => PatchAnswerLost
  BY DEF Faults, CallFails, CleanUpResourcesFails, Restart, crVars
<1>3. Environment => UserCreate \/ UserEdit \/ UserDelete
  BY DEF Environment, User, WatchDeliver, Relist, IssueCertificate, GarbageCollect,
         ChangeCertManager, ChangeTLSProfile, crVars
<1>4. CASE AddFinalizer
  BY <1>4 DEF AddFinalizer, operandVars, TypeOK
<1>5. CASE RemoveFinalizer
  BY <1>5 DEF RemoveFinalizer, operandVars, TypeOK
<1>6. CASE PatchAnswerLost
  BY <1>6 DEF PatchAnswerLost, operandVars, TypeOK
<1> QED
  BY <1>1, <1>2, <1>3, <1>4, <1>5, <1>6 DEF Next

\* The finalizer leaves the live object only when that object is being deleted
\* and nothing is left that the cleanup is responsible for.
THEOREM FinalizerDroppedCleanCorrect ==
    ASSUME ~StaleRecreate PROVE Spec => FinalizerDroppedClean
<1>1. ASSUME TypeOK, GuardInv, [Next]_vars
      PROVE  [(cr # NoCR /\ Fin(cr)) /\ (cr' = NoCR \/ ~Fin(cr')) => Del(cr) /\ ~Dirty]_vars
  <2> SUFFICES ASSUME Next, cr # NoCR, Fin(cr), cr' = NoCR \/ ~Fin(cr')
               PROVE  Del(cr) /\ ~Dirty
    BY <1>1
  <2>1. cr \in Kueue /\ cr' # cr
    BY <1>1 DEF TypeOK
  <2>2. CASE pc = "removeFinalizer"
    BY <1>1, <2>2 DEF GuardInv, CleanupProgress, DeletionKnown, Deleting
  <2>3. ~UserCreate
    BY DEF UserCreate
  <2>4. ~UserEdit
    <3> SUFFICES ASSUME UserEdit PROVE FALSE
      OBVIOUS
    <3>1. cr.gen < MaxGen /\ cr' = [cr EXCEPT !.gen = cr.gen + 1]
      BY DEF UserEdit
    <3>2. cr' \in Kueue /\ Fin(cr')
      BY <2>1, <3>1, EditType
    <3> QED
      BY <3>2, NoCRAssumption
  <2>5. ~UserDelete
    <3> SUFFICES ASSUME UserDelete PROVE FALSE
      OBVIOUS
    <3>1. cr.gen <= MaxGen /\ cr' = Deleted(cr)
      BY <1>1 DEF UserDelete, TypeOK
    <3>2. cr' \in Kueue /\ Fin(cr')
      BY <2>1, <3>1, DeletedType
    <3> QED
      BY <3>2, NoCRAssumption
  <2> QED
    BY <1>1, <2>1, <2>2, <2>3, <2>4, <2>5, LiveSteps
<1> QED
  BY <1>1, GuardCorrect, PTL DEF Spec, FinalizerDroppedClean

(***************************************************************************)
(* Webhook configurations come with their certificate                      *)
(***************************************************************************)

\* The steps of a sync that has applied the ConfigMap.
ConfiguredSteps == PostWaitSteps \ {"reRead", "tlsProfile", "configMap"}

\* The strengthening: past the wait the Secrets are there, past its own step the
\* ConfigMap is, and the step that deletes them runs after the webhook
\* configurations are gone.
CertInv ==
    /\ WebhooksHaveCert
    /\ pc \in PostWaitSteps => NamedSecrets \subseteq secrets
    /\ pc \in ConfiguredSteps => obj["configMap"] # Absent
    /\ pc \in CleanupSteps \ {"cleanUpWebhooks"} => obj["webhooks"] = Absent

\* A step that neither deletes Secrets or the ConfigMap nor writes webhook
\* configurations and stays in the same part of the sync, or ends it.
LEMMA CertQuiet ==
    ASSUME CertInv, secrets \subseteq secrets',
           obj'["webhooks"] = obj["webhooks"] \/ obj'["webhooks"] = Absent,
           obj["configMap"] # Absent => obj'["configMap"] # Absent,
           pc' \in ConfiguredSteps => pc \in ConfiguredSteps,
           pc' \in PostWaitSteps => pc \in PostWaitSteps,
           pc' \in CleanupSteps \ {"cleanUpWebhooks"} => pc \in CleanupSteps \ {"cleanUpWebhooks"}
    PROVE  CertInv'
BY DEF CertInv, WebhooksHaveCert

\* Every step preserves the strengthening.
LEMMA CertStep == TypeOK /\ CertInv /\ [Next]_vars => CertInv'
<1> SUFFICES ASSUME TypeOK, CertInv, [Next]_vars PROVE CertInv'
  OBVIOUS
<1> USE DEF PostWaitSteps, ConfiguredSteps, CleanupSteps, NamedSecrets
<1>0. obj \in [Groups -> Written \union {Absent}] /\ {"webhooks", "configMap"} \subseteq Groups
  BY DEF TypeOK, Groups
<1>1. CASE UNCHANGED vars
  BY <1>1, CertQuiet DEF vars
<1>2. CASE BeginSync \/ CertManagerMissing \/ AddFinalizerNotFound \/ RemoveFinalizerSkipped
           \/ WaitTimeout \/ CertManagerCallFails \/ TLSProfileUnsupported \/ ReportStatus
           \/ CallFails \/ PatchAnswerLost \/ Restart \/ UserCreate \/ UserEdit \/ UserDelete
           \/ WatchDeliver \/ Relist \/ ChangeTLSProfile
  <2>1. UNCHANGED <<obj, secrets>> /\ pc' \in {"idle", "addFinalizer", pc}
    BY <1>2 DEF BeginSync, CertManagerMissing, AddFinalizerNotFound, RemoveFinalizerSkipped,
       WaitTimeout, CertManagerCallFails, TLSProfileUnsupported, ReportStatus, CallFails,
       PatchAnswerLost, Restart, UserCreate, UserEdit, UserDelete, WatchDeliver, Relist,
       ChangeTLSProfile, Return, operandVars
  <2> QED
    BY <2>1, CertQuiet
<1>3. CASE FinalizerPresent \/ AddFinalizer
  <2>1. UNCHANGED <<obj, secrets>> /\ pc' \in {"cleanUpWebhooks", "certs"}
    BY <1>3 DEF FinalizerPresent, AddFinalizer, AfterAddFinalizer, operandVars
  <2> QED
    BY <2>1, CertQuiet
<1>4. CASE RemoveFinalizer
  BY <1>4, CertQuiet DEF RemoveFinalizer, Return, operandVars
<1>5. CASE cleanUpWebhooks
  BY <1>0, <1>5 DEF cleanUpWebhooks, CleanUp, CertInv, WebhooksHaveCert
<1>6. CASE cleanUpCertificatesAndIssuers \/ cleanUpClusterRoles \/ cleanUpClusterRoleBindings
  <2>1. /\ secrets' = secrets /\ UNCHANGED <<obj["webhooks"], obj["configMap"]>>
        /\ pc \in CleanupSteps \ {"cleanUpWebhooks"} /\ pc' \in CleanupSteps
    BY <1>0, <1>6 DEF cleanUpCertificatesAndIssuers, cleanUpClusterRoles,
       cleanUpClusterRoleBindings, CleanUp
  <2> QED
    BY <2>1, CertQuiet
<1>7. CASE cleanUpResources \/ CleanUpResourcesFails
  <2>1. pc = "cleanUpResources" /\ obj'["webhooks"] = obj["webhooks"]
        /\ pc' \in {"removeFinalizer", "idle"}
    BY <1>0, <1>7 DEF cleanUpResources, CleanUpResourcesFails, Return
  <2> QED
    BY <2>1 DEF CertInv, WebhooksHaveCert
<1>8. CASE WaitForCertificateReady
  <2>1. NamedSecrets \subseteq secrets /\ UNCHANGED <<obj, secrets>> /\ pc' = "reRead"
    BY <1>8 DEF WaitForCertificateReady, CertificatesReady, CertSecrets, operandVars
  <2> QED
    BY <2>1 DEF CertInv, WebhooksHaveCert
<1>9. CASE ReRead \/ TLSProfileSupported
  <2>1. UNCHANGED <<obj, secrets>> /\ pc \in PostWaitSteps
        /\ pc' \in {"idle", "tlsProfile", "configMap"}
    BY <1>9 DEF ReRead, TLSProfileSupported, Return, operandVars
  <2> QED
    BY <2>1, CertQuiet
<1>10. CASE manageWebhooks
  <2>1. /\ NamedSecrets \subseteq secrets /\ secrets' = secrets /\ pc' = "deployment"
        /\ obj["configMap"] # Absent /\ obj'["configMap"] = obj["configMap"]
    BY <1>0, <1>10 DEF manageWebhooks, Manage, CertInv
  <2> QED
    BY <2>1 DEF CertInv, WebhooksHaveCert
<1>11. CASE manageCertificates \/ manageBase \/ manageCustomResources
            \/ manageClusterRoles \/ manageClusterRoleBindings \/ manageDeployment
  <2>1. /\ secrets' = secrets /\ UNCHANGED <<obj["webhooks"], obj["configMap"]>>
        /\ pc' \in PostWaitSteps => pc \in PostWaitSteps
        /\ pc' \in ConfiguredSteps => pc \in ConfiguredSteps
        /\ pc' \notin CleanupSteps
    BY <1>0, <1>11 DEF manageCertificates, manageBase, manageCustomResources,
       manageClusterRoles, manageClusterRoleBindings, manageDeployment, Manage
  <2> QED
    BY <2>1, CertQuiet
<1>12. CASE IssueCertificate
  BY <1>12, CertQuiet DEF IssueCertificate
<1>13. CASE GarbageCollect \/ ChangeCertManager
  <2>1. /\ secrets' = secrets /\ pc' = pc
        /\ obj'["webhooks"] = obj["webhooks"] \/ obj'["webhooks"] = Absent
        /\ obj'["configMap"] = obj["configMap"]
    BY <1>0, <1>13 DEF GarbageCollect, Owned, ChangeCertManager
  <2> QED
    BY <2>1, CertQuiet
<1>14. CASE manageConfigMap
  <2>1. Required("configMap") \in Written
    BY <1>14, RequiredType, <1>0 DEF manageConfigMap, Manage, TypeOK
  <2>2. /\ secrets' = secrets /\ obj'["webhooks"] = obj["webhooks"] /\ obj'["configMap"] # Absent
        /\ pc = "configMap" /\ pc' = "base"
    BY <1>0, <1>14, <2>1, AbsentAssumption DEF manageConfigMap, Manage
  <2> QED
    BY <2>2 DEF CertInv, WebhooksHaveCert
<1> QED
  BY <1>1, <1>2, <1>3, <1>4, <1>5, <1>6, <1>7, <1>8, <1>9, <1>10, <1>11, <1>12, <1>13, <1>14
     DEF Next, Reconciler, Faults, Environment, User

\* The strengthening is an invariant.
LEMMA CertInvariant == Spec => []CertInv
<1>1. Init => CertInv
  BY DEF Init, CertInv, WebhooksHaveCert, PostWaitSteps, ConfiguredSteps,
         CleanupSteps, Groups
<1> QED
  BY <1>1, CertStep, TypeCorrect, PTL DEF Spec

\* Webhook configurations exist only together with the serving certificate's
\* Secret, in every behaviour: also when the object is re-created under a stale
\* cache, and whatever fails.
THEOREM WebhooksHaveCertCorrect == Spec => []WebhooksHaveCert
<1>1. CertInv => WebhooksHaveCert
  BY DEF CertInv
<1> QED
  BY <1>1, CertInvariant, PTL

(***************************************************************************)
(* The reconciler implements the contract                                  *)
(***************************************************************************)

\* What Phase says.
LEMMA PhaseCases ==
    /\ cr = NoCR => Phase = "none"
    /\ cr # NoCR /\ ~Fin(cr) => Phase = "unguarded"
    /\ cr # NoCR /\ Fin(cr) /\ ~Del(cr) => Phase = "guarded"
    /\ cr # NoCR /\ Fin(cr) /\ Del(cr) => Phase = "terminating"
BY DEF Phase

\* The same, after a step.
LEMMA PhaseCasesNext ==
    /\ cr' = NoCR => Phase' = "none"
    /\ cr' # NoCR /\ ~Fin(cr') => Phase' = "unguarded"
    /\ cr' # NoCR /\ Fin(cr') /\ ~Del(cr') => Phase' = "guarded"
    /\ cr' # NoCR /\ Fin(cr') /\ Del(cr') => Phase' = "terminating"
BY DEF Phase

\* What remains, and whether anything does.
LEMMA RemainsDirty ==
    /\ Dirty <=> Remains # {}
    /\ Dirty' <=> Remains' # {}
BY DEF Dirty, Remains

\* What each thing of the contract needs.
LEMMA NeedsCases ==
    /\ Contract!Needs("certs") = {}
    /\ \A s \in NamedSecrets : Contract!Needs(s) = {"certs"}
    /\ Contract!Needs("configMap") = NamedSecrets
    /\ \A g \in {"clusterRoles", "clusterRoleBindings", "webhooks"} :
         Contract!Needs(g) = {"configMap"} \union NamedSecrets
BY DEF Contract!Needs, Contract!Secrets, Contract!Collectable, Contract!Kept, NamedSecrets

\* The names of the contract's things.
LEMMA ThingNames ==
    /\ Contract!Collectable = Cleaned \ {"configMap"}
    /\ Contract!Kept = {"configMap"} \union NamedSecrets
    /\ Contract!Things = Cleaned \union NamedSecrets
    /\ Cleaned \subseteq Groups
    /\ Cleaned \intersect NamedSecrets = {}
BY DEF Contract!Collectable, Contract!Kept, Contract!Things, Contract!Secrets, Cleaned,
       NamedSecrets, Groups

\* What a written group adds.
LEMMA RemainsAdd ==
    ASSUME TypeOK, NEW g \in Groups, NEW w \in Written,
           obj' = [obj EXCEPT ![g] = w], secrets' = secrets
    PROVE  Remains' = IF g \in Cleaned THEN Remains \union {g} ELSE Remains
<1>1. obj \in [Groups -> Written \union {Absent}]
  BY DEF TypeOK
<1>2. \A h \in Cleaned : obj'[h] = (IF h = g THEN w ELSE obj[h])
  BY <1>1, ThingNames
<1> QED
  BY <1>2, AbsentAssumption DEF Remains

\* What a group that disappears takes away.
LEMMA RemainsDrop ==
    ASSUME TypeOK, NEW g \in Groups, obj' = [obj EXCEPT ![g] = Absent], secrets' = secrets
    PROVE  Remains' = Remains \ {g}
<1>1. obj \in [Groups -> Written \union {Absent}]
  BY DEF TypeOK
<1>2. \A h \in Cleaned : obj'[h] = (IF h = g THEN Absent ELSE obj[h])
  BY <1>1, ThingNames
<1>3. g \notin NamedSecrets
  BY DEF Groups, NamedSecrets
<1> QED
  BY <1>2, <1>3 DEF Remains

\* What may become of the contract's things in one step.
Added ==
    \E thing \in Contract!Things \ Remains :
      Contract!Needs(thing) \subseteq Remains /\ Remains' = Remains \union {thing}
Lost == \E thing \in Contract!Collectable \intersect Remains : Remains' = Remains \ {thing}
Purged == pc = "cleanUpResources" /\ Remains \subseteq Contract!Kept /\ Remains' \in SUBSET Remains

\* A group that sync writes finds what it needs.
LEMMA ManageAdds ==
    ASSUME TypeOK, CertInv, NEW g \in Groups, NEW next, Manage(g, next), Remains' # Remains
    PROVE  Added
<1>1. pc = g /\ obj' = [obj EXCEPT ![g] = Required(g)] /\ secrets' = secrets
  BY DEF Manage
<1>2. Required(g) \in Written
  BY <1>1, RequiredType DEF Groups
<1>3. g \in Cleaned /\ Remains' = Remains \union {g} /\ g \notin Remains
  BY <1>1, <1>2, RemainsAdd
<1>4. g \in PostWaitSteps => NamedSecrets \subseteq Remains
  BY <1>1 DEF CertInv, Remains
<1>5. g \in ConfiguredSteps => "configMap" \in Remains
  BY <1>1 DEF CertInv, Remains, Cleaned
<1>6. Contract!Needs(g) \subseteq Remains
  BY <1>3, <1>4, <1>5, NeedsCases DEF Cleaned, PostWaitSteps, ConfiguredSteps
<1> QED
  BY <1>3, <1>6, ThingNames DEF Added

\* A group that the cleanup removes, the garbage collector or an uninstalled
\* cert-manager.
LEMMA DropLoses ==
    ASSUME TypeOK, NEW g \in Groups \ {"configMap"},
           obj' = [obj EXCEPT ![g] = Absent], secrets' = secrets, Remains' # Remains
    PROVE  Lost
<1>1. Remains' = Remains \ {g} /\ g \in Remains
  BY RemainsDrop
<1>2. g \in Cleaned
  BY <1>1 DEF Remains, NamedSecrets, Groups
<1> QED
  BY <1>1, <1>2, ThingNames DEF Lost

\* Which steps change what remains, and how.
LEMMA RemainsSteps ==
    ASSUME TypeOK, GuardInv, CertInv, Next, Remains' # Remains
    PROVE  Added \/ Lost \/ Purged
<1>0. obj \in [Groups -> Written \union {Absent}] /\ secrets \in SUBSET CertSecrets
  BY DEF TypeOK
<1>1. ~UNCHANGED <<obj, secrets>>
  BY DEF Remains
<1>2. CASE manageCertificates \/ manageConfigMap \/ manageBase \/ manageCustomResources
           \/ manageClusterRoles \/ manageClusterRoleBindings \/ manageWebhooks
           \/ manageDeployment
  BY <1>2, ManageAdds DEF manageCertificates, manageConfigMap, manageBase,
     manageCustomResources, manageClusterRoles, manageClusterRoleBindings, manageWebhooks,
     manageDeployment, Groups
<1>3. CASE cleanUpWebhooks \/ cleanUpCertificatesAndIssuers \/ cleanUpClusterRoles
           \/ cleanUpClusterRoleBindings
  BY <1>3, DropLoses DEF cleanUpWebhooks, cleanUpCertificatesAndIssuers, cleanUpClusterRoles,
     cleanUpClusterRoleBindings, CleanUp, Groups
<1>4. CASE cleanUpResources \/ CleanUpResourcesFails
  <2>1. pc = "cleanUpResources" /\ secrets' \subseteq secrets
        /\ \A g \in Groups : obj'[g] \in {obj[g], Absent}
    BY <1>0, <1>4 DEF cleanUpResources, CleanUpResourcesFails
  <2>2. \A g \in Cleaned \ {"configMap"} : obj[g] = Absent
    BY <2>1 DEF GuardInv, CleanupProgress, CleanupSteps, Cleaned
  <2>3. Remains \subseteq Contract!Kept
    BY <2>2, ThingNames DEF Remains
  <2>4. Remains' \subseteq Remains
    BY <2>1, ThingNames DEF Remains
  <2> QED
    BY <2>1, <2>3, <2>4 DEF Purged
<1>5. CASE IssueCertificate
  <2>1. PICK s \in CertSecrets \ secrets : secrets' = secrets \union {s}
    BY <1>5 DEF IssueCertificate
  <2>2. obj' = obj /\ obj["certs"] # Absent
    BY <1>5 DEF IssueCertificate
  <2>3. "certs" \in Remains
    BY <2>2 DEF Remains, Cleaned
  <2>4. s \in NamedSecrets /\ s \notin Remains /\ Remains' = Remains \union {s}
    BY <2>1, <2>2, ThingNames DEF Remains
  <2> QED
    BY <2>3, <2>4, ThingNames, NeedsCases DEF Added
<1>6. CASE GarbageCollect
  <2>1. PICK g \in Owned : obj' = [obj EXCEPT ![g] = Absent]
    BY <1>6 DEF GarbageCollect
  <2>2. secrets' = secrets /\ g \in Groups \ {"configMap"}
    BY <1>6, <2>1 DEF GarbageCollect, Owned
  <2> QED
    BY <2>1, <2>2, DropLoses
<1>7. CASE ChangeCertManager
  <2>1. secrets' = secrets /\ "certs" \in Groups \ {"configMap"}
    BY <1>7 DEF ChangeCertManager, Groups
  <2>2. CASE certManager
    BY <1>7, <2>1, <2>2, DropLoses DEF ChangeCertManager
  <2>3. CASE ~certManager
    BY <1>0, <1>1, <1>7, <2>1, <2>3 DEF ChangeCertManager
  <2> QED
    BY <2>2, <2>3
<1>8. Reconciler => cleanUpResources \/ Added \/ Lost \/ Purged
  BY <1>1, <1>2, <1>3 DEF Reconciler, BeginSync, CertManagerMissing, FinalizerPresent,
     AddFinalizer, AddFinalizerNotFound, RemoveFinalizer, RemoveFinalizerSkipped,
     WaitForCertificateReady, WaitTimeout, CertManagerCallFails, ReRead,
     TLSProfileSupported, TLSProfileUnsupported, ReportStatus, operandVars
<1>9. Faults => CleanUpResourcesFails
  BY <1>1 DEF Faults, CallFails, PatchAnswerLost, Restart, operandVars
<1>10. Environment => IssueCertificate \/ GarbageCollect \/ ChangeCertManager
  BY <1>1 DEF Environment, User, UserCreate, UserEdit, UserDelete, WatchDeliver, Relist,
     ChangeTLSProfile, operandVars
<1> QED
  BY <1>4, <1>5, <1>6, <1>7, <1>8, <1>9, <1>10 DEF Next

\* Every step is a step of the contract or leaves its variables alone.
LEMMA ContractStep ==
    ASSUME TypeOK, TypeOK', GuardInv, GuardInv', CertInv, [Next]_vars
    PROVE  [Contract!Next]_Contract!vars
<1> USE NoCRAssumption
<1>1. (Dirty => cr # NoCR /\ Fin(cr)) /\ (Dirty' => cr' # NoCR /\ Fin(cr'))
  BY DEF GuardInv, FinalizerGuards
<1>2. CASE cr' = cr
  <2>1. Phase' = Phase
    BY <1>2 DEF Phase
  <2>2. CASE Remains' = Remains
    BY <2>1, <2>2 DEF Contract!vars
  <2>3. CASE Remains' # Remains
    <3>1. cr # NoCR /\ Fin(cr)
      BY <1>1, <1>2, <2>3, RemainsDirty
    <3>2. Phase \in {"guarded", "terminating"}
      BY <3>1, PhaseCases
    <3>3. Next
      BY <2>3 DEF vars, Remains
    <3>4. CASE Added
      BY <2>1, <3>2, <3>4 DEF Added, Contract!Add, Contract!Next
    <3>5. CASE Lost
      BY <2>1, <3>2, <3>5 DEF Lost, Contract!Lose, Contract!Next
    <3>6. CASE Purged
      <4>1. Dirty
        BY <2>3, <3>6, RemainsDirty DEF Purged
      <4>2. Del(cr)
        BY <3>6, <4>1 DEF Purged, GuardInv, CleanupIsDue, CleanupSteps, DeletionKnown, Deleting
      <4>3. Phase = "terminating"
        BY <3>1, <4>2, PhaseCases
      <4> QED
        BY <2>1, <3>6, <4>3 DEF Purged, Contract!Purge, Contract!Next
    <3> QED
      BY <2>3, <3>3, <3>4, <3>5, <3>6, RemainsSteps
  <2> QED
    BY <2>2, <2>3
<1>3. CASE cr' # cr
  <2>1. Next
    BY <1>3 DEF vars
  <2>2. CASE pc = "addFinalizer" /\ cr \in Kueue /\ ~Fin(cr) /\ cr' = WithFinalizer(cr)
             /\ UNCHANGED <<obj, secrets>>
    <3>1. cr # NoCR /\ ~Del(cr)
      BY <2>2 DEF GuardInv, DeletingHasFinalizer, Deleting
    <3>2. cr' \in Kueue /\ Fin(cr') /\ ~Del(cr')
      BY <2>2, <3>1, KueueUpdates
    <3>3. Phase = "unguarded" /\ Phase' = "guarded"
      BY <2>2, <3>1, <3>2, PhaseCases, PhaseCasesNext
    <3>4. Remains' = Remains
      BY <2>2 DEF Remains
    <3> QED
      BY <3>3, <3>4 DEF Contract!Next, Contract!Guard
  <2>3. CASE pc = "removeFinalizer" /\ cr \in Kueue /\ Fin(cr)
             /\ cr' = (IF Del(cr) THEN NoCR ELSE WithoutFinalizer(cr))
             /\ UNCHANGED <<obj, secrets>>
    <3>1. cr # NoCR /\ Del(cr) /\ Remains = {}
      BY <2>3, RemainsDirty DEF GuardInv, CleanupProgress, DeletionKnown, Deleting
    <3>2. Phase = "terminating" /\ Phase' = "none"
      BY <2>3, <3>1, PhaseCases, PhaseCasesNext
    <3>3. Remains' = Remains
      BY <2>3 DEF Remains
    <3> QED
      BY <3>1, <3>2, <3>3 DEF Contract!Next, Contract!Release
  <2>4. CASE UserCreate
    <3>1. cr = NoCR /\ cr' = [uid |-> uids + 1, gen |-> 1, meta |-> {}]
          /\ UNCHANGED <<obj, secrets>>
      BY <2>4 DEF UserCreate, operandVars
    <3>2. ~Fin(cr') /\ cr' # NoCR
      BY <1>3, <3>1 DEF Fin
    <3>3. Phase = "none" /\ Phase' = "unguarded"
      BY <3>1, <3>2, PhaseCases, PhaseCasesNext
    <3>4. Remains' = Remains
      BY <3>1 DEF Remains
    <3> QED
      BY <3>3, <3>4 DEF Contract!Next, Contract!Create
  <2>5. CASE UserEdit
    <3>1. cr \in Kueue /\ cr # NoCR /\ cr.gen < MaxGen /\ cr' = [cr EXCEPT !.gen = cr.gen + 1]
          /\ UNCHANGED <<obj, secrets>>
      BY <2>5 DEF UserEdit, TypeOK, operandVars
    <3>2. cr' \in Kueue /\ (Del(cr') <=> Del(cr)) /\ (Fin(cr') <=> Fin(cr))
      BY <3>1, EditType
    <3>3. Phase' = Phase
      BY <3>1, <3>2, PhaseCases, PhaseCasesNext
    <3>4. Remains' = Remains
      BY <3>1 DEF Remains
    <3> QED
      BY <3>3, <3>4 DEF Contract!vars
  <2>6. CASE UserDelete
    <3>1. cr \in Kueue /\ cr # NoCR /\ ~Del(cr) /\ cr.gen <= MaxGen
          /\ cr' = (IF Fin(cr) THEN Deleted(cr) ELSE NoCR)
          /\ UNCHANGED <<obj, secrets>>
      BY <2>6 DEF UserDelete, TypeOK, operandVars
    <3>2. Remains' = Remains
      BY <3>1 DEF Remains
    <3>3. CASE Fin(cr)
      <4>1. cr' \in Kueue /\ Del(cr') /\ Fin(cr')
        BY <3>1, <3>3, DeletedType
      <4>2. Phase = "guarded" /\ Phase' = "terminating"
        BY <3>1, <3>3, <4>1, PhaseCases, PhaseCasesNext
      <4> QED
        BY <3>2, <4>2 DEF Contract!Next, Contract!Terminate
    <3>4. CASE ~Fin(cr)
      <4>1. Phase = "unguarded" /\ Phase' = "none"
        BY <3>1, <3>4, PhaseCases, PhaseCasesNext
      <4> QED
        BY <3>2, <4>1 DEF Contract!Next, Contract!Discard
    <3> QED
      BY <3>3, <3>4
  <2> QED
    BY <1>3, <2>1, <2>2, <2>3, <2>4, <2>5, <2>6, LiveSteps
<1> QED
  BY <1>2, <1>3

\* The reconciler with its stale cache, its faults and its environment implements
\* the contract, as long as nobody re-creates the object under a stale cache: what
\* it creates finds what it needs, a Kueue object that is not being deleted never
\* loses its ConfigMap or Secrets, and one that goes away leaves nothing behind.
THEOREM ContractImplemented == ASSUME ~StaleRecreate PROVE Spec => ImplementsContract
<1>1. Init => Contract!Init
  <2> SUFFICES ASSUME Init PROVE Phase = "none" /\ Remains = {}
    BY DEF Contract!Init
  <2>1. Phase = "none"
    BY PhaseCases DEF Init
  <2>2. Remains = {}
    BY DEF Init, Remains, Cleaned, Groups
  <2> QED
    BY <2>1, <2>2
<1>2. TypeOK /\ TypeOK' /\ GuardInv /\ GuardInv' /\ CertInv /\ [Next]_vars
        => [Contract!Next]_Contract!vars
  BY ContractStep
<1> QED
  BY <1>1, <1>2, GuardCorrect, CertInvariant, PTL DEF Spec, ImplementsContract, Contract!Spec

(***************************************************************************)
(* How long the step "wait" of a sync holds the only worker: the polls this *)
(* step stands for are CertificateWait's, which has a clock of its own.    *)
(***************************************************************************)
CONSTANTS Names, Timeout, CallTime

VARIABLES
    cert, secret, current, elapsed,
    step,                   \* of the poll
    disturbed, failed       \* changes by others and failed calls so far

Wait == INSTANCE CertificateWait WITH pc <- step, changes <- disturbed, faults <- failed

\* How far the clock of one wait may have got at each step: a poll begins before
\* the deadline, and makes two calls and one sleep at the most.
WaitInv ==
    /\ step \in {"idle", "apply", "serve", "secret", "sleep", "poll"}
    /\ elapsed \in Nat
    /\ step \in {"idle", "apply", "serve"} => elapsed = 0
    /\ step = "secret" => elapsed <= Timeout + CallTime
    /\ step = "sleep" => elapsed <= Timeout + 2 * CallTime
    /\ step = "poll" => elapsed <= Timeout + 1 + 2 * CallTime

\* Every step of the sync, of cert-manager and of other clients preserves it.
LEMMA WaitStep ==
    ASSUME Timeout \in Nat, CallTime \in Nat, WaitInv, [Wait!Next]_Wait!vars
    PROVE  WaitInv'
<1>1. CASE UNCHANGED <<step, elapsed>>
  BY <1>1 DEF WaitInv
<1>2. CASE Wait!BeginSync \/ Wait!TimedOut \/ Wait!GetSecret \/ Wait!manageWebhooks
           \/ Wait!SyncFails
  BY <1>2 DEF Wait!BeginSync, Wait!TimedOut, Wait!GetSecret, Wait!manageWebhooks,
     Wait!SyncFails, Wait!Return, WaitInv
<1>3. CASE Wait!manageCertificate
  BY <1>3 DEF Wait!manageCertificate, Wait!Advance, WaitInv
<1>4. CASE Wait!GetCertificate \/ Wait!GetSecretIncomplete
  BY <1>4 DEF Wait!GetCertificate, Wait!GetSecretIncomplete, Wait!Call, WaitInv
<1>5. CASE Wait!Sleep
  BY <1>5 DEF Wait!Sleep, WaitInv
<1> QED
  BY <1>1, <1>2, <1>3, <1>4, <1>5 DEF Wait!vars, Wait!Next, Wait!Sync, Wait!Trigger,
     Wait!Issue, Wait!Readiness, Wait!Renew, Wait!Disturb

\* One wait holds the only worker for its timeout, one sleep and the calls of one
\* poll at the most, for every number of Certificates and however long a call
\* takes, whatever cert-manager and other clients do and whichever calls fail.
THEOREM WaitBoundedCorrect ==
    ASSUME Timeout \in Nat, CallTime \in Nat PROVE Wait!Spec => []Wait!WaitBounded
<1>1. Wait!Init => WaitInv
  BY DEF Wait!Init, WaitInv
<1>2. WaitInv => Wait!WaitBounded
  BY DEF WaitInv, Wait!WaitBounded
<1>3. WaitInv /\ [Wait!Next]_Wait!vars => WaitInv'
  BY WaitStep
<1> QED
  BY <1>1, <1>2, <1>3, PTL DEF Wait!Spec
=============================================================================
