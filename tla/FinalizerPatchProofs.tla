------------------------ MODULE FinalizerPatchProofs ------------------------
(* Machine-checked proofs about FinalizerPatch, for every set of other      *)
(* parties' finalizers and every bound.                                     *)
EXTENDS FinalizerPatch, TLAPS

(***************************************************************************)
(* Type correctness                                                        *)
(***************************************************************************)

\* An object keeps its type when its finalizers are replaced, unless that
\* ends it.
LEMMA StoredType ==
    ASSUME NEW object \in Objects, NEW fins \in SUBSET Finalizers
    PROVE  /\ Stored(object, fins) \in Objects \union {NoObject}
           /\ Stored(object, fins) # NoObject =>
                 /\ Stored(object, fins).uid = object.uid
                 /\ Stored(object, fins).deleting = object.deleting
                 /\ Stored(object, fins).finalizers = fins
BY NoObjectAssumption DEF Stored, Objects

\* Both patches leave a list of finalizers.
LEMMA PatchType ==
    ASSUME NEW fins \in SUBSET Finalizers, NEW old \in SUBSET Finalizers
    PROVE  /\ Merge(fins, AddPatchKey(old)) = {Own}
           /\ {Own} \in SUBSET Finalizers
           /\ Merge(fins, RemovePatchKey(old)) = IF old = {Own} THEN {} ELSE fins
           /\ Merge(fins, RemovePatchKey(old)) \in SUBSET Finalizers
<1>1. NoChange # {Own} /\ NoChange # {}
  BY PatchAssumption
<1> QED
  BY <1>1 DEF Merge, AddPatchKey, RemovePatchKey, Finalizers

\* What a patch that takes effect makes of the live object.
LEMMA AddEffect ==
    ASSUME TypeOK, pc = "addPatch", live # NoObject, AddTakesEffect
    PROVE  /\ live' \in Objects
           /\ live'.uid = live.uid /\ live'.deleting = live.deleting
           /\ live'.finalizers = {Own}
           /\ live.deleting => Own \in live.finalizers
<1>1. live \in Objects /\ original \in Objects
  BY DEF TypeOK
<1>2. live.finalizers \in SUBSET Finalizers /\ original.finalizers \in SUBSET Finalizers
  BY <1>1 DEF Objects
<1>3. Added = {Own} /\ {Own} \in SUBSET Finalizers
  BY <1>2, PatchType DEF Added
<1>4. live' = Stored(live, {Own}) /\ (live.deleting => Own \in live.finalizers)
  BY <1>3 DEF AddTakesEffect, Refused
<1>5. live' = [live EXCEPT !.finalizers = {Own}]
  BY <1>4 DEF Stored
<1> QED
  BY <1>1, <1>3, <1>4, <1>5 DEF Objects

LEMMA RemoveEffect ==
    ASSUME TypeOK, pc = "removePatch", live # NoObject, RemoveTakesEffect
    PROVE  /\ live' \in Objects \union {NoObject}
           /\ live' # NoObject =>
                 /\ live'.uid = live.uid /\ live'.deleting = live.deleting
                 /\ live'.finalizers = IF original.finalizers = {Own} THEN {} ELSE live.finalizers
           /\ live.deleting /\ original.finalizers = {Own} => live' = NoObject
<1>1. live \in Objects /\ original \in Objects
  BY DEF TypeOK
<1>2. live.finalizers \in SUBSET Finalizers /\ original.finalizers \in SUBSET Finalizers
  BY <1>1 DEF Objects
<1> DEFINE fins == Merge(live.finalizers, RemovePatchKey(original.finalizers))
<1>3. /\ fins \in SUBSET Finalizers
      /\ fins = IF original.finalizers = {Own} THEN {} ELSE live.finalizers
  BY <1>2, PatchType
<1>4. live' = Stored(live, fins)
  BY DEF RemoveTakesEffect
<1> HIDE DEF fins
<1>5. live.deleting /\ fins = {} => live' = NoObject
  BY <1>4 DEF Stored
<1> QED
  BY <1>1, <1>3, <1>4, <1>5, StoredType

\* What others do to the live object.
LEMMA UserCreateEffect ==
    ASSUME TypeOK, UserCreate
    PROVE  /\ live' \in Objects
           /\ live'.uid = uids' /\ ~ live'.deleting /\ Own \notin live'.finalizers
<1>1. PICK fins \in SUBSET Others :
         live' = [uid |-> uids + 1, deleting |-> FALSE, finalizers |-> fins]
  BY DEF UserCreate
<1>2. uids + 1 \in 1..MaxUid /\ uids' = uids + 1
  BY PatchAssumption DEF UserCreate, TypeOK
<1> QED
  BY <1>1, <1>2, PatchAssumption DEF Objects, Finalizers

LEMMA OthersEffect ==
    ASSUME TypeOK, OtherAdds \/ OtherReleases \/ UserDelete
    PROVE  /\ live # NoObject
           /\ live' \in Objects \union {NoObject}
           /\ live' # NoObject =>
                 /\ live'.uid = live.uid
                 /\ live.deleting => live'.deleting /\ live'.finalizers \subseteq live.finalizers
                 /\ Own \in live'.finalizers <=> Own \in live.finalizers
<1>1. live # NoObject /\ live \in Objects /\ live.finalizers \in SUBSET Finalizers
  BY DEF OtherAdds, OtherReleases, UserDelete, TypeOK, Objects
<1>2. CASE OtherAdds
  <2>1. PICK f \in Others \ live.finalizers :
           live' = [live EXCEPT !.finalizers = @ \union {f}]
    BY <1>2 DEF OtherAdds
  <2>2. ~ live.deleting
    BY <1>2 DEF OtherAdds
  <2> QED
    BY <1>1, <2>1, <2>2, PatchAssumption DEF Objects, Finalizers
<1>3. CASE OtherReleases
  <2>1. PICK f \in Others \intersect live.finalizers :
           live' = Stored(live, live.finalizers \ {f})
    BY <1>3 DEF OtherReleases
  <2>2. live.finalizers \ {f} \in SUBSET Finalizers /\ f # Own
    BY <1>1, PatchAssumption
  <2> QED
    BY <1>1, <2>1, <2>2, StoredType
<1>4. CASE UserDelete
  <2>1. PICK policy \in {{}} \union {{f} : f \in Others} :
           live' = Stored([live EXCEPT !.deleting = TRUE], live.finalizers \union policy)
    BY <1>4 DEF UserDelete
  <2>2. policy \subseteq Others
    OBVIOUS
  <2>3. /\ live.finalizers \union policy \in SUBSET Finalizers
        /\ Own \in live.finalizers \union policy <=> Own \in live.finalizers
    BY <1>1, <2>2, PatchAssumption DEF Finalizers
  <2> DEFINE marked == [live EXCEPT !.deleting = TRUE]
  <2>4. marked \in Objects /\ marked.uid = live.uid
    BY <1>1 DEF Objects
  <2>5. ~ live.deleting
    BY <1>4 DEF UserDelete
  <2>6. live' = Stored(marked, live.finalizers \union policy)
    BY <2>1
  <2> HIDE DEF marked
  <2> QED
    BY <1>1, <2>3, <2>4, <2>5, <2>6, StoredType
<1> QED
  BY <1>2, <1>3, <1>4

\* Every step keeps the types.
LEMMA TypeStep == TypeOK /\ [Next]_vars => TypeOK'
<1> SUFFICES ASSUME TypeOK, [Next]_vars PROVE TypeOK'
  OBVIOUS
<1> USE PatchAssumption, NoObjectAssumption DEF serverVars, syncVars, Steps
<1>1. CASE UNCHANGED vars
  BY <1>1 DEF vars, TypeOK
<1>2. CASE BeginSync
  BY <1>2 DEF BeginSync, AfterAdd, TypeOK
<1>3. CASE AddGetNotFound \/ AddGetPresent \/ AddPatchRefused
  BY <1>3 DEF AddGetNotFound, AddGetPresent, AddPatchRefused, AfterAdd, TypeOK
<1>4. CASE AddGet \/ RemoveGet
  BY <1>4 DEF AddGet, RemoveGet, TypeOK
<1>5. CASE AddPatch
  BY <1>5, AddEffect DEF AddPatch, AfterAdd, TypeOK
<1>6. CASE Apply \/ CleanUp \/ CleanUpNotFound \/ RemoveSkipped \/ RemoveNotFound
  BY <1>6 DEF Apply, CleanUp, CleanUpNotFound, RemoveSkipped, RemoveNotFound, TypeOK
<1>7. CASE RemovePatch
  BY <1>7, RemoveEffect DEF RemovePatch, TypeOK
<1>8. CASE SyncFails
  <2>1. named' \in BOOLEAN
    BY <1>8, Zenon DEF SyncFails, TypeOK
  <2>2. faults' \in 0..MaxFaults
    BY <1>8 DEF SyncFails, TypeOK
  <2> QED
    BY <1>8, <2>1, <2>2 DEF SyncFails, TypeOK
<1>9. CASE PatchAnswerLost
  <2>1. live' \in Objects \union {NoObject}
    BY <1>9, AddEffect, RemoveEffect DEF PatchAnswerLost
  <2> QED
    BY <1>9, <2>1 DEF PatchAnswerLost, TypeOK
<1>10. CASE UserCreate
  <2>1. live' \in Objects
    BY <1>10, UserCreateEffect
  <2>2. uids' \in 0..MaxUid
    BY <1>10 DEF UserCreate, TypeOK
  <2> QED
    BY <1>10, <2>1, <2>2 DEF UserCreate, TypeOK
<1>11. CASE OtherAdds \/ OtherReleases \/ UserDelete
  <2>1. live' \in Objects \union {NoObject}
    BY <1>11, OthersEffect
  <2> QED
    BY <1>11, <2>1 DEF OtherAdds, OtherReleases, UserDelete, TypeOK
<1>12. CASE UserForcesRemoval
  BY <1>12 DEF UserForcesRemoval, TypeOK
<1>13. CASE WatchDeliver
  BY <1>13 DEF WatchDeliver, TypeOK
<1> QED
  BY <1>1, <1>2, <1>3, <1>4, <1>5, <1>6, <1>7, <1>8, <1>9, <1>10, <1>11, <1>12, <1>13
     DEF Next, Sync

\* Every variable keeps its type; a running sync holds an object, and a patch
\* is always made from an object that was read.
THEOREM TypeCorrect == Spec => []TypeOK
<1>1. Init => TypeOK
  <2>1. 0 \in 0..MaxUid /\ 0 \in 0..MaxChanges /\ 0 \in 0..MaxFaults
    BY PatchAssumption
  <2> QED
    BY <2>1, Zenon DEF Init, TypeOK, Steps
<1> QED
  BY <1>1, TypeStep, PTL DEF Spec

(***************************************************************************)
(* The finalizer guards what is applied                                    *)
(***************************************************************************)

\* Uids grow; the informer and a sync know of objects that were created.
UidsPast ==
    /\ live # NoObject => live.uid = uids
    /\ cached # NoObject => cached.uid <= uids
    /\ pc # "idle" => kueue.uid <= uids

\* The informer's copy is of the live object or of none; what it says of the
\* deletion, and of the finalizer before it, is still so.
CachedIsLive ==
    cached # NoObject /\ live # NoObject =>
        /\ cached.uid = live.uid
        /\ cached.deleting => live.deleting
        /\ Own \in cached.finalizers /\ ~ cached.deleting => Own \in live.finalizers

\* A sync that works for the live object is right about its deletion; one that
\* outlived its object has put no finalizer on the next.
SyncIsBehind ==
    pc # "idle" /\ live # NoObject =>
        /\ live.uid = kueue.uid /\ kueue.deleting => live.deleting
        /\ live.uid # kueue.uid =>
              /\ Own \notin live.finalizers
              /\ cached # NoObject => Own \notin cached.finalizers

\* Nobody but the sync adds the operator's finalizer.
AddIsNew == pc = "addPatch" /\ live # NoObject => Own \notin live.finalizers

\* A sync cleans up only for an object under deletion, and the list it read
\* before the removal has only shrunk since.
RemoveIsDue ==
    /\ pc \in {"cleanUp", "removeGet", "removePatch"} => kueue.deleting
    /\ pc = "removePatch" /\ live # NoObject /\ live.uid = kueue.uid =>
          live.finalizers \subseteq original.finalizers

PatchInv ==
    /\ UidsPast
    /\ CachedIsLive
    /\ SyncIsBehind
    /\ AddIsNew
    /\ RemoveIsDue
    /\ GuardedWhileApplying

\* Every step keeps the invariant.
LEMMA PatchStep == TypeOK /\ PatchInv /\ [Next]_vars => PatchInv'
<1> SUFFICES ASSUME TypeOK, PatchInv, [Next]_vars PROVE PatchInv'
  OBVIOUS
<1> USE DEF UidsPast, CachedIsLive, SyncIsBehind, AddIsNew, RemoveIsDue, GuardedWhileApplying,
            serverVars, syncVars
<1>1. CASE UNCHANGED vars
  BY <1>1 DEF vars, PatchInv
<1>2. CASE BeginSync
  <2>1. /\ kueue' = cached /\ cached # NoObject
        /\ pc' \in {"apply", "cleanUp", "addGet"}
        /\ pc' = "apply" => Own \in cached.finalizers /\ ~ cached.deleting
        /\ pc' = "cleanUp" => cached.deleting
        /\ UNCHANGED <<live, uids, cached, original>>
    BY <1>2 DEF BeginSync, AfterAdd
  <2>2. cached.uid <= uids
    BY <2>1 DEF PatchInv
  <2> QED
    BY <2>1, <2>2 DEF PatchInv
<1>3. CASE AddGetNotFound \/ AddGetPresent \/ AddPatchRefused
  BY <1>3 DEF AddGetNotFound, AddGetPresent, AddPatchRefused, AfterAdd, PatchInv, TypeOK, Objects
<1>4. CASE AddGet \/ RemoveGet
  BY <1>4 DEF AddGet, RemoveGet, PatchInv
<1>5. CASE AddPatch
  <2>1. /\ live' \in Objects /\ live'.uid = live.uid /\ live'.deleting = live.deleting
        /\ live'.finalizers = {Own} /\ ~ live.deleting
    BY <1>5, AddEffect DEF AddPatch, PatchInv
  <2>2. pc' = "apply" /\ kueue' = live' /\ live # NoObject
    BY <1>5, <2>1 DEF AddPatch, AfterAdd
  <2> QED
    BY <1>5, <2>1, <2>2 DEF AddPatch, PatchInv, TypeOK, Objects
<1>6. CASE Apply \/ CleanUp \/ CleanUpNotFound \/ RemoveSkipped \/ RemoveNotFound \/ SyncFails
  BY <1>6 DEF Apply, CleanUp, CleanUpNotFound, RemoveSkipped, RemoveNotFound, SyncFails, PatchInv
<1>7. CASE pc = "removePatch" /\ live # NoObject /\ RemoveTakesEffect /\ pc' = "idle"
           /\ UNCHANGED <<uids, cached, kueue, original>>
  <2>1. /\ live' # NoObject => live'.uid = live.uid /\ live'.deleting = live.deleting
        /\ live' # NoObject /\ live.uid = kueue.uid => live'.finalizers = live.finalizers
    BY <1>7, RemoveEffect DEF PatchInv
  <2>2. live' # NoObject /\ live.uid # kueue.uid /\ cached # NoObject =>
           Own \notin cached.finalizers
    BY <1>7 DEF PatchInv
  <2> QED
    BY <1>7, <2>1, <2>2 DEF PatchInv
<1>8. CASE PatchAnswerLost /\ pc = "addPatch"
  <2>1. /\ live' \in Objects /\ live'.uid = live.uid /\ live'.deleting = live.deleting
        /\ live'.finalizers = {Own}
    BY <1>8, AddEffect DEF PatchAnswerLost
  <2> QED
    BY <1>8, <2>1 DEF PatchAnswerLost, PatchInv
<1>9. CASE UserCreate
  <2>1. /\ live' \in Objects
        /\ live'.uid = uids' /\ ~ live'.deleting /\ Own \notin live'.finalizers
    BY <1>9, UserCreateEffect
  <2>2. uids' = uids + 1 /\ (pc # "idle" => kueue.uid < uids')
    BY <1>9 DEF UserCreate, PatchInv, TypeOK, Objects
  <2> QED
    BY <1>9, <2>1, <2>2 DEF UserCreate, PatchInv, TypeOK, Objects
<1>10. CASE OtherAdds \/ OtherReleases \/ UserDelete
  <2>1. UNCHANGED <<uids, cached, pc, kueue, original>>
    BY <1>10 DEF OtherAdds, OtherReleases, UserDelete
  <2> QED
    BY <1>10, <2>1, OthersEffect DEF PatchInv
<1>11. CASE UserForcesRemoval
  BY <1>11 DEF UserForcesRemoval, PatchInv
<1>12. CASE WatchDeliver
  BY <1>12 DEF WatchDeliver, PatchInv, TypeOK
<1> QED
  BY <1>1, <1>2, <1>3, <1>4, <1>5, <1>6, <1>7, <1>8, <1>9, <1>10, <1>11, <1>12
     DEF Next, Sync, RemovePatch, PatchAnswerLost

\* The invariant, of every behaviour.
LEMMA PatchInvariant == Spec => []PatchInv
<1>1. Init => PatchInv
  BY DEF Init, PatchInv, UidsPast, CachedIsLive, SyncIsBehind, AddIsNew, RemoveIsDue,
         GuardedWhileApplying
<1> QED
  BY <1>1, TypeCorrect, PatchStep, PTL DEF Spec

\* What sync applies, it applies for an object that carries its finalizer, or
\* that is gone: the finalizer keeps the object until the cleanup, whatever
\* the others do to the list.
THEOREM GuardedWhileApplyingCorrect == Spec => []GuardedWhileApplying
<1>1. PatchInv => GuardedWhileApplying
  BY DEF PatchInv
<1> QED
  BY <1>1, PatchInvariant, PTL

\* No step of sync takes the finalizers of others from the object under
\* deletion it works for, whatever has happened between its two calls: a patch
\* that adds is refused there, and one that clears comes from a list of one.
THEOREM RemovalKeepsOthersCorrect == Spec => RemovalKeepsOthers
<1> DEFINE Held == /\ pc # "idle" /\ live # NoObject /\ live.deleting /\ live.uid = kueue.uid
                   /\ live.finalizers \intersect Others # {}
           Kept == /\ live' # NoObject
                   /\ live.finalizers \intersect Others \subseteq live'.finalizers
<1>1. ASSUME TypeOK, PatchInv, Sync \/ PatchAnswerLost, Held
      PROVE  Kept
  <2>1. CASE UNCHANGED live
    BY <1>1, <2>1
  <2>2. CASE pc = "addPatch" /\ AddTakesEffect
    BY <1>1, <2>2, AddEffect DEF PatchInv, AddIsNew
  <2>3. CASE pc = "removePatch" /\ RemoveTakesEffect
    <3>1. live \in Objects /\ original \in Objects /\ live.finalizers \in SUBSET Finalizers
      BY <1>1, <2>3 DEF TypeOK, Objects
    <3>2. live.finalizers \subseteq original.finalizers
      BY <1>1, <2>3 DEF PatchInv, RemoveIsDue
    <3>3. original.finalizers # {Own}
      BY <1>1, <3>2, PatchAssumption
    <3>4. RemovePatchKey(original.finalizers) = NoChange
      BY <3>3 DEF RemovePatchKey
    <3>5. live' = Stored(live, live.finalizers)
      BY <2>3, <3>4 DEF RemoveTakesEffect, Merge
    <3>6. live' = [live EXCEPT !.finalizers = live.finalizers]
      BY <1>1, <3>5 DEF Stored
    <3> QED
      BY <3>1, <3>6, NoObjectAssumption DEF Objects
  <2> QED
    BY <1>1, <2>1, <2>2, <2>3
       DEF Sync, PatchAnswerLost, BeginSync, AddGetNotFound, AddGetPresent, AddGet, AddPatch,
           AddPatchRefused, Apply, CleanUp, CleanUpNotFound, RemoveSkipped, RemoveNotFound,
           RemoveGet, RemovePatch, serverVars
<1>2. TypeOK /\ PatchInv => [Sync \/ PatchAnswerLost => (Held => Kept)]_vars
  BY <1>1
<1> QED
  BY <1>2, TypeCorrect, PatchInvariant, PTL DEF Spec, RemovalKeepsOthers
=============================================================================
