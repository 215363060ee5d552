--------------------------- MODULE FinalizerPatch ---------------------------
(***************************************************************************)
(* updateFinalizer on a Kueue object that other parties put finalizers on  *)
(* too (a foreground deletion does, through the API server).               *)
(*                                                                         *)
(* The patch is computed by CreateTwoWayMergePatch for the list strategy   *)
(* "merge" and sent as MergePatchType, which knows no such strategy: its   *)
(* $setElementOrder and $deleteFromPrimitiveList directives mean nothing   *)
(* to the server.  The object is read and patched in two calls; the patch  *)
(* carries no resourceVersion.                                             *)
(*                                                                         *)
(* Simplifications: sync is reduced to what surrounds the two calls of     *)
(* updateFinalizer.  Of the operand it keeps whether the objects exist     *)
(* that cleanUpResources deletes by name: it fails where one of them is    *)
(* gone already.  The informer may miss intermediate versions.  The write  *)
(* of the patched object through the pointer into the informer's store is  *)
(* one of the moments at which WatchDeliver may act.                       *)
(***************************************************************************)
EXTENDS Naturals

CONSTANTS
    Own,          \* KueueFinalizer
    Others,       \* finalizers of other parties
    NoObject,     \* there is no Kueue object
    NoChange,     \* a patch without the key finalizers
    MaxUid,       \* how many times the user creates the object
    MaxChanges,   \* finalizers added by others, and removals forced by the user
    MaxFaults     \* failed calls, lost answers, restarts

ASSUME PatchAssumption ==
    /\ Own \notin Others
    /\ \A fins \in SUBSET (Others \union {Own}) : NoChange # fins
    /\ MaxUid \in Nat \ {0}
    /\ MaxChanges \in Nat
    /\ MaxFaults \in Nat

Finalizers == Others \union {Own}

Objects == [uid: 1..MaxUid, deleting: BOOLEAN, finalizers: SUBSET Finalizers]

ASSUME NoObjectAssumption == NoObject \notin Objects

VARIABLES
    live,       \* the object in the API server
    uids,       \* objects created so far
    cached,     \* the informer's copy
    pc,         \* where the running sync is
    kueue,      \* sync's copy
    original,   \* what updateFinalizer's Get returned
    named,      \* do the ConfigMap and the Secrets exist?
    changes,
    faults

serverVars == <<live, uids>>
syncVars == <<pc, kueue, original>>
vars == <<live, uids, cached, pc, kueue, original, named, changes, faults>>

Steps == {"idle", "addGet", "addPatch", "apply", "cleanUp", "removeGet", "removePatch"}

Init ==
    /\ live = NoObject
    /\ uids = 0
    /\ cached = NoObject
    /\ pc = "idle"
    /\ kueue = NoObject
    /\ original = NoObject
    /\ named = FALSE
    /\ changes = 0
    /\ faults = 0

-----------------------------------------------------------------------------
(* The patch and its effect *)

\* Variant: every change of a list that stays non-empty is a directive only.
DirectiveOnAdd(fins) == IF fins = {} THEN {Own} ELSE NoChange

\* The key finalizers of the patch that adds Own: the list of additions.
AddPatchKey(fins) == {Own}

\* Variant: the field is always cleared.
ClearOnRemove(fins) == {}

\* Variant: deletions are left out of the patch.
IgnoreDeletions(fins) == NoChange

\* The key finalizers of the patch that removes Own: null (an empty list) when
\* the field disappears, else only a directive the server ignores.
RemovePatchKey(fins) == IF fins = {Own} THEN {} ELSE NoChange

\* A JSON merge patch replaces a list as a whole.
Merge(fins, key) == IF key = NoChange THEN fins ELSE key

\* The server adds no finalizer to an object under deletion.
Refused(object, fins) == object.deleting /\ ~ fins \subseteq object.finalizers

\* The server removes an object under deletion with its last finalizer.
Stored(object, fins) ==
    IF object.deleting /\ fins = {} THEN NoObject ELSE [object EXCEPT !.finalizers = fins]

\* What the server makes of the two patches, whatever the object is by then.
Added == Merge(live.finalizers, AddPatchKey(original.finalizers))
AddTakesEffect == ~ Refused(live, Added) /\ live' = Stored(live, Added)
RemoveTakesEffect ==
    live' = Stored(live, Merge(live.finalizers, RemovePatchKey(original.finalizers)))

-----------------------------------------------------------------------------
(* sync *)

\* updateFinalizer(add) returned nil: cleanup, or apply.
AfterAdd(object) == IF object.deleting THEN "cleanUp" ELSE "apply"

\* The cached copy decides whether the live object is looked at at all.
BeginSync ==
    /\ pc = "idle"
    /\ cached # NoObject
    /\ kueue' = cached
    /\ pc' = IF Own \in cached.finalizers THEN AfterAdd(cached) ELSE "addGet"
    /\ UNCHANGED <<serverVars, cached, original, named, changes, faults>>

AddGetNotFound ==
    /\ pc = "addGet"
    /\ live = NoObject
    /\ pc' = "idle"
    /\ UNCHANGED <<serverVars, cached, kueue, original, named, changes, faults>>

\* The live object has the finalizer already; kueue stays as it is.
AddGetPresent ==
    /\ pc = "addGet"
    /\ live # NoObject
    /\ Own \in live.finalizers
    /\ pc' = AfterAdd(kueue)
    /\ UNCHANGED <<serverVars, cached, kueue, original, named, changes, faults>>

\* Variant: the object that was read is not kept.
AddGetForgets ==
    /\ pc = "addGet"
    /\ live # NoObject
    /\ Own \notin live.finalizers
    /\ pc' = "addPatch"
    /\ UNCHANGED <<serverVars, cached, kueue, original, named, changes, faults>>

AddGet ==
    /\ pc = "addGet"
    /\ live # NoObject
    /\ Own \notin live.finalizers
    /\ original' = live
    /\ pc' = "addPatch"
    /\ UNCHANGED <<serverVars, cached, kueue, named, changes, faults>>

AddPatch ==
    /\ pc = "addPatch"
    /\ live # NoObject
    /\ AddTakesEffect
    /\ kueue' = live'
    /\ pc' = AfterAdd(live)
    /\ UNCHANGED <<uids, cached, original, named, changes, faults>>

AddPatchRefused ==
    /\ pc = "addPatch"
    /\ live # NoObject => Refused(live, Added)
    /\ pc' = "idle"
    /\ UNCHANGED <<serverVars, cached, kueue, original, named, changes, faults>>

\* The rest of the sync; it writes no finalizer.
Apply ==
    /\ pc = "apply"
    /\ named' = TRUE
    /\ pc' = "idle"
    /\ UNCHANGED <<serverVars, cached, kueue, original, changes, faults>>

\* The steps of the cleanup up to the end of cleanUpResources.
CleanUp ==
    /\ pc = "cleanUp"
    /\ named
    /\ named' = FALSE
    /\ pc' = "removeGet"
    /\ UNCHANGED <<serverVars, cached, kueue, original, changes, faults>>

\* NotFound counts as a failure, and the sync returns it.
CleanUpNotFound ==
    /\ pc = "cleanUp"
    /\ ~ named
    /\ pc' = "idle"
    /\ UNCHANGED <<serverVars, cached, kueue, original, named, changes, faults>>

\* Nothing to remove: kueue, or the live object, is without the finalizer.
RemoveSkipped ==
    /\ pc = "removeGet"
    /\ \/ Own \notin kueue.finalizers
       \/ live # NoObject /\ Own \notin live.finalizers
    /\ pc' = "idle"
    /\ UNCHANGED <<serverVars, cached, kueue, original, named, changes, faults>>

\* Get or Patch fails; the failure is logged and sync returns nil.
RemoveNotFound ==
    /\ pc \in {"removeGet", "removePatch"}
    /\ Own \in kueue.finalizers
    /\ live = NoObject
    /\ pc' = "idle"
    /\ UNCHANGED <<serverVars, cached, kueue, original, named, changes, faults>>

RemoveGet ==
    /\ pc = "removeGet"
    /\ Own \in kueue.finalizers
    /\ live # NoObject
    /\ Own \in live.finalizers
    /\ original' = live
    /\ pc' = "removePatch"
    /\ UNCHANGED <<serverVars, cached, kueue, named, changes, faults>>

RemovePatch ==
    /\ pc = "removePatch"
    /\ live # NoObject
    /\ RemoveTakesEffect
    /\ pc' = "idle"
    /\ UNCHANGED <<uids, cached, kueue, original, named, changes, faults>>

\* A call fails, or the process restarts: the next sync starts over, with
\* what the cleanup deleted before.
SyncFails ==
    /\ pc # "idle"
    /\ faults < MaxFaults
    /\ faults' = faults + 1
    /\ named' \in {named} \union (IF pc = "cleanUp" THEN {FALSE} ELSE {})
    /\ pc' = "idle"
    /\ UNCHANGED <<serverVars, cached, kueue, original, changes>>

\* The patch takes effect and its answer is lost.
PatchAnswerLost ==
    /\ faults < MaxFaults
    /\ faults' = faults + 1
    /\ live # NoObject
    /\ \/ pc = "addPatch" /\ AddTakesEffect
       \/ pc = "removePatch" /\ RemoveTakesEffect
    /\ pc' = "idle"
    /\ UNCHANGED <<uids, cached, kueue, original, named, changes>>

Sync ==
    \/ BeginSync
    \/ AddGetNotFound \/ AddGetPresent \/ AddGet \/ AddPatch \/ AddPatchRefused
    \/ Apply
    \/ CleanUp \/ CleanUpNotFound
    \/ RemoveSkipped \/ RemoveNotFound \/ RemoveGet \/ RemovePatch
-----------------------------------------------------------------------------
(* The others *)

\* A manifest may carry finalizers.  The user creates a new object only when
\* the informer has seen the end of the old one.
UserCreate ==
    /\ live = NoObject
    /\ cached = NoObject
    /\ uids < MaxUid
    /\ uids' = uids + 1
    /\ \E fins \in SUBSET Others :
          live' = [uid |-> uids + 1, deleting |-> FALSE, finalizers |-> fins]
    /\ UNCHANGED <<cached, syncVars, named, changes, faults>>

OtherAdds ==
    /\ live # NoObject
    /\ ~ live.deleting
    /\ changes < MaxChanges
    /\ changes' = changes + 1
    /\ \E f \in Others \ live.finalizers : live' = [live EXCEPT !.finalizers = @ \union {f}]
    /\ UNCHANGED <<uids, cached, syncVars, named, faults>>

OtherReleases ==
    /\ live # NoObject
    /\ \E f \in Others \intersect live.finalizers : live' = Stored(live, live.finalizers \ {f})
    /\ UNCHANGED <<uids, cached, syncVars, named, changes, faults>>

\* With propagationPolicy Foreground or Orphan the server adds a finalizer
\* in the same step.
UserDelete ==
    /\ live # NoObject
    /\ ~ live.deleting
    /\ \E policy \in {{}} \union {{f} : f \in Others} :
          live' = Stored([live EXCEPT !.deleting = TRUE], live.finalizers \union policy)
    /\ UNCHANGED <<uids, cached, syncVars, named, changes, faults>>

\* The user clears the list of an object whose deletion takes too long.
UserForcesRemoval ==
    /\ live # NoObject
    /\ live.deleting
    /\ changes < MaxChanges
    /\ changes' = changes + 1
    /\ live' = NoObject
    /\ UNCHANGED <<uids, cached, syncVars, named, faults>>

WatchDeliver ==
    /\ cached # live
    /\ cached' = live
    /\ UNCHANGED <<serverVars, syncVars, named, changes, faults>>

Next ==
    \/ Sync \/ SyncFails \/ PatchAnswerLost
    \/ UserCreate \/ UserDelete \/ UserForcesRemoval \/ OtherAdds \/ OtherReleases \/ WatchDeliver

\* Whoever put a finalizer on an object takes it off once it is deleted.
Fairness ==
    /\ WF_vars(Sync)
    /\ WF_vars(WatchDeliver)
    /\ WF_vars(live # NoObject /\ live.deleting /\ OtherReleases)

Spec == Init /\ [][Next]_vars /\ Fairness

-----------------------------------------------------------------------------
(* Properties *)

TypeOK ==
    /\ live \in Objects \union {NoObject}
    /\ uids \in 0..MaxUid
    /\ cached \in Objects \union {NoObject}
    /\ pc \in Steps
    /\ kueue \in Objects \union {NoObject}
    /\ original \in Objects \union {NoObject}
    /\ named \in BOOLEAN
    /\ changes \in 0..MaxChanges
    /\ faults \in 0..MaxFaults
    /\ pc # "idle" => kueue # NoObject
    /\ pc \in {"addPatch", "removePatch"} => original # NoObject

\* While sync applies the operand, the object it applies it for carries the
\* operator's finalizer, whatever others do to the list (T:425-433 rely on
\* addFinalizerToKueueInstance for that).
GuardedWhileApplying ==
    pc = "apply" /\ live # NoObject /\ live.uid = kueue.uid => Own \in live.finalizers

\* No step of sync takes somebody else's finalizer from the object under
\* deletion it works for: the patch that clears the list (T:1067-1080) is made
\* only from a list of one, and no list of an object under deletion grows.
RemovalKeepsOthers ==
    [][Sync \/ PatchAnswerLost =>
        (pc # "idle" /\ live # NoObject /\ live.deleting /\ live.uid = kueue.uid
                /\ live.finalizers \intersect Others # {}
            => live' # NoObject /\ live.finalizers \intersect Others \subseteq live'.finalizers)]_vars

\* If no call fails, an object whose deletion nobody else takes part in goes,
\* the operand being complete: the patch that removes the last finalizer clears
\* the field.
UnsharedDeletionCompletes ==
    [](faults = 0) => \A u \in 1..MaxUid :
        (live # NoObject /\ live.uid = u /\ live.deleting /\ live.finalizers = {Own} /\ named)
            ~> (live = NoObject \/ live.uid # u)
=============================================================================
