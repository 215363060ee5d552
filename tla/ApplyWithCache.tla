--------------------------- MODULE ApplyWithCache ---------------------------
(***************************************************************************)
(* One operand object under one of the reconciler's apply...WithCache      *)
(* functions.  The function first asks the informer's lister and the       *)
(* in-memory resource cache whether it may skip the object; otherwise it   *)
(* reads the live object, creates or updates it, and remembers (hash of    *)
(* what it required, resourceVersion of what it got).  Third parties change*)
(* and delete the object, the lister lags behind, calls fail, the process  *)
(* restarts and loses its memory.                                          *)
(*                                                                         *)
(* Kind selects what is special about the object:                          *)
(*   "plain"  the operator owns all of the content it compares             *)
(*            (roles, bindings, network policies, the Deployment)          *)
(*   "crd"    the conversion webhook's caBundle is cert-manager's; the     *)
(*            operator copies it from the lister into what it requires     *)
(*   "plc"    an administrator may change nominalConcurrencyShares within  *)
(*            limits by setting an annotation (PriorityLevelConfiguration) *)
(***************************************************************************)
EXTENDS Naturals, Sequences

CONSTANTS
    Kind,        \* "plain", "crd" or "plc"
    NoObj,       \* there is no object
    NoMemo,      \* the resource cache has no entry
    Specs,       \* the contents the object may have; for "plc" the shares
    Wants,       \* the contents the operator may require
    MaxLag,      \* watch events in flight
    MaxFaults,   \* failed calls, lost answers and restarts
    MaxChanges   \* changes by others and of what is required

ASSUME KindAssumption == Kind \in {"plain", "crd", "plc"}

ASSUME ContentAssumption ==
    /\ Specs \subseteq Nat
    /\ Wants \subseteq Specs
    /\ Wants # {}

ASSUME LimitsAssumption == MaxLag \in Nat \ {0} /\ MaxFaults \in Nat /\ MaxChanges \in Nat

\* What somebody else may put on the object: an injected caBundle, or the
\* annotation that allows the shares to differ.
Extras == {"none"}
          \union (IF Kind = "crd" THEN {"caBundle"} ELSE {})
          \union (IF Kind = "plc" THEN {"allowed"} ELSE {})

Version == [rv: Nat, spec: Specs, extra: Extras]

\* What an apply requires, and what its hash stands for.
Content == [spec: Specs, extra: Extras]

ASSUME NoObjAssumption == NoObj \notin Version

ASSUME NoMemoAssumption == NoMemo \notin [rv: Nat, required: Content]

VARIABLES
    live,       \* the live object
    rv,         \* the last resourceVersion given out
    lister,     \* the informer's copy
    events,     \* watch events the informer has not seen, oldest first
    memo,       \* the resource cache's entry for the object
    want,       \* the content the manage... function asks for
    pc,         \* the step of the running apply
    required,   \* its argument
    existing,   \* the live object it read
    faults,     \* faults so far
    changes     \* changes so far

objectVars == <<live, rv, events>>
bounds == <<faults, changes>>
vars == <<live, rv, lister, events, memo, want, pc, required, existing, faults, changes>>

\* required between two applies.
NoContent == [spec |-> CHOOSE s \in Wants : TRUE, extra |-> "none"]

TypeOK ==
    /\ live \in Version \union {NoObj}
    /\ rv \in Nat
    /\ lister \in Version \union {NoObj}
    /\ events \in Seq(Version \union {NoObj})
    /\ memo \in [rv: Nat, required: Content] \union {NoMemo}
    /\ want \in Wants
    /\ pc \in {"idle", "get", "create", "update"}
    /\ required \in Content
    /\ existing \in Version \union {NoObj}
    /\ pc = "update" => existing # NoObj
    /\ faults \in 0..MaxFaults
    /\ changes \in 0..MaxChanges

Init ==
    /\ live = NoObj
    /\ rv = 0
    /\ lister = NoObj
    /\ events = <<>>
    /\ memo = NoMemo
    /\ want \in Wants
    /\ pc = "idle"
    /\ required = NoContent
    /\ existing = NoObj
    /\ faults = 0
    /\ changes = 0

-----------------------------------------------------------------------------

\* The argument of the apply.  For a CRD the caBundle is taken from the lister.
Required ==
    [spec |-> want,
     extra |-> IF Kind = "crd" /\ lister # NoObj THEN lister.extra ELSE "none"]

\* Variant: the administrator's range ends one too early.
ToleratedBelowFive(v, shares) ==
    /\ Kind = "plc"
    /\ v.extra = "allowed"
    /\ (v.spec >= shares /\ v.spec < 5) \/ v.spec = 0

\* The administrator's setting that ApplyPriorityLevelConfiguration leaves alone.
Tolerated(v, shares) ==
    /\ Kind = "plc"
    /\ v.extra = "allowed"
    /\ (v.spec >= shares /\ v.spec <= 5) \/ v.spec = 0

\* Does the Apply... function find nothing to change?
Accepts(v, r) == (v.spec = r.spec /\ v.extra = r.extra) \/ Tolerated(v, r.spec)

\* Variant: compares the resourceVersion only.
SkipByVersion(r, v) == memo # NoMemo /\ v # NoObj /\ memo.rv = v.rv

SafeToSkipApply(r, v) ==
    memo # NoMemo /\ v # NoObj /\ memo.rv = v.rv /\ memo.required = r

\* The API server stores a new version and tells the watch.
Store(content) ==
    /\ Len(events) < MaxLag
    /\ rv' = rv + 1
    /\ live' = [rv |-> rv + 1, spec |-> content.spec, extra |-> content.extra]
    /\ events' = Append(events, live')

\* The apply returns.
Return ==
    /\ pc' = "idle"
    /\ required' = NoContent
    /\ existing' = NoObj

\* UpdateCachedResourceMetadata
Remember(version) == memo' = [rv |-> version, required |-> required]

-----------------------------------------------------------------------------
(* The reconciler                                                           *)

SkipApply ==
    /\ pc = "idle"
    /\ SafeToSkipApply(Required, lister)
    /\ UNCHANGED vars

BeginApply ==
    /\ pc = "idle"
    /\ ~SafeToSkipApply(Required, lister)
    /\ required' = Required
    /\ pc' = "get"
    /\ UNCHANGED <<objectVars, lister, memo, want, existing, bounds>>

\* The live Get finds nothing: create.
GetNotFound ==
    /\ pc = "get"
    /\ live = NoObj
    /\ pc' = "create"
    /\ UNCHANGED <<objectVars, lister, memo, want, required, existing, bounds>>

\* Variant: an object that needed no write is remembered under the newest version.
GetUnmodifiedNewest ==
    /\ pc = "get"
    /\ live # NoObj /\ Accepts(live, required)
    /\ Remember(rv + 1)
    /\ Return
    /\ UNCHANGED <<objectVars, lister, want, bounds>>

GetUnmodified ==
    /\ pc = "get"
    /\ live # NoObj /\ Accepts(live, required)
    /\ Remember(live.rv)
    /\ Return
    /\ UNCHANGED <<objectVars, lister, want, bounds>>

\* Variant: keeps no copy of what it read.
GetModifiedForgets ==
    /\ pc = "get"
    /\ live # NoObj /\ ~Accepts(live, required)
    /\ pc' = "update"
    /\ UNCHANGED <<objectVars, lister, memo, want, required, existing, bounds>>

GetModified ==
    /\ pc = "get"
    /\ live # NoObj /\ ~Accepts(live, required)
    /\ existing' = live
    /\ pc' = "update"
    /\ UNCHANGED <<objectVars, lister, memo, want, required, bounds>>

Create ==
    /\ pc = "create"
    /\ live = NoObj
    /\ Store(required)
    /\ Remember(rv')
    /\ Return
    /\ UNCHANGED <<lister, want, bounds>>

\* Somebody else created the object meanwhile.
CreateAlreadyExists ==
    /\ pc = "create"
    /\ live # NoObj
    /\ Return
    /\ UNCHANGED <<objectVars, lister, memo, want, bounds>>

\* Variant: the update carries no resourceVersion.
UpdateBlindly ==
    /\ pc = "update"
    /\ live # NoObj
    /\ Store(required)
    /\ Remember(rv')
    /\ Return
    /\ UNCHANGED <<lister, want, bounds>>

\* Variant: remembers the version it read, not the one it wrote.
UpdateRemembersRead ==
    /\ pc = "update"
    /\ live # NoObj /\ live.rv = existing.rv
    /\ Store(required)
    /\ Remember(existing.rv)
    /\ Return
    /\ UNCHANGED <<lister, want, bounds>>

\* The update carries the resourceVersion that was read.
Update ==
    /\ pc = "update"
    /\ live # NoObj /\ live.rv = existing.rv
    /\ Store(required)
    /\ Remember(rv')
    /\ Return
    /\ UNCHANGED <<lister, want, bounds>>

\* Conflict, or the object is gone.
UpdateRefused ==
    /\ pc = "update"
    /\ ~(live # NoObj /\ live.rv = existing.rv)
    /\ Return
    /\ UNCHANGED <<objectVars, lister, memo, want, bounds>>

Apply ==
    \/ SkipApply \/ BeginApply
    \/ GetNotFound \/ GetUnmodified \/ GetModified
    \/ Create \/ CreateAlreadyExists
    \/ Update \/ UpdateRefused

-----------------------------------------------------------------------------
(* Faults                                                                   *)

Fault ==
    /\ faults < MaxFaults
    /\ faults' = faults + 1
    /\ UNCHANGED changes

CallFails ==
    /\ pc # "idle"
    /\ Fault
    /\ Return
    /\ UNCHANGED <<objectVars, lister, memo, want>>

\* The write takes effect, its answer does not arrive: nothing is remembered.
AnswerLost ==
    /\ \/ pc = "create" /\ live = NoObj
       \/ pc = "update" /\ live # NoObj /\ live.rv = existing.rv
    /\ Store(required)
    /\ Fault
    /\ Return
    /\ UNCHANGED <<lister, memo, want>>

\* A new process starts from a fresh list and an empty resource cache.
Restart ==
    /\ Fault
    /\ Return
    /\ memo' = NoMemo
    /\ lister' = live
    /\ events' = <<>>
    /\ UNCHANGED <<live, rv, want>>

-----------------------------------------------------------------------------
(* The environment                                                          *)

Change ==
    /\ changes < MaxChanges
    /\ changes' = changes + 1
    /\ UNCHANGED faults

\* Another client writes the object: a user, an administrator, cert-manager,
\* or a controller that only writes status (the same content again).
Drift ==
    /\ live # NoObj
    /\ \E content \in Content : Store(content)
    /\ Change
    /\ UNCHANGED <<lister, memo, want, pc, required, existing>>

\* Another client creates the object: a user, or a former leader's late call.
CreateElsewhere ==
    /\ live = NoObj
    /\ \E s \in Specs : Store([spec |-> s, extra |-> "none"])
    /\ Change
    /\ UNCHANGED <<lister, memo, want, pc, required, existing>>

\* A user, the garbage collector or the cleanup deletes the object.
Delete ==
    /\ live # NoObj
    /\ Len(events) < MaxLag
    /\ live' = NoObj
    /\ events' = Append(events, NoObj)
    /\ Change
    /\ UNCHANGED <<rv, lister, memo, want, pc, required, existing>>

\* The Kueue spec or the operator's inputs change what is required.
ChangeWant ==
    /\ \E w \in Wants \ {want} : want' = w
    /\ Change
    /\ UNCHANGED <<objectVars, lister, memo, pc, required, existing>>

WatchDeliver ==
    /\ events # <<>>
    /\ lister' = Head(events)
    /\ events' = Tail(events)
    /\ UNCHANGED <<live, rv, memo, want, pc, required, existing, bounds>>

\* The watch broke and the informer lists again.
Relist ==
    /\ Len(events) > 1
    /\ lister' = live
    /\ events' = <<>>
    /\ UNCHANGED <<live, rv, memo, want, pc, required, existing, bounds>>

Next ==
    \/ Apply
    \/ CallFails \/ AnswerLost \/ Restart
    \/ Drift \/ CreateElsewhere \/ Delete \/ ChangeWant \/ WatchDeliver \/ Relist

Spec == Init /\ [][Next]_vars

\* The object is applied again and again (every event on a watched object, every
\* retry and the periodic resync start a sync), its calls are answered, and the
\* watch delivers.
Fairness == WF_vars(Apply) /\ WF_vars(WatchDeliver)

FairSpec == Spec /\ Fairness

-----------------------------------------------------------------------------
(* Properties                                                               *)

\* The apply is skipped only if the copy in the lister is one the Apply...
\* function would have left alone: an entry of the resource cache never vouches
\* for content that somebody else wrote (SafeToSkipApply,
\* UpdateCachedResourceMetadata).
SkipIsSound ==
    pc = "idle" /\ SafeToSkipApply(Required, lister) => Accepts(lister, Required)

\* The reconciler's own update of the object.
Overwrites == pc = "update" /\ pc' = "idle" /\ live' # live

\* An update replaces only a version that differed from what was required: a
\* change that lands between the live read and the update is not lost.
OverwritesOnlyDifferent == [][Overwrites => ~Accepts(live, required)]_vars

\* An administrator who set the annotation keeps shares of 0 and from what the
\* asset asks for up to 5, whatever the interleaving.
AdminSharesKept ==
    [][Overwrites => ~(live.extra = "allowed" /\ live.spec \in {0} \union required.spec..5)]_vars

\* The live object is as required, or within the administrator's limits.
Correct == live # NoObj /\ (live.spec = want \/ Tolerated(live, want))

\* Once the others leave the object alone it becomes, and stays, as required,
\* in spite of skipped applies, a lagging lister and faults before.
Converges == <>[]Correct

\* The versions of the object somebody still holds.
Held ==
    ({live, lister} \union (IF pc = "update" THEN {existing} ELSE {})
                    \union {events[i] : i \in 1..Len(events)}) \ {NoObj}

\* No version is from the future.
VersionsArePast == \A v \in Held : v.rv <= rv

\* A resourceVersion identifies one content.
VersionsAgree == \A u, v \in Held : u.rv = v.rv => u = v

\* What the resource cache remembers is true of the version it names.
MemoIsTrue ==
    memo # NoMemo => /\ memo.rv <= rv
                     /\ \A v \in Held : v.rv = memo.rv => Accepts(v, memo.required)

\* The inductive invariant behind SkipIsSound and OverwritesOnlyDifferent.
CacheInv ==
    /\ VersionsArePast
    /\ VersionsAgree
    /\ MemoIsTrue
    /\ pc = "update" => ~Accepts(existing, required)
=============================================================================
