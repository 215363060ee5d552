------------------------ MODULE ApplyWithCacheProofs ------------------------
(* Machine-checked proofs about ApplyWithCache, for every kind of object,   *)
(* every set of contents and every bound.                                   *)
EXTENDS ApplyWithCache, TLAPS

(***************************************************************************)
(* Type correctness                                                        *)
(***************************************************************************)

\* What sync requires of the object is well typed.
LEMMA RequiredType ==
    ASSUME TypeOK
    PROVE  Required \in Content
<1>1. want \in Specs
  BY ContentAssumption DEF TypeOK
<1>2. "none" \in Extras /\ (lister # NoObj => lister.extra \in Extras)
  BY DEF TypeOK, Extras, Version
<1>3. Required.spec \in Specs /\ Required.extra \in Extras
  BY <1>1, <1>2 DEF Required
<1> QED
  BY <1>3 DEF Required, Content

\* So is the filler between two applies.
LEMMA NoContentType == NoContent \in Content
<1>1. (CHOOSE s \in Wants : TRUE) \in Specs
  BY ContentAssumption
<1> QED
  BY <1>1 DEF NoContent, Content, Extras

\* Storing a content makes a version with the next resourceVersion.
LEMMA StoreType ==
    ASSUME TypeOK, NEW c \in Content, Store(c)
    PROVE  /\ live' \in Version /\ live'.rv = rv + 1 /\ rv' = rv + 1 /\ rv' \in Nat
           /\ live'.spec = c.spec /\ live'.extra = c.extra
           /\ events' = Append(events, live')
           /\ events' \in Seq(Version \union {NoObj})
<1>1. /\ c.spec \in Specs /\ c.extra \in Extras /\ rv + 1 \in Nat
      /\ live' = [rv |-> rv + 1, spec |-> c.spec, extra |-> c.extra]
      /\ events' = Append(events, live') /\ rv' = rv + 1
  BY DEF Store, Content, TypeOK
<1>2. live' \in Version
  BY <1>1 DEF Version
<1> QED
  BY <1>1, <1>2 DEF TypeOK

\* What is remembered is well typed.
LEMMA RememberType ==
    ASSUME TypeOK, NEW n \in Nat, Remember(n)
    PROVE  memo' \in [rv: Nat, required: Content]
BY DEF TypeOK, Remember

\* Every step keeps the types.
LEMMA TypeStep == TypeOK /\ [Next]_vars => TypeOK'
<1> SUFFICES ASSUME TypeOK, [Next]_vars PROVE TypeOK'
  OBVIOUS
<1> USE LimitsAssumption, NoContentType, NoObjAssumption DEF objectVars, bounds
<1>1. CASE UNCHANGED vars
  BY <1>1 DEF vars, TypeOK
<1>2. CASE BeginApply
  BY <1>2, RequiredType DEF BeginApply, TypeOK
<1>3. CASE GetNotFound
  BY <1>3 DEF GetNotFound, TypeOK
<1>4. CASE GetUnmodified
  <2>1. live.rv \in Nat
    BY <1>4 DEF GetUnmodified, TypeOK, Version
  <2>2. memo' \in [rv: Nat, required: Content]
    BY <1>4, <2>1, RememberType DEF GetUnmodified
  <2> QED
    BY <1>4, <2>2 DEF GetUnmodified, Return, TypeOK
<1>5. CASE GetModified
  BY <1>5 DEF GetModified, TypeOK
<1>6. CASE Create \/ Update
  <2>1. /\ Store(required) /\ Remember(rv') /\ Return /\ required \in Content
        /\ UNCHANGED <<lister, want, faults, changes>>
    BY <1>6 DEF Create, Update, TypeOK
  <2>2. /\ live' \in Version /\ rv' \in Nat /\ events' \in Seq(Version \union {NoObj})
    BY <2>1, StoreType
  <2>3. memo' \in [rv: Nat, required: Content]
    BY <2>1, <2>2, RememberType
  <2> QED
    BY <2>1, <2>2, <2>3 DEF Return, TypeOK
<1>7. CASE CreateAlreadyExists \/ UpdateRefused \/ CallFails
  BY <1>7 DEF CreateAlreadyExists, UpdateRefused, CallFails, Fault, Return, TypeOK
<1>8. CASE AnswerLost
  <2>1. Store(required) /\ Return /\ required \in Content
    BY <1>8 DEF AnswerLost, TypeOK
  <2>2. /\ live' \in Version /\ rv' \in Nat /\ events' \in Seq(Version \union {NoObj})
    BY <2>1, StoreType
  <2> QED
    BY <1>8, <2>2 DEF AnswerLost, Fault, Return, TypeOK
<1>9. CASE Restart
  BY <1>9 DEF Restart, Fault, Return, TypeOK
<1>10. CASE Drift \/ CreateElsewhere
  <2>1. PICK c \in Content : Store(c)
    BY <1>10 DEF Drift, CreateElsewhere, Content, Extras
  <2>2. /\ live' \in Version /\ rv' \in Nat /\ events' \in Seq(Version \union {NoObj})
    BY <2>1, StoreType
  <2> QED
    BY <1>10, <2>2 DEF Drift, CreateElsewhere, Change, TypeOK
<1>11. CASE Delete
  BY <1>11 DEF Delete, Change, TypeOK
<1>12. CASE ChangeWant
  BY <1>12 DEF ChangeWant, Change, TypeOK
<1>13. CASE WatchDeliver
  BY <1>13 DEF WatchDeliver, TypeOK
<1>14. CASE Relist
  BY <1>14 DEF Relist, TypeOK
<1>15. CASE SkipApply
  BY <1>15, <1>1 DEF SkipApply
<1> QED
  BY <1>1, <1>2, <1>3, <1>4, <1>5, <1>6, <1>7, <1>8, <1>9, <1>10, <1>11, <1>12, <1>13,
     <1>14, <1>15 DEF Next, Apply

\* Every variable keeps its type; an update always has a version to compare with.
THEOREM TypeCorrect == Spec => []TypeOK
<1>1. Init => TypeOK
  BY LimitsAssumption, NoContentType DEF Init, TypeOK
<1> QED
  BY <1>1, TypeStep, PTL DEF Spec

(***************************************************************************)
(* The resource cache tells the truth                                      *)
(***************************************************************************)

\* Whatever is held is a version.
LEMMA HeldType == ASSUME TypeOK PROVE Held \subseteq Version
<1>1. \A i \in 1..Len(events) : events[i] \in Version \union {NoObj}
  BY DEF TypeOK
<1> QED
  BY <1>1 DEF Held, TypeOK

\* The parts of CacheInv about versions survive when nobody holds a new one.
LEMMA HeldShrinks ==
    ASSUME CacheInv, Held' \subseteq Held, rv' = rv, memo' = memo \/ memo' = NoMemo
    PROVE  VersionsArePast' /\ VersionsAgree' /\ MemoIsTrue'
BY DEF CacheInv, VersionsArePast, VersionsAgree, MemoIsTrue, Accepts, Tolerated

\* A write adds the one new version to those held.
LEMMA HeldAfterStore ==
    ASSUME TypeOK, NEW c \in Content, Store(c), lister' = lister,
           pc' = "update" => pc = "update" /\ existing' = existing
    PROVE  Held' \subseteq Held \union {live'}
<1>1. /\ events' = Append(events, live') /\ events \in Seq(Version \union {NoObj})
      /\ live' \in Version
  BY StoreType DEF TypeOK
<1>2. /\ Len(events) \in Nat /\ Len(events') = Len(events) + 1
      /\ \A i \in 1..Len(events) : events'[i] = events[i]
      /\ events'[Len(events) + 1] = live'
  BY <1>1
<1>3. ASSUME NEW i \in 1..Len(events'), events'[i] # NoObj
      PROVE  events'[i] \in Held \union {live'}
  <2>1. i \in 1..Len(events) \/ i = Len(events) + 1
    BY <1>2
  <2> QED
    BY <1>2, <1>3, <2>1 DEF Held
<1> QED
  BY <1>3 DEF Held

\* The parts about versions survive a write by anybody; nothing is held under
\* the new resourceVersion but what was just stored.
LEMMA StoreVersions ==
    ASSUME TypeOK, CacheInv, NEW c \in Content, Store(c), lister' = lister,
           pc' = "update" => pc = "update" /\ existing' = existing
    PROVE  /\ VersionsArePast' /\ VersionsAgree'
           /\ memo' = memo => MemoIsTrue'
           /\ \A v \in Held' : v.rv = rv' => v = live'
<1>1. /\ Held' \subseteq Held \union {live'} /\ Held \subseteq Version
      /\ live'.rv = rv + 1 /\ rv' = rv + 1 /\ rv \in Nat
  BY HeldAfterStore, HeldType, StoreType DEF TypeOK
<1>2. \A v \in Held : v.rv \in Nat /\ v.rv <= rv
  BY <1>1 DEF CacheInv, VersionsArePast, Version
<1>3. VersionsArePast' /\ \A v \in Held' : v.rv = rv' => v = live'
  BY <1>1, <1>2 DEF VersionsArePast
<1>4. VersionsAgree'
  <2> SUFFICES ASSUME NEW u \in Held', NEW v \in Held', u.rv = v.rv PROVE u = v
    BY DEF VersionsAgree
  <2>1. CASE u \in Held /\ v \in Held
    BY <2>1 DEF CacheInv, VersionsAgree
  <2>2. CASE ~(u \in Held /\ v \in Held)
    BY <1>1, <1>2, <2>2
  <2> QED
    BY <2>1, <2>2
<1>5. ASSUME memo' = memo, memo # NoMemo PROVE MemoIsTrue'
  <2>1. memo.rv \in Nat /\ memo.rv <= rv
    BY <1>5 DEF TypeOK, CacheInv, MemoIsTrue
  <2>2. ASSUME NEW v \in Held', v.rv = memo.rv PROVE Accepts(v, memo.required)
    <3>1. v \in Held
      BY <1>1, <2>1, <2>2
    <3> QED
      BY <1>5, <2>2, <3>1 DEF CacheInv, MemoIsTrue
  <2> QED
    BY <1>1, <1>5, <2>1, <2>2 DEF MemoIsTrue, Accepts, Tolerated
<1>6. memo' = NoMemo => MemoIsTrue'
  BY DEF MemoIsTrue
<1> QED
  BY <1>3, <1>4, <1>5, <1>6

\* Every step preserves the invariant.
LEMMA CacheStep == TypeOK /\ TypeOK' /\ CacheInv /\ [Next]_vars => CacheInv'
<1> SUFFICES ASSUME TypeOK, TypeOK', CacheInv, [Next]_vars PROVE CacheInv'
  OBVIOUS
<1> USE DEF objectVars, bounds
<1>1. ASSUME UNCHANGED <<live, rv, lister, events, memo>>, pc' # "update"
      PROVE  CacheInv'
  <2>1. Held' \subseteq Held
    BY <1>1 DEF Held
  <2> QED
    BY <1>1, <2>1, HeldShrinks DEF CacheInv
<1>2. CASE UNCHANGED vars
  <2>1. Held' = Held
    BY <1>2 DEF vars, Held
  <2> QED
    BY <1>2, <2>1, HeldShrinks DEF vars, CacheInv, Accepts, Tolerated
<1>3. CASE BeginApply \/ GetNotFound \/ CreateAlreadyExists \/ UpdateRefused \/ CallFails
  BY <1>1, <1>3 DEF BeginApply, GetNotFound, CreateAlreadyExists, UpdateRefused, CallFails,
                    Return
<1>4. CASE GetUnmodified
  <2>1. /\ live # NoObj /\ Accepts(live, required) /\ pc' = "idle"
        /\ memo' = [rv |-> live.rv, required |-> required]
        /\ UNCHANGED <<live, rv, lister, events>>
    BY <1>4 DEF GetUnmodified, Remember, Return
  <2>2. Held' \subseteq Held /\ live \in Held
    BY <2>1 DEF Held
  <2>3. VersionsArePast' /\ VersionsAgree'
    BY <2>1, <2>2 DEF CacheInv, VersionsArePast, VersionsAgree
  <2>4. live.rv <= rv /\ \A v \in Held' : v.rv = live.rv => v = live
    BY <2>1, <2>2 DEF CacheInv, VersionsArePast, VersionsAgree
  <2>5. memo'.rv = live.rv /\ memo'.required = required
    BY <2>1
  <2>6. MemoIsTrue'
    BY <2>1, <2>4, <2>5 DEF MemoIsTrue, Accepts, Tolerated
  <2> QED
    BY <2>1, <2>3, <2>6 DEF CacheInv
<1>5. CASE GetModified
  <2>1. /\ live # NoObj /\ ~Accepts(live, required) /\ existing' = live /\ pc' = "update"
        /\ UNCHANGED <<live, rv, lister, events, memo, required>>
    BY <1>5 DEF GetModified
  <2>2. Held' \subseteq Held
    BY <2>1 DEF Held
  <2>3. VersionsArePast' /\ VersionsAgree' /\ MemoIsTrue'
    BY <2>1, <2>2, HeldShrinks
  <2> QED
    BY <2>1, <2>3 DEF CacheInv, Accepts, Tolerated
<1>6. CASE Create \/ Update
  <2>1. /\ Store(required) /\ required \in Content /\ pc' = "idle" /\ lister' = lister
        /\ memo' = [rv |-> rv', required |-> required]
    BY <1>6 DEF Create, Update, Remember, Return, TypeOK
  <2>2. /\ VersionsArePast' /\ VersionsAgree'
        /\ \A v \in Held' : v.rv = rv' => v = live'
    BY <2>1, StoreVersions
  <2>3. live'.spec = required.spec /\ live'.extra = required.extra /\ rv' \in Nat
    BY <2>1, StoreType
  <2>4. memo'.rv = rv' /\ memo'.required = required
    BY <2>1
  <2>5. MemoIsTrue'
    BY <2>2, <2>3, <2>4 DEF MemoIsTrue, Accepts
  <2> QED
    BY <2>1, <2>2, <2>5 DEF CacheInv
<1>7. CASE AnswerLost
  <2>1. /\ Store(required) /\ required \in Content /\ pc' = "idle" /\ lister' = lister
        /\ memo' = memo
    BY <1>7 DEF AnswerLost, Return, TypeOK
  <2> QED
    BY <2>1, StoreVersions DEF CacheInv
<1>8. CASE Restart
  <2>1. /\ lister' = live /\ live' = live /\ rv' = rv /\ events' = <<>> /\ memo' = NoMemo
        /\ pc' = "idle"
    BY <1>8 DEF Restart, Return
  <2>2. Held' \subseteq Held
    BY <2>1 DEF Held
  <2> QED
    BY <2>1, <2>2, HeldShrinks DEF CacheInv
<1>9. CASE Drift \/ CreateElsewhere
  <2>1. PICK c \in Content : Store(c)
    BY <1>9 DEF Drift, CreateElsewhere, Content, Extras
  <2>2. UNCHANGED <<lister, memo, pc, required, existing>>
    BY <1>9 DEF Drift, CreateElsewhere
  <2> QED
    BY <2>1, <2>2, StoreVersions DEF CacheInv, Accepts, Tolerated
<1>10. CASE Delete
  <2>1. /\ live' = NoObj /\ events' = Append(events, NoObj)
        /\ events \in Seq(Version \union {NoObj})
        /\ UNCHANGED <<rv, lister, memo, pc, required, existing>>
    BY <1>10 DEF Delete, TypeOK
  <2>2. ASSUME NEW i \in 1..Len(events'), events'[i] # NoObj PROVE events'[i] \in Held
    <3>1. i \in 1..Len(events) /\ events'[i] = events[i]
      BY <2>1, <2>2
    <3> QED
      BY <2>2, <3>1 DEF Held
  <2>3. Held' \subseteq Held
    BY <2>1, <2>2 DEF Held
  <2> QED
    BY <2>1, <2>3, HeldShrinks DEF CacheInv, Accepts, Tolerated
<1>11. CASE ChangeWant
  <2>1. UNCHANGED <<live, rv, lister, events, memo, pc, required, existing>>
    BY <1>11 DEF ChangeWant
  <2>2. Held' = Held
    BY <2>1 DEF Held
  <2> QED
    BY <2>1, <2>2, HeldShrinks DEF CacheInv, Accepts, Tolerated
<1>12. CASE WatchDeliver
  <2>1. /\ events # <<>> /\ lister' = Head(events) /\ events' = Tail(events)
        /\ events \in Seq(Version \union {NoObj})
        /\ UNCHANGED <<live, rv, memo, pc, required, existing>>
    BY <1>12 DEF WatchDeliver, TypeOK
  <2>2. /\ 1 \in 1..Len(events) /\ lister' = events[1]
        /\ \A i \in 1..Len(events') : i + 1 \in 1..Len(events) /\ events'[i] = events[i + 1]
    BY <2>1
  <2>3. Held' \subseteq Held
    BY <2>1, <2>2 DEF Held
  <2> QED
    BY <2>1, <2>3, HeldShrinks DEF CacheInv, Accepts, Tolerated
<1>13. CASE Relist
  <2>1. /\ lister' = live /\ events' = <<>>
        /\ UNCHANGED <<live, rv, memo, pc, required, existing>>
    BY <1>13 DEF Relist
  <2>2. Held' \subseteq Held
    BY <2>1 DEF Held
  <2> QED
    BY <2>1, <2>2, HeldShrinks DEF CacheInv, Accepts, Tolerated
<1>14. CASE SkipApply
  BY <1>2, <1>14 DEF SkipApply
<1> QED
  BY <1>2, <1>3, <1>4, <1>5, <1>6, <1>7, <1>8, <1>9, <1>10, <1>11, <1>12, <1>13, <1>14
     DEF Next, Apply

\* A resourceVersion identifies one content, and the resource cache's entry is
\* true of the version it names, through every interleaving, fault and restart.
THEOREM CacheCorrect == Spec => [](TypeOK /\ CacheInv)
<1>1. Init => CacheInv
  <2> SUFFICES ASSUME Init PROVE CacheInv
    OBVIOUS
  <2>1. Held = {} /\ memo = NoMemo /\ pc = "idle"
    BY DEF Init, Held
  <2> QED
    BY <2>1 DEF CacheInv, VersionsArePast, VersionsAgree, MemoIsTrue
<1> QED
  BY <1>1, CacheStep, TypeCorrect, PTL DEF Spec

\* An apply is skipped only if the lister's copy is one the Apply... function
\* would have left alone.
THEOREM SkipIsSoundCorrect == Spec => []SkipIsSound
<1>1. TypeOK /\ CacheInv => SkipIsSound
  <2> SUFFICES ASSUME TypeOK, CacheInv, SafeToSkipApply(Required, lister)
               PROVE  Accepts(lister, Required)
    BY DEF SkipIsSound
  <2>1. /\ memo # NoMemo /\ lister # NoObj /\ memo.rv = lister.rv
        /\ memo.required = Required
    BY DEF SafeToSkipApply
  <2>2. lister \in Held
    BY <2>1 DEF Held
  <2>3. Accepts(lister, memo.required)
    BY <2>1, <2>2 DEF CacheInv, MemoIsTrue
  <2> QED
    BY <2>1, <2>3
<1> QED
  BY <1>1, CacheCorrect, PTL

\* The version an update replaces is there, and was found different.
LEMMA OverwrittenDiffers ==
    ASSUME TypeOK, CacheInv, [Next]_vars, Overwrites
    PROVE  live # NoObj /\ ~Accepts(live, required)
<1>1. Update \/ AnswerLost
  BY DEF Overwrites, Next, Apply, SkipApply, vars, BeginApply, GetNotFound, GetUnmodified,
         GetModified, Create, CreateAlreadyExists, UpdateRefused, CallFails, Restart,
         Drift, CreateElsewhere, Delete, ChangeWant, WatchDeliver, Relist, objectVars
<1>2. /\ pc = "update" /\ live # NoObj /\ live.rv = existing.rv /\ existing # NoObj
  BY <1>1 DEF Overwrites, Update, AnswerLost, TypeOK
<1>3. live \in Held /\ existing \in Held
  BY <1>2 DEF Held
<1>4. live = existing
  BY <1>2, <1>3 DEF CacheInv, VersionsAgree
<1> QED
  BY <1>2, <1>4 DEF CacheInv

\* An update replaces only a version that was compared and found different:
\* what somebody wrote after the live read is never lost.
THEOREM OverwritesOnlyDifferentCorrect == Spec => OverwritesOnlyDifferent
<1>1. TypeOK /\ CacheInv /\ [Next]_vars => [Overwrites => ~Accepts(live, required)]_vars
  BY OverwrittenDiffers
<1> QED
  BY <1>1, CacheCorrect, PTL DEF Spec, OverwritesOnlyDifferent

\* An administrator who set the annotation keeps shares of 0 and from the
\* asset's value up to 5, both ends included, whichever values the asset and
\* the administrator choose and however their writes race
\* (ApplyPriorityLevelConfiguration).
THEOREM AdminSharesKeptCorrect == Spec => AdminSharesKept
<1>1. ASSUME TypeOK, CacheInv, [Next]_vars, Overwrites,
             live.extra = "allowed", live.spec \in {0} \union required.spec..5
      PROVE  FALSE
  <2>1. live \in Version /\ required \in Content /\ ~Accepts(live, required)
    BY <1>1, OverwrittenDiffers DEF TypeOK
  <2>2. Kind = "plc"
    <3>1. live.extra \in Extras
      BY <2>1 DEF Version
    <3> QED
      BY <1>1, <3>1 DEF Extras
  <2>3. live.spec \in Nat /\ required.spec \in Nat
    BY <2>1, ContentAssumption DEF Version, Content
  <2>4. Tolerated(live, required.spec)
    BY <1>1, <2>2, <2>3 DEF Tolerated
  <2> QED
    BY <2>1, <2>4 DEF Accepts
<1>2. TypeOK /\ CacheInv /\ [Next]_vars =>
         [Overwrites => ~(live.extra = "allowed"
                          /\ live.spec \in {0} \union required.spec..5)]_vars
  BY <1>1
<1> QED
  BY <1>2, CacheCorrect, PTL DEF Spec, AdminSharesKept

(***************************************************************************)
(* What is left alone is as required                                       *)
(***************************************************************************)

\* What the informer has, or will have after the events in flight, is live.
WatchEndsAtLive ==
    /\ events = <<>> => lister = live
    /\ events # <<>> => events[Len(events)] = live

LEMMA WatchStep == TypeOK /\ TypeOK' /\ WatchEndsAtLive /\ [Next]_vars => WatchEndsAtLive'
<1> SUFFICES ASSUME TypeOK, TypeOK', WatchEndsAtLive, [Next]_vars PROVE WatchEndsAtLive'
  OBVIOUS
<1> USE DEF objectVars, bounds
<1>1. ASSUME UNCHANGED <<live, lister, events>> PROVE WatchEndsAtLive'
  BY <1>1 DEF WatchEndsAtLive
<1>2. ASSUME NEW v \in Version \union {NoObj}, live' = v, events' = Append(events, v)
      PROVE  WatchEndsAtLive'
  <2>1. /\ events \in Seq(Version \union {NoObj}) /\ Len(events) \in Nat
        /\ Len(events') = Len(events) + 1 /\ events'[Len(events) + 1] = v
    BY <1>2 DEF TypeOK
  <2>2. events' # <<>>
    BY <2>1
  <2> QED
    BY <1>2, <2>1, <2>2 DEF WatchEndsAtLive
<1>3. ASSUME NEW c \in Content, Store(c) PROVE WatchEndsAtLive'
  BY <1>2, <1>3, StoreType
<1>4. CASE \/ UNCHANGED vars \/ SkipApply \/ BeginApply \/ GetNotFound \/ GetUnmodified
           \/ GetModified \/ CreateAlreadyExists \/ UpdateRefused \/ CallFails \/ ChangeWant
  BY <1>1, <1>4 DEF vars, SkipApply, BeginApply, GetNotFound, GetUnmodified, GetModified,
                    CreateAlreadyExists, UpdateRefused, CallFails, ChangeWant
<1>5. CASE Create \/ Update \/ AnswerLost
  BY <1>3, <1>5 DEF Create, Update, AnswerLost, TypeOK
<1>6. CASE Drift \/ CreateElsewhere
  <2>1. PICK c \in Content : Store(c)
    BY <1>6 DEF Drift, CreateElsewhere, Content, Extras
  <2> QED
    BY <1>3, <2>1
<1>7. CASE Delete
  BY <1>2, <1>7 DEF Delete
<1>8. CASE Restart \/ Relist
  BY <1>8 DEF Restart, Relist, WatchEndsAtLive
<1>9. CASE WatchDeliver
  <2>1. /\ events # <<>> /\ lister' = Head(events) /\ events' = Tail(events) /\ live' = live
        /\ events \in Seq(Version \union {NoObj}) /\ events[Len(events)] = live
    BY <1>9 DEF WatchDeliver, TypeOK, WatchEndsAtLive
  <2>2. CASE Len(events) = 1
    <3>1. lister' = live
      BY <2>1, <2>2
    <3>2. events' \in Seq(Version \union {NoObj}) /\ Len(events') = 0
      BY <2>1, <2>2
    <3>3. events' = <<>>
      BY <3>2
    <3> QED
      BY <2>1, <3>1, <3>3 DEF WatchEndsAtLive
  <2>3. CASE Len(events) # 1
    <3>1. Len(events) \in Nat /\ Len(events) > 1
      <4>1. Len(events) \in Nat /\ Len(events) # 0
        BY <2>1
      <4> QED
        BY <2>3, <4>1
    <3>2. Len(events') = Len(events) - 1
      BY <2>1
    <3>3. \A i \in 1..Len(events') : events'[i] = events[i + 1]
      BY <2>1
    <3>4. events' # <<>> /\ events'[Len(events')] = events[Len(events)]
      BY <3>1, <3>2, <3>3
    <3> QED
      BY <2>1, <3>4 DEF WatchEndsAtLive
  <2> QED
    BY <2>2, <2>3
<1> QED
  BY <1>4, <1>5, <1>6, <1>7, <1>8, <1>9 DEF Next, Apply

\* An apply that is skipped with no event in flight leaves alone an object that
\* is as required or within the administrator's limits, whatever others wrote,
\* deleted or created, and whatever calls and processes failed, before
\* (SafeToSkipApply).  The safety half of Converges.
THEOREM SkipsOnlyCorrect ==
    Spec => [](events = <<>> /\ SafeToSkipApply(Required, lister) => Correct)
<1>1. Init => WatchEndsAtLive
  BY DEF Init, WatchEndsAtLive
<1>2. Spec => []WatchEndsAtLive
  BY <1>1, WatchStep, TypeCorrect, PTL DEF Spec
<1>3. TypeOK /\ CacheInv /\ WatchEndsAtLive =>
         (events = <<>> /\ SafeToSkipApply(Required, lister) => Correct)
  <2> SUFFICES ASSUME TypeOK, CacheInv, WatchEndsAtLive, events = <<>>,
                      SafeToSkipApply(Required, lister)
               PROVE  Correct
    OBVIOUS
  <2>1. /\ memo # NoMemo /\ lister # NoObj /\ memo.rv = lister.rv
        /\ memo.required = Required /\ lister = live
    BY DEF SafeToSkipApply, WatchEndsAtLive
  <2>2. live \in Held
    BY <2>1 DEF Held
  <2>3. Accepts(live, Required)
    BY <2>1, <2>2 DEF CacheInv, MemoIsTrue
  <2>4. Required.spec = want
    BY DEF Required
  <2> QED
    BY <2>1, <2>3, <2>4 DEF Accepts, Correct
<1> QED
  BY <1>2, <1>3, CacheCorrect, PTL
=============================================================================
