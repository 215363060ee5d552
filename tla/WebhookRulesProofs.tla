------------------------- MODULE WebhookRulesProofs -------------------------
(* Machine-checked proofs about WebhookRules, for every pair of assets, all *)
(* frameworks and namespaces, and every bound on edits and disturbances.    *)
EXTENDS WebhookRules, TLAPS

(***************************************************************************)
(* The inductive invariant                                                 *)
(***************************************************************************)

\* The selector that a webhook of the suffix is given.
SelectorOf(s) ==
    IF isClusterScopedFramework(getFramework(s)) THEN assetSelector(s)
    ELSE mergeSelectors(defaultLabelSelector, assetSelector(s))

\* Webhooks as the operator builds them for c, with a bundle up to the given one.
Built(c, webhooks, bundle) ==
    /\ webhooks \subseteq Webhooks
    /\ \A wh \in webhooks :
          /\ wh.name \in Assets[c] /\ Registered(wh.name)
          /\ wh.selector = SelectorOf(wh.name)
          /\ wh.caBundle \in 0..bundle
    /\ \A v, w \in webhooks : v.name = w.name => v = w

WebhookTypes ==
    /\ frameworks \in FrameworkSets
    /\ managed \subseteq Namespaces
    /\ pc \in {"idle", "get", "write"} \X Configurations
    /\ live \in [Configurations -> Live \union {NoConfig}]
    /\ memo \in [Configurations -> Memos \union {NoMemo}]
    /\ ca \in Nat /\ changes \in Nat

\* Whoever wrote last, what is in the API server is what the operator builds.
LiveBuilt == \A c \in Configurations : live[c] # NoConfig => Built(c, live[c].webhooks, ca)

\* An update starts from a configuration that was there, and from an asset
\* whose every webhook is registered.
WriteIsDue == pc[1] = "write" => existing # NoConfig /\ \A s \in Assets[pc[2]] : Registered(s)

\* The cache is never ahead of a configuration that is there, and where it is
\* not behind, the webhooks there are the ones it remembers: a create is always
\* remembered, and every other write makes a new version.
Named(webhooks) == {wh.name : wh \in webhooks}
MemoTrue ==
    \A c \in Configurations :
        memo[c] # NoMemo =>
            /\ \A s \in Assets[c] : Registered(s)
            /\ live[c] # NoConfig =>
                  /\ memo[c].version <= live[c].version
                  /\ memo[c].version = live[c].version =>
                        Named(memo[c].required) = Named(live[c].webhooks)

WebhookInv == WebhookTypes /\ LiveBuilt /\ WriteIsDue /\ MemoTrue

(***************************************************************************)
(* Selectors                                                               *)
(***************************************************************************)

\* What mergeSelectors makes of the operator's selector and an asset's.
LEMMA MergedProperties ==
    ASSUME NEW s
    PROVE  LET merged == mergeSelectors(defaultLabelSelector, assetSelector(s))
           IN  /\ merged \in Selectors
               /\ "managed" \in DOMAIN merged
               /\ merged["managed"] = [operator |-> "In", values |-> {"true"}]
               /\ DOMAIN merged \subseteq {"managed", "name"}
               /\ s \notin Selected => "name" \notin DOMAIN merged
               /\ s \in Selected =>
                     /\ "name" \in DOMAIN merged
                     /\ merged["name"] = [operator |-> "NotIn", values |-> SystemNamespaces]
<1> DEFINE managedIn == [operator |-> "In", values |-> {"true"}]
           nameNotIn == [operator |-> "NotIn", values |-> SystemNamespaces]
<1>1. managedIn \in Expressions /\ nameNotIn \in Expressions
  BY WebhookAssumption DEF Expressions
<1> HIDE DEF managedIn, nameNotIn
<1> DEFINE default == [managed |-> managedIn]
           asset == [name |-> nameNotIn]
<1>2. /\ default \in [{"managed"} -> Expressions] /\ default["managed"] = managedIn
      /\ DOMAIN default = {"managed"}
  BY <1>1
<1>3. /\ asset \in [{"name"} -> Expressions] /\ asset["name"] = nameNotIn
      /\ DOMAIN asset = {"name"}
  BY <1>1
<1>4. default \in Selectors /\ asset \in Selectors
  BY <1>2, <1>3 DEF Selectors
<1>5. default # NoSelector /\ asset # NoSelector
  BY <1>4, NothingAssumption
<1>6. /\ defaultLabelSelector = default
      /\ assetSelector(s) = IF s \in Selected THEN asset ELSE NoSelector
  BY DEF defaultLabelSelector, assetSelector, managedIn, nameNotIn
<1> HIDE DEF default, asset
<1>7. CASE s \in Selected
  <2> DEFINE merged == [key \in {"managed", "name"} |->
                           IF key \in {"managed"} THEN default[key] ELSE asset[key]]
  <2>1. mergeSelectors(defaultLabelSelector, assetSelector(s)) = merged
    <3>1. {"managed"} \union {"name"} = {"managed", "name"}
      OBVIOUS
    <3> QED
      BY <1>2, <1>3, <1>5, <1>6, <1>7, <3>1 DEF mergeSelectors
  <2>2. merged["managed"] = managedIn /\ merged["name"] = nameNotIn
    BY <1>2, <1>3
  <2>3. merged \in [{"managed", "name"} -> Expressions]
    BY <1>1, <1>2, <1>3
  <2>4. merged \in Selectors /\ DOMAIN merged = {"managed", "name"}
    BY <2>3 DEF Selectors
  <2> HIDE DEF merged
  <2> QED
    BY <1>7, <2>1, <2>2, <2>4 DEF managedIn, nameNotIn
<1>8. CASE s \notin Selected
  <2>1. mergeSelectors(defaultLabelSelector, assetSelector(s)) = default
    BY <1>5, <1>6, <1>8 DEF mergeSelectors
  <2> QED
    BY <1>2, <1>4, <1>8, <2>1 DEF managedIn
<1> QED
  BY <1>7, <1>8

\* The selector of any webhook, of one whose kind has namespaces in particular.
LEMMA SelectorProperties ==
    ASSUME NEW s
    PROVE  /\ SelectorOf(s) \in Selectors \union {NoSelector}
           /\ Registered(s) /\ s \notin ClusterScoped =>
                SelectorOf(s) = mergeSelectors(defaultLabelSelector, assetSelector(s))
<1>1. assetSelector(s) \in Selectors \union {NoSelector}
  <2> DEFINE e == [operator |-> "NotIn", values |-> SystemNamespaces]
  <2>1. e \in Expressions
    BY WebhookAssumption DEF Expressions
  <2> HIDE DEF e
  <2>2. [name |-> e] \in [{"name"} -> Expressions]
    BY <2>1
  <2>3. [name |-> e] \in Selectors
    BY <2>2 DEF Selectors
  <2> QED
    BY <2>3 DEF assetSelector, e
<1>2. ASSUME Registered(s), isClusterScopedFramework(getFramework(s))
      PROVE  s \in ClusterScoped
  <2>1. webhooksList[getFramework(s)] = s
    BY <1>2 DEF Registered, getFramework
  <2>2. /\ webhooksList["annotationClusterQueue"] = "clusterqueue"
        /\ webhooksList["annotationResourceFlavor"] = "resourceflavor"
        /\ webhooksList["annotationCohort"] = "cohort"
    BY DEF webhooksList
  <2> QED
    BY <1>2, <2>1, <2>2 DEF isClusterScopedFramework, ClusterScoped
<1> QED
  BY <1>1, <1>2, MergedProperties DEF SelectorOf

(***************************************************************************)
(* Sets of webhooks                                                        *)
(***************************************************************************)

\* What ModifyPodBased...Webhook returns, of an asset with unregistered names too.
LEMMA RequiredTyped ==
    ASSUME NEW c \in Configurations, NEW fws
    PROVE  ModifyPodBasedWebhook(fws, Assets[c]) \subseteq Webhooks
<1> DEFINE made(s) == [name |-> s, caBundle |-> 0, selector |-> SelectorOf(s)]
<1>1. ModifyPodBasedWebhook(fws, Assets[c]) \subseteq {made(s) : s \in Assets[c]}
  BY DEF ModifyPodBasedWebhook, SelectorOf
<1>2. \A s \in Assets[c] : made(s) \in Webhooks
  BY WebhookAssumption, SelectorProperties DEF Webhooks
<1> QED
  BY <1>1, <1>2

\* It is built, whatever bundle is current.
LEMMA RequiredBuilt ==
    ASSUME NEW c \in Configurations, \A s \in Assets[c] : Registered(s),
           NEW fws, NEW bundle \in Nat
    PROVE  Built(c, ModifyPodBasedWebhook(fws, Assets[c]), bundle)
<1> DEFINE enabled == {s \in Assets[c] : getFramework(s) \in buildEnabledFrameworks(fws)}
           made(s) == [name |-> s, caBundle |-> 0, selector |-> SelectorOf(s)]
<1>1. ModifyPodBasedWebhook(fws, Assets[c]) = {made(s) : s \in enabled}
  BY DEF ModifyPodBasedWebhook, SelectorOf
<1>2. \A s \in enabled : s \in Assets[c] /\ Registered(s) /\ s \in STRING
  BY WebhookAssumption
<1> HIDE DEF enabled
<1>3. \A s \in enabled : made(s) \in Webhooks
  BY <1>2, SelectorProperties DEF Webhooks
<1>4. \A s : made(s).name = s /\ made(s).caBundle = 0 /\ made(s).selector = SelectorOf(s)
  OBVIOUS
<1> HIDE DEF made
<1>5. 0 \in 0..bundle
  OBVIOUS
<1> QED
  BY <1>1, <1>2, <1>3, <1>4, <1>5 DEF Built

\* A webhook with another bundle.
LEMMA BundleReplaced ==
    ASSUME NEW wh \in Webhooks, NEW b \in Nat
    PROVE  LET new == [wh EXCEPT !.caBundle = b]
           IN  /\ new \in Webhooks
               /\ new.name = wh.name /\ new.selector = wh.selector /\ new.caBundle = b
  BY DEF Webhooks

\* copyMutatingWebhookCABundle keeps webhooks built, and by name it hands on
\* exactly the bundle that was there.
LEMMA CopyBuilt ==
    ASSUME NEW c, NEW bundle \in Nat, NEW from, NEW to,
           Built(c, from, bundle), Built(c, to, bundle)
    PROVE  /\ Built(c, copyCABundle(from, to), bundle)
           /\ Named(copyCABundle(from, to)) = Named(to)
           /\ \A new \in copyCABundle(from, to), old \in from :
                 new.name = old.name => new.caBundle = old.caBundle
<1> DEFINE kept(wh) == IF \E old \in from : old.name = wh.name
                       THEN (CHOOSE old \in from : old.name = wh.name).caBundle
                       ELSE wh.caBundle
           made(wh) == [wh EXCEPT !.caBundle = kept(wh)]
<1>1. copyCABundle(from, to) = {made(wh) : wh \in to}
  BY DEF copyCABundle
<1>2. ASSUME NEW wh \in to, NEW old \in from, old.name = wh.name
      PROVE  kept(wh) = old.caBundle
  <2> DEFINE chosen == CHOOSE o \in from : o.name = wh.name
  <2>1. chosen \in from /\ chosen.name = wh.name
    BY <1>2
  <2>2. chosen = old
    BY <1>2, <2>1 DEF Built
  <2> QED
    BY <1>2, <2>2
<1>3. ASSUME NEW wh \in to PROVE kept(wh) \in 0..bundle
  <2>1. CASE \E old \in from : old.name = wh.name
    BY <1>2, <2>1 DEF Built
  <2>2. CASE ~ \E old \in from : old.name = wh.name
    BY <2>2 DEF Built
  <2> QED
    BY <2>1, <2>2
<1> HIDE DEF kept
<1>4. ASSUME NEW wh \in to
      PROVE  /\ made(wh) \in Webhooks /\ made(wh).name = wh.name
             /\ made(wh).selector = wh.selector /\ made(wh).caBundle = kept(wh)
  <2>1. wh \in Webhooks /\ kept(wh) \in Nat
    BY <1>3 DEF Built
  <2> QED
    BY <2>1, BundleReplaced
<1> HIDE DEF made
<1>5. Built(c, {made(wh) : wh \in to}, bundle)
  BY <1>3, <1>4 DEF Built
<1>6. \A new \in {made(wh) : wh \in to}, old \in from :
         new.name = old.name => new.caBundle = old.caBundle
  BY <1>2, <1>4
<1>7. Named({made(wh) : wh \in to}) = Named(to)
  BY <1>4 DEF Named
<1> QED
  BY <1>1, <1>5, <1>6, <1>7

\* So does the injector, and so does whoever takes webhooks away; a renewed
\* CA leaves the older bundles valid ones.
LEMMA InjectBuilt ==
    ASSUME NEW c, NEW bundle \in Nat, NEW from, Built(c, from, bundle)
    PROVE  Built(c, {[wh EXCEPT !.caBundle = bundle] : wh \in from}, bundle)
<1> DEFINE made(wh) == [wh EXCEPT !.caBundle = bundle]
<1>1. ASSUME NEW wh \in from
      PROVE  /\ made(wh) \in Webhooks /\ made(wh).name = wh.name
             /\ made(wh).selector = wh.selector /\ made(wh).caBundle = bundle
  BY BundleReplaced DEF Built
<1> HIDE DEF made
<1>2. Built(c, {made(wh) : wh \in from}, bundle)
  <2>1. bundle \in 0..bundle
    OBVIOUS
  <2> QED
    BY <1>1, <2>1 DEF Built
<1> QED
  BY <1>2 DEF made

LEMMA FewerBuilt ==
    ASSUME NEW c, NEW bundle \in Nat, NEW from, NEW to \in SUBSET from,
           Built(c, from, bundle)
    PROVE  Built(c, to, bundle) /\ Built(c, to, bundle + 1)
<1>1. \A n \in 0..bundle : n \in 0..(bundle + 1)
  OBVIOUS
<1> QED
  BY <1>1 DEF Built

(***************************************************************************)
(* The steps                                                               *)
(***************************************************************************)

\* A record is a configuration, and so never the absence of one.
LEMMA LiveProperties ==
    ASSUME NEW webhooks \in SUBSET Webhooks, NEW version \in Nat
    PROVE  LET new == [webhooks |-> webhooks, version |-> version]
           IN  /\ new \in Live /\ new # NoConfig
               /\ new.webhooks = webhooks /\ new.version = version
  BY NothingAssumption DEF Live

\* So is what the resource cache remembers.
LEMMA MemoProperties ==
    ASSUME NEW required \in SUBSET Webhooks, NEW version \in Nat
    PROVE  LET new == [required |-> required, version |-> version]
           IN  /\ new \in Memos /\ new # NoMemo
               /\ new.version = version /\ new.required = required
  BY NothingAssumption DEF Memos

\* A write of the operator: a built configuration, remembered with its version.
LEMMA WritePreserves ==
    ASSUME WebhookInv, NEW c \in Configurations, NEW webhooks, NEW required,
           NEW version \in Nat, Built(c, webhooks, ca), Built(c, required, ca),
           Named(required) = Named(webhooks), \A s \in Assets[c] : Registered(s),
           live' = [live EXCEPT ![c] = [webhooks |-> webhooks, version |-> version]],
           Remember(c, required, version),
           pc' = Following(c),
           UNCHANGED <<envVars, certVars>>
    PROVE  WebhookInv'
<1> DEFINE new == [webhooks |-> webhooks, version |-> version]
           entry == [required |-> required, version |-> version]
<1>1. new \in Live /\ new # NoConfig /\ new.webhooks = webhooks /\ new.version = version
  BY LiveProperties DEF Built
<1>2. entry \in Memos /\ entry.version = version /\ entry.required = required
  BY MemoProperties DEF Built
<1>3. live' = [live EXCEPT ![c] = new] /\ memo' = [memo EXCEPT ![c] = entry]
  BY DEF Remember
<1> HIDE DEF new, entry
<1>4. live'[c] = new /\ memo'[c] = entry
  BY <1>3 DEF WebhookInv, WebhookTypes
<1>5. \A d \in Configurations \ {c} : live'[d] = live[d] /\ memo'[d] = memo[d]
  BY <1>3 DEF WebhookInv, WebhookTypes
<1>6. /\ frameworks' = frameworks /\ managed' = managed /\ ca' = ca /\ changes' = changes
  BY DEF envVars, certVars
<1>7. pc' \in {<<"get", "validating">>, <<"idle", c>>}
  BY DEF Following
<1>8. WebhookTypes'
  <2>1. pc' \in {"idle", "get", "write"} \X Configurations
    BY <1>7 DEF Configurations
  <2>2. live' \in [Configurations -> Live \union {NoConfig}]
    BY <1>1, <1>3 DEF WebhookInv, WebhookTypes
  <2>3. memo' \in [Configurations -> Memos \union {NoMemo}]
    BY <1>2, <1>3 DEF WebhookInv, WebhookTypes
  <2> QED
    BY <1>6, <2>1, <2>2, <2>3 DEF WebhookInv, WebhookTypes
<1>9. LiveBuilt'
  BY <1>1, <1>4, <1>5, <1>6 DEF WebhookInv, LiveBuilt
<1>10. WriteIsDue'
  BY <1>7 DEF WriteIsDue
<1>11. MemoTrue'
  BY <1>1, <1>2, <1>4, <1>5, <1>6 DEF WebhookInv, MemoTrue
<1> QED
  BY <1>8, <1>9, <1>10, <1>11 DEF WebhookInv

\* A step of the sync that writes nothing.
LEMMA MovePreserves ==
    ASSUME WebhookInv, UNCHANGED <<envVars, live, memo, certVars>>,
           pc' \in {"idle", "get", "write"} \X Configurations, WriteIsDue'
    PROVE  WebhookInv'
  BY DEF WebhookInv, WebhookTypes, LiveBuilt, MemoTrue, envVars, certVars

\* A step of somebody else that leaves the configurations in the API server
\* built, and makes a new version of one it changes.
LEMMA OthersPreserve ==
    ASSUME WebhookInv, UNCHANGED <<memo, pc, existing>>,
           live' \in [Configurations -> Live \union {NoConfig}],
           ca' \in Nat, changes' \in Nat, LiveBuilt',
           frameworks' \in FrameworkSets, managed' \subseteq Namespaces,
           \A c \in Configurations :
              live'[c] # NoConfig =>
                 /\ live[c] # NoConfig
                 /\ live'[c] = live[c] \/ live[c].version < live'[c].version
    PROVE  WebhookInv'
<1>1. WebhookTypes'
  BY DEF WebhookInv, WebhookTypes
<1>2. WriteIsDue'
  BY DEF WebhookInv, WriteIsDue
<1>3. MemoTrue'
  <2> SUFFICES ASSUME NEW c \in Configurations, memo[c] # NoMemo
               PROVE  /\ \A s \in Assets[c] : Registered(s)
                      /\ live'[c] # NoConfig =>
                            /\ memo[c].version <= live'[c].version
                            /\ memo[c].version = live'[c].version =>
                                  Named(memo[c].required) = Named(live'[c].webhooks)
    BY DEF MemoTrue
  <2>1. \A s \in Assets[c] : Registered(s)
    BY DEF WebhookInv, MemoTrue
  <2>2. ASSUME live'[c] # NoConfig
        PROVE  /\ memo[c].version <= live'[c].version
               /\ memo[c].version = live'[c].version =>
                     Named(memo[c].required) = Named(live'[c].webhooks)
    <3>1. live[c] # NoConfig /\ (live'[c] = live[c] \/ live[c].version < live'[c].version)
      BY <2>2
    <3>2. /\ memo[c].version <= live[c].version
          /\ memo[c].version = live[c].version =>
                Named(memo[c].required) = Named(live[c].webhooks)
      BY <3>1 DEF WebhookInv, MemoTrue
    <3>3. memo[c].version \in Nat /\ live[c].version \in Nat /\ live'[c].version \in Nat
      BY <2>2, <3>1 DEF WebhookInv, WebhookTypes, Memos, Live
    <3> QED
      BY <3>1, <3>2, <3>3
  <2> QED
    BY <2>1, <2>2
<1> QED
  BY <1>1, <1>2, <1>3 DEF WebhookInv

LEMMA ManagePreserves ==
    ASSUME WebhookInv, NEW c \in Configurations, manageWebhook(c)
    PROVE  WebhookInv'
<1> DEFINE required == ModifyPodBasedWebhook(kueue, Assets[c])
<1>1. Built(c, required, ca)
  BY RequiredBuilt DEF manageWebhook, WebhookInv, WebhookTypes
<1>2. CASE /\ live' = [live EXCEPT ![c] = [webhooks |-> required, version |-> 1]]
           /\ Remember(c, required, 1)
           /\ pc' = Following(c)
  <2> HIDE DEF required
  <2> QED
    BY <1>1, <1>2, WritePreserves DEF manageWebhook
<1>3. CASE pc' = Following(c) /\ UNCHANGED <<live, memo, existing>>
  <2>1. pc' \in {<<"get", "validating">>, <<"idle", c>>}
    BY <1>3 DEF Following
  <2>2. WriteIsDue' /\ pc' \in {"idle", "get", "write"} \X Configurations
    BY <2>1 DEF WriteIsDue, Configurations
  <2>3. UNCHANGED <<envVars, live, memo, certVars>>
    BY <1>3 DEF manageWebhook
  <2> QED
    BY <2>2, <2>3, MovePreserves
<1>4. CASE live[c] # NoConfig /\ existing' = live[c] /\ pc' = <<"write", c>> /\ UNCHANGED <<live, memo>>
  <2>1. WriteIsDue' /\ pc' \in {"idle", "get", "write"} \X Configurations
    BY <1>4 DEF WriteIsDue, Configurations, manageWebhook
  <2>2. UNCHANGED <<envVars, live, memo, certVars>>
    BY <1>4 DEF manageWebhook
  <2> QED
    BY <2>1, <2>2, MovePreserves
<1> QED
  BY <1>2, <1>3, <1>4 DEF manageWebhook

\* What an accepted update puts in the API server.
LEMMA UpdateEffect ==
    ASSUME WebhookInv, NEW c \in Configurations, updateWebhook(c), live[c] = existing
    PROVE  LET required == ModifyPodBasedWebhook(kueue, Assets[c])
               updated == copyCABundle(existing.webhooks, required)
           IN  /\ live[c] # NoConfig /\ live[c] \in Live
               /\ \A s \in Assets[c] : Registered(s)
               /\ Built(c, required, ca) /\ Built(c, updated, ca)
               /\ Named(required) = Named(updated)
               /\ \A new \in updated, old \in live[c].webhooks :
                     new.name = old.name => new.caBundle = old.caBundle
               /\ \E version \in Nat :
                     /\ live' = [live EXCEPT ![c] = [webhooks |-> updated,
                                                     version |-> version]]
                     /\ Remember(c, required, version)
               /\ pc' = Following(c)
<1> DEFINE required == ModifyPodBasedWebhook(kueue, Assets[c])
           updated == copyCABundle(existing.webhooks, required)
           version == existing.version + (IF updated = existing.webhooks THEN 0 ELSE 1)
<1>1. pc[1] = "write" /\ pc[2] = c /\ ca \in Nat
  BY DEF updateWebhook, WebhookInv, WebhookTypes
<1>2. existing # NoConfig /\ \A s \in Assets[c] : Registered(s)
  BY <1>1 DEF WebhookInv, WriteIsDue
<1>3. live[c] \in Live
  BY <1>2 DEF WebhookInv, WebhookTypes
<1>4. Built(c, live[c].webhooks, ca)
  BY <1>2 DEF WebhookInv, LiveBuilt
<1>5. Built(c, required, ca)
  BY <1>1, <1>2, RequiredBuilt
<1>6. /\ live' = [live EXCEPT ![c] = [webhooks |-> updated, version |-> version]]
      /\ Remember(c, required, version) /\ pc' = Following(c)
  BY DEF updateWebhook
<1>7. version \in Nat
  BY <1>3 DEF Live
<1> HIDE DEF required, version
<1>8. /\ Built(c, updated, ca) /\ Named(required) = Named(updated)
      /\ \A new \in updated, old \in live[c].webhooks :
            new.name = old.name => new.caBundle = old.caBundle
  BY <1>1, <1>4, <1>5, CopyBuilt
<1> HIDE DEF updated
<1>9. \E v \in Nat :
         /\ live' = [live EXCEPT ![c] = [webhooks |-> updated, version |-> v]]
         /\ Remember(c, required, v)
  BY <1>6, <1>7
<1> QED
  BY <1>2, <1>3, <1>5, <1>6, <1>8, <1>9 DEF required, updated

LEMMA UpdatePreserves ==
    ASSUME WebhookInv, NEW c \in Configurations, updateWebhook(c)
    PROVE  WebhookInv'
<1>1. UNCHANGED <<envVars, certVars>>
  BY DEF updateWebhook
<1>2. CASE live[c] = existing
  <2> DEFINE required == ModifyPodBasedWebhook(kueue, Assets[c])
             updated == copyCABundle(existing.webhooks, required)
  <2>1. /\ Built(c, required, ca) /\ Built(c, updated, ca) /\ pc' = Following(c)
        /\ Named(required) = Named(updated) /\ \A s \in Assets[c] : Registered(s)
    BY <1>2, UpdateEffect
  <2>2. PICK version \in Nat :
           /\ live' = [live EXCEPT ![c] = [webhooks |-> updated, version |-> version]]
           /\ Remember(c, required, version)
    BY <1>2, UpdateEffect
  <2> HIDE DEF required, updated
  <2> QED
    BY <1>1, <2>1, <2>2, WritePreserves
<1>3. CASE live[c] # existing
  <2>1. pc' = <<"idle", c>> /\ UNCHANGED <<live, memo>>
    BY <1>3 DEF updateWebhook
  <2>2. WriteIsDue' /\ pc' \in {"idle", "get", "write"} \X Configurations
    BY <2>1 DEF WriteIsDue
  <2> QED
    BY <1>1, <2>1, <2>2, MovePreserves
<1> QED
  BY <1>2, <1>3

LEMMA InjectPreserves ==
    ASSUME WebhookInv, NEW c \in Configurations, Inject(c)
    PROVE  WebhookInv'
<1> DEFINE webhooks == {[wh EXCEPT !.caBundle = ca] : wh \in live[c].webhooks}
           new == [webhooks |-> webhooks, version |-> live[c].version + 1]
<1>1. /\ live[c] # NoConfig /\ live[c] \in Live /\ Built(c, live[c].webhooks, ca)
      /\ ca \in Nat
  BY DEF Inject, WebhookInv, WebhookTypes, LiveBuilt
<1>2. Built(c, webhooks, ca)
  BY <1>1, InjectBuilt
<1>3. live' = [live EXCEPT ![c] = new]
  BY <1>1 DEF Inject, Live, WebhookInv, WebhookTypes
<1> HIDE DEF webhooks
<1>4. /\ new \in Live /\ new # NoConfig /\ new.webhooks = webhooks
      /\ live[c].version \in Nat /\ new.version = live[c].version + 1
  BY <1>1, <1>2, LiveProperties DEF Built, Live
<1> HIDE DEF new
<1>5. /\ live' \in [Configurations -> Live \union {NoConfig}]
      /\ live'[c] = new /\ \A d \in Configurations \ {c} : live'[d] = live[d]
  BY <1>3, <1>4 DEF WebhookInv, WebhookTypes
<1>6. UNCHANGED <<envVars, memo, pc, existing, certVars>>
  BY DEF Inject
<1>7. LiveBuilt'
  BY <1>2, <1>4, <1>5, <1>6 DEF WebhookInv, LiveBuilt, certVars
<1>8. \A d \in Configurations :
         live'[d] # NoConfig =>
            live[d] # NoConfig /\ (live'[d] = live[d] \/ live[d].version < live'[d].version)
  <2>1. \A d \in Configurations : live[d] # NoConfig => live[d].version \in Nat
    BY DEF WebhookInv, WebhookTypes, Live
  <2> QED
    BY <1>1, <1>4, <1>5, <2>1
<1> QED
  BY <1>5, <1>6, <1>7, <1>8, OthersPreserve
     DEF WebhookInv, WebhookTypes, envVars, certVars

LEMMA DisturbPreserves ==
    ASSUME WebhookInv, Disturb
    PROVE  WebhookInv'
<1>1. changes' \in Nat /\ UNCHANGED <<envVars, memo, pc, existing>>
  BY DEF Disturb, WebhookInv, WebhookTypes
<1>2. /\ frameworks' \in FrameworkSets /\ managed' \subseteq Namespaces /\ ca \in Nat
      /\ live \in [Configurations -> Live \union {NoConfig}]
  BY <1>1 DEF WebhookInv, WebhookTypes, envVars
<1>3. CASE ca' = ca + 1 /\ UNCHANGED live
  <2>1. LiveBuilt'
    BY <1>2, <1>3, FewerBuilt DEF WebhookInv, LiveBuilt
  <2> QED
    BY <1>1, <1>2, <1>3, <2>1, OthersPreserve
<1>4. ASSUME NEW c \in Configurations, ca' = ca, live' = [live EXCEPT ![c] = NoConfig]
      PROVE  WebhookInv'
  <2>1. live' \in [Configurations -> Live \union {NoConfig}]
    BY <1>2, <1>4
  <2>2. LiveBuilt'
    BY <1>2, <1>4 DEF WebhookInv, LiveBuilt
  <2> QED
    BY <1>1, <1>2, <1>4, <2>1, <2>2, OthersPreserve
<1>5. ASSUME NEW c \in Configurations, live[c] # NoConfig, NEW wh, ca' = ca,
             live' = [live EXCEPT ![c].webhooks = @ \ {wh}, ![c].version = @ + 1]
      PROVE  WebhookInv'
  <2> DEFINE webhooks == live[c].webhooks \ {wh}
             new == [webhooks |-> webhooks, version |-> live[c].version + 1]
  <2>1. live[c] \in Live /\ Built(c, live[c].webhooks, ca)
    BY <1>5 DEF WebhookInv, WebhookTypes, LiveBuilt
  <2>2. live' = [live EXCEPT ![c] = new]
    BY <1>2, <1>5, <2>1 DEF Live
  <2>3. Built(c, webhooks, ca)
    BY <1>2, <2>1, FewerBuilt
  <2>4. /\ new \in Live /\ new.webhooks = webhooks
        /\ live[c].version \in Nat /\ new.version = live[c].version + 1
    BY <2>1, <2>3, LiveProperties DEF Built, Live
  <2> HIDE DEF new, webhooks
  <2>5. /\ live' \in [Configurations -> Live \union {NoConfig}]
        /\ live'[c] = new /\ \A d \in Configurations \ {c} : live'[d] = live[d]
    BY <1>2, <2>2, <2>4
  <2>6. LiveBuilt'
    BY <1>5, <2>3, <2>4, <2>5 DEF WebhookInv, LiveBuilt
  <2>7. live[c].version < live'[c].version
    BY <2>4, <2>5
  <2> QED
    BY <1>1, <1>2, <1>5, <2>5, <2>6, <2>7, OthersPreserve
<1> QED
  BY <1>3, <1>4, <1>5 DEF Disturb

LEMMA InitInv == Init => WebhookInv
<1> SUFFICES ASSUME Init PROVE WebhookInv
  OBVIOUS
<1>1. WebhookTypes
  BY DEF Init, WebhookTypes, Configurations
<1>2. pc[1] = "idle" /\ \A c \in Configurations : live[c] = NoConfig /\ memo[c] = NoMemo
  BY DEF Init
<1> QED
  BY <1>1, <1>2 DEF WebhookInv, LiveBuilt, WriteIsDue, MemoTrue

LEMMA InvStep == WebhookInv /\ [Next]_vars => WebhookInv'
<1> SUFFICES ASSUME WebhookInv, [Next]_vars PROVE WebhookInv'
  OBVIOUS
<1>1. CASE BeginSync
  <2>1. pc' = <<"get", "mutating">> /\ UNCHANGED <<envVars, live, memo, certVars>>
    BY <1>1 DEF BeginSync
  <2>2. WriteIsDue' /\ pc' \in {"idle", "get", "write"} \X Configurations
    BY <2>1 DEF WriteIsDue, Configurations
  <2> QED
    BY <2>1, <2>2, MovePreserves
<1>2. ASSUME NEW c \in Configurations, manageWebhook(c) PROVE WebhookInv'
  BY <1>2, ManagePreserves
<1>3. ASSUME NEW c \in Configurations, updateWebhook(c) PROVE WebhookInv'
  BY <1>3, UpdatePreserves
<1>4. ASSUME NEW c \in Configurations, Inject(c) PROVE WebhookInv'
  BY <1>4, InjectPreserves
<1>5. CASE SyncFails
  <2>1. /\ pc' = <<"idle", pc[2]>> /\ pc[2] \in Configurations
        /\ UNCHANGED <<envVars, live, memo, certVars>>
    BY <1>5 DEF SyncFails, WebhookInv, WebhookTypes
  <2>2. WriteIsDue' /\ pc' \in {"idle", "get", "write"} \X Configurations
    BY <2>1 DEF WriteIsDue
  <2> QED
    BY <2>1, <2>2, MovePreserves
<1>6. CASE Restart
  <2>1. /\ pc' = <<"idle", "mutating">> /\ memo' = [c \in Configurations |-> NoMemo]
        /\ frameworks' = frameworks /\ managed' = managed /\ live' = live
        /\ ca' = ca /\ changes' = changes
    BY <1>6 DEF Restart, envVars, certVars
  <2>2. WebhookTypes'
    BY <2>1 DEF WebhookInv, WebhookTypes, Configurations
  <2>3. LiveBuilt' /\ WriteIsDue' /\ MemoTrue'
    BY <2>1 DEF WebhookInv, LiveBuilt, WriteIsDue, MemoTrue
  <2> QED
    BY <2>2, <2>3 DEF WebhookInv
<1>7. CASE Disturb
  BY <1>7, DisturbPreserves
<1>8. CASE UserEdit \/ UserLabels \/ UNCHANGED vars
  <2>1. /\ frameworks' \in FrameworkSets /\ managed' \subseteq Namespaces
        /\ UNCHANGED <<live, memo, pc, existing, ca, changes>>
    BY <1>8 DEF UserEdit, UserLabels, vars, envVars, certVars, WebhookInv, WebhookTypes
  <2>2. LiveBuilt'
    BY <2>1 DEF WebhookInv, LiveBuilt
  <2> QED
    BY <2>1, <2>2, OthersPreserve DEF WebhookInv, WebhookTypes
<1> QED
  BY <1>1, <1>2, <1>3, <1>4, <1>5, <1>6, <1>7, <1>8 DEF Next, Sync

(***************************************************************************)
(* The theorems                                                            *)
(***************************************************************************)

\* A request for a namespaced kind that reaches Kueue met both expressions of
\* its webhook's selector.
LEMMA InterceptedMeets ==
    ASSUME WebhookInv, NEW c \in Configurations, NEW kind, kind \notin ClusterScoped,
           NEW ns, Intercepted(c, kind, ns)
    PROVE  /\ LabelsOf(ns)["managed"] = "true"
           /\ kind \in Selected => LabelsOf(ns)["name"] \notin SystemNamespaces
<1>1. PICK wh \in live[c].webhooks : Intercepts(wh, kind, ns)
  BY DEF Intercepted
<1>2. Built(c, live[c].webhooks, ca)
  BY DEF Intercepted, WebhookInv, LiveBuilt
<1>3. wh.name = kind /\ Registered(kind) /\ wh.selector = SelectorOf(kind)
  BY <1>1, <1>2 DEF Built, Intercepts
<1>4. wh.selector = mergeSelectors(defaultLabelSelector, assetSelector(kind))
  BY <1>3, SelectorProperties
<1>5. /\ wh.selector # NoSelector
      /\ "managed" \in DOMAIN wh.selector
      /\ wh.selector["managed"] = [operator |-> "In", values |-> {"true"}]
      /\ kind \in Selected =>
            /\ "name" \in DOMAIN wh.selector
            /\ wh.selector["name"] = [operator |-> "NotIn", values |-> SystemNamespaces]
  BY <1>4, MergedProperties, NothingAssumption
<1>6. \A key \in DOMAIN wh.selector : Meets(LabelsOf(ns)[key], wh.selector[key])
  BY <1>1, <1>5 DEF Intercepts
<1>7. LabelsOf(ns)["managed"] \in {"true"}
  BY <1>5, <1>6 DEF Meets
<1>8. kind \in Selected => LabelsOf(ns)["name"] \notin SystemNamespaces
  BY <1>5, <1>6 DEF Meets
<1> QED
  BY <1>7, <1>8

LEMMA InvImplies == WebhookInv => TypeOK /\ OptInOnly /\ OperandAdmitted
<1> SUFFICES ASSUME WebhookInv PROVE TypeOK /\ OptInOnly /\ OperandAdmitted
  OBVIOUS
<1>1. TypeOK
  BY DEF WebhookInv, WebhookTypes, LiveBuilt, MemoTrue, Built, TypeOK
<1>2. OptInOnly
  <2> SUFFICES ASSUME NEW c \in Configurations, NEW ns \in Namespaces \ managed,
                      NEW kind \in Assets[c] \ ClusterScoped, Intercepted(c, kind, ns)
               PROVE  FALSE
    BY DEF OptInOnly
  <2>1. LabelsOf(ns)["managed"] = "true"
    BY InterceptedMeets
  <2>2. LabelsOf(ns)["managed"] = "unset"
    BY DEF LabelsOf
  <2> QED
    BY <2>1, <2>2
<1>3. OperandAdmitted
  <2> SUFFICES ASSUME NEW c \in Configurations, NEW kind \in {"pod", "deployment"},
                      Intercepted(c, kind, OperatorNamespace)
               PROVE  FALSE
    BY DEF OperandAdmitted
  <2>1. kind \in Selected /\ kind \notin ClusterScoped
    BY WebhookAssumption DEF ClusterScoped
  <2>2. LabelsOf(OperatorNamespace)["name"] \notin SystemNamespaces
    BY <2>1, InterceptedMeets
  <2>3. LabelsOf(OperatorNamespace)["name"] = OperatorNamespace
    BY DEF LabelsOf
  <2> QED
    BY <2>2, <2>3, WebhookAssumption
<1> QED
  BY <1>1, <1>2, <1>3

LEMMA InvHolds == Spec => []WebhookInv
  BY InitInv, InvStep, PTL DEF Spec

\* Whatever the operator, the injector, users and faults do in whatever order:
\* a live configuration has only webhooks of its asset, each name once and with
\* a bundle the injector has issued, and the resource cache is never ahead of the
\* configuration in the API server (ModifyPodBased...Webhook, copy...CABundle).
THEOREM TypeCorrect == Spec => []TypeOK
  BY InvHolds, InvImplies, PTL

\* No object in a namespace without the label ever reaches Kueue, for every
\* asset and every framework: mergeSelectors puts the opt-in first.
THEOREM OptInOnlyCorrect == Spec => []OptInOnly
  BY InvHolds, InvImplies, PTL

\* Kueue's own pods and Deployment are never sent to Kueue, whoever labels its
\* namespace: mergeSelectors keeps the exclusion the asset brings.
THEOREM OperandAdmittedCorrect == Spec => []OperandAdmitted
  BY InvHolds, InvImplies, PTL

\* The step of WritesKeepCA.
LEMMA WritesKeepCAStep ==
    ASSUME WebhookInv, [Next]_vars, NEW c \in Configurations,
           pc = <<"write", c>>, pc' # pc, live[c] # NoConfig,
           NEW name \in {wh.name : wh \in live[c].webhooks}
    PROVE  \/ BundleOf(c, name)' = BundleOf(c, name)
           \/ \A wh \in live'[c].webhooks : wh.name # name
<1>1. CASE live' = live
  BY <1>1 DEF BundleOf
<1>2. CASE live' # live
  <2>1. updateWebhook(c) /\ live[c] = existing
    <3>1. ~ UNCHANGED vars /\ ~ BeginSync /\ ~ SyncFails /\ ~ Restart /\ ~ Disturb
          /\ ~ UserEdit /\ ~ UserLabels /\ ~ \E d \in Configurations : Inject(d)
      BY <1>2 DEF vars, BeginSync, SyncFails, Restart, Disturb, UserEdit, UserLabels, Inject
    <3>2. ~ \E d \in Configurations : manageWebhook(d)
      BY DEF manageWebhook
    <3>3. PICK d \in Configurations : updateWebhook(d)
      BY <3>1, <3>2 DEF Next, Sync
    <3>4. d = c
      BY <3>3 DEF updateWebhook
    <3> QED
      BY <1>2, <3>3, <3>4 DEF updateWebhook
  <2> DEFINE required == ModifyPodBasedWebhook(kueue, Assets[c])
             updated == copyCABundle(existing.webhooks, required)
  <2>2. /\ Built(c, updated, ca) /\ live[c] \in Live /\ Built(c, live[c].webhooks, ca)
        /\ \A new \in updated, old \in live[c].webhooks :
              new.name = old.name => new.caBundle = old.caBundle
    BY <2>1, UpdateEffect DEF WebhookInv, LiveBuilt
  <2>3. PICK version \in Nat :
           live' = [live EXCEPT ![c] = [webhooks |-> updated, version |-> version]]
    BY <2>1, UpdateEffect
  <2> HIDE DEF required, updated
  <2>4. live'[c] # NoConfig /\ live'[c].webhooks = updated
    BY <2>2, <2>3, LiveProperties DEF Built, WebhookInv, WebhookTypes
  <2>5. SUFFICES ASSUME NEW new \in updated, new.name = name
                 PROVE  BundleOf(c, name)' = BundleOf(c, name)
    BY <2>4
  <2> DEFINE before == CHOOSE wh \in live[c].webhooks : wh.name = name
             after == CHOOSE wh \in live'[c].webhooks : wh.name = name
  <2>6. before \in live[c].webhooks /\ before.name = name
    OBVIOUS
  <2>7. after \in updated /\ after.name = name
    BY <2>4, <2>5
  <2>8. BundleOf(c, name) = before.caBundle
    BY DEF BundleOf
  <2>9. BundleOf(c, name)' = after.caBundle
    BY <2>4, <2>5 DEF BundleOf
  <2> HIDE DEF before, after
  <2> QED
    BY <2>2, <2>6, <2>7, <2>8, <2>9
<1> QED
  BY <1>1, <1>2

\* No write of the operator takes an injected bundle from a webhook that stays:
\* an accepted Update is of the version that was read, and the copy is by name.
THEOREM WritesKeepCACorrect == Spec => WritesKeepCA
<1>1. WebhookInv /\ [Next]_vars =>
         [\A c \in Configurations :
             pc = <<"write", c>> /\ pc' # pc /\ live[c] # NoConfig =>
                \A name \in {wh.name : wh \in live[c].webhooks} :
                   \/ BundleOf(c, name)' = BundleOf(c, name)
                   \/ \A wh \in live'[c].webhooks : wh.name # name]_vars
  BY WritesKeepCAStep
<1> QED
  BY <1>1, InvHolds, PTL DEF Spec, WritesKeepCA

(***************************************************************************)
(* What the operator and the injector leave when they rest                 *)
(***************************************************************************)

\* No two frameworks have webhooks of the same name.
LEMMA SuffixesDistinct ==
    ASSUME NEW f \in DOMAIN webhooksList, NEW g \in DOMAIN webhooksList,
           webhooksList[f] = webhooksList[g]
    PROVE  f = g
  BY DEF webhooksList

\* The frameworks whose webhooks are kept are those of the kinds wanted.
LEMMA EnabledIsWanted ==
    ASSUME frameworks \in FrameworkSets, NEW kind, Registered(kind)
    PROVE  getFramework(kind) \in buildEnabledFrameworks(frameworks) <=> kind \in Wanted
<1> DEFINE fw == getFramework(kind)
           gated == frameworks \intersect {"LeaderWorkerSet", "StatefulSet", "Deployment"}
<1>1. fw \in DOMAIN webhooksList /\ webhooksList[fw] = kind
  BY DEF Registered, getFramework
<1>2. /\ Core \subseteq DOMAIN webhooksList /\ "Pod" \in DOMAIN webhooksList
      /\ webhooksList["Pod"] = "pod"
      /\ webhooksList["annotationClusterQueue"] = "clusterqueue"
      /\ webhooksList["annotationWorkload"] = "workload"
      /\ webhooksList["annotationResourceFlavor"] = "resourceflavor"
      /\ webhooksList["annotationCohort"] = "cohort"
  BY DEF webhooksList, Core
<1>3. frameworks \subseteq DOMAIN webhooksList
  BY FrameworksAssumption
<1> HIDE DEF fw
<1>4. \A g \in DOMAIN webhooksList : webhooksList[g] = kind => g = fw
  BY <1>1, SuffixesDistinct
<1>5. fw \in Core <=> kind \in ClusterScoped \union {"workload"}
  BY <1>1, <1>2, <1>4 DEF Core, ClusterScoped
<1>6. fw \in frameworks <=> kind \in {webhooksList[g] : g \in frameworks}
  BY <1>1, <1>3, <1>4
<1>7. fw = "Pod" <=> kind = "pod"
  BY <1>1, <1>2, <1>4
<1>8. fw \in buildEnabledFrameworks(frameworks) <=>
         fw \in frameworks \/ fw \in Core \/ (gated # {} /\ fw = "Pod")
  BY DEF buildEnabledFrameworks
<1>9. kind \in Wanted <=>
         \/ kind \in ClusterScoped \union {"workload"}
         \/ kind \in {webhooksList[g] : g \in frameworks}
         \/ gated # {} /\ kind = "pod"
  BY DEF Wanted
<1> QED
  BY <1>5, <1>6, <1>7, <1>8, <1>9 DEF fw

LEMMA RequiredNames ==
    ASSUME NEW fws, NEW suffixes
    PROVE  Named(ModifyPodBasedWebhook(fws, suffixes)) =
              {s \in suffixes : getFramework(s) \in buildEnabledFrameworks(fws)}
<1> DEFINE enabled == {s \in suffixes : getFramework(s) \in buildEnabledFrameworks(fws)}
           made(s) == [name |-> s, caBundle |-> 0, selector |-> SelectorOf(s)]
<1>1. ModifyPodBasedWebhook(fws, suffixes) = {made(s) : s \in enabled}
  BY DEF ModifyPodBasedWebhook, SelectorOf
<1>2. \A s : made(s).name = s
  OBVIOUS
<1> HIDE DEF made, enabled
<1>3. {wh.name : wh \in {made(s) : s \in enabled}} = enabled
  BY <1>2
<1> QED
  BY <1>1, <1>3 DEF Named, enabled

\* A webhook that is there intercepts every object of a cluster-scoped kind, and
\* of another kind the objects in labelled namespaces that its asset admits.
LEMMA InterceptsExactly ==
    ASSUME WebhookInv, NEW c \in Configurations, live[c] # NoConfig,
           NEW kind \in Named(live[c].webhooks), NEW ns
    PROVE  Intercepted(c, kind, ns) <=>
              \/ kind \in ClusterScoped
              \/ ns \in managed /\ (ns \notin SystemNamespaces \/ kind \notin Selected)
<1>1. PICK wh \in live[c].webhooks : wh.name = kind
  BY DEF Named
<1>2. Built(c, live[c].webhooks, ca)
  BY DEF WebhookInv, LiveBuilt
<1>3. \A w \in live[c].webhooks : w.name = kind => w = wh
  BY <1>1, <1>2 DEF Built
<1>4. Intercepted(c, kind, ns) <=> Intercepts(wh, kind, ns)
  BY <1>1, <1>3 DEF Intercepted, Intercepts
<1>5. CASE kind \in ClusterScoped
  BY <1>1, <1>4, <1>5 DEF Intercepts
<1>6. CASE kind \notin ClusterScoped
  <2>1. Registered(kind) /\ wh.selector = SelectorOf(kind)
    BY <1>1, <1>2 DEF Built
  <2>2. wh.selector = mergeSelectors(defaultLabelSelector, assetSelector(kind))
    BY <1>6, <2>1, SelectorProperties
  <2>3. /\ wh.selector # NoSelector
        /\ "managed" \in DOMAIN wh.selector
        /\ DOMAIN wh.selector \subseteq {"managed", "name"}
        /\ "name" \in DOMAIN wh.selector <=> kind \in Selected
        /\ wh.selector["managed"] = [operator |-> "In", values |-> {"true"}]
        /\ kind \in Selected =>
              wh.selector["name"] = [operator |-> "NotIn", values |-> SystemNamespaces]
    BY <2>2, MergedProperties, NothingAssumption
  <2>4. Meets(LabelsOf(ns)["managed"], [operator |-> "In", values |-> {"true"}]) <=>
           ns \in managed
    BY DEF Meets, LabelsOf
  <2>5. Meets(LabelsOf(ns)["name"], [operator |-> "NotIn", values |-> SystemNamespaces]) <=>
           ns \notin SystemNamespaces
    BY DEF Meets, LabelsOf
  <2>6. Intercepts(wh, kind, ns) <=>
           \A key \in DOMAIN wh.selector : Meets(LabelsOf(ns)[key], wh.selector[key])
    BY <1>1, <1>6, <2>3 DEF Intercepts
  <2> HIDE DEF Named
  <2>7. Intercepts(wh, kind, ns) <=>
           ns \in managed /\ (kind \in Selected => ns \notin SystemNamespaces)
    BY <2>3, <2>4, <2>5, <2>6
  <2> QED
    BY <1>4, <1>6, <2>7
<1> QED
  BY <1>5, <1>6

\* A sync that started now would skip both applies, and the injector has
\* nothing to do.
Rested ==
    \A c \in Configurations :
        /\ live[c] # NoConfig
        /\ memo[c] = [required |-> ModifyPodBasedWebhook(frameworks, Assets[c]),
                      version |-> live[c].version]
        /\ \A wh \in live[c].webhooks : wh.caBundle = ca

LEMMA RestedCorrect == WebhookInv /\ Rested => Correct
<1> SUFFICES ASSUME WebhookInv, Rested, NEW c \in Configurations,
                    NEW kind \in Assets[c], NEW ns \in Namespaces
             PROVE  Intercepted(c, kind, ns) <=>
                       /\ kind \in Wanted
                       /\ \/ kind \in ClusterScoped
                          \/ /\ ns \in managed
                             /\ ns \notin SystemNamespaces \/ kind \notin Selected
  BY DEF Rested, Correct
<1> DEFINE required == ModifyPodBasedWebhook(frameworks, Assets[c])
<1>1. live[c] # NoConfig /\ memo[c] = [required |-> required, version |-> live[c].version]
  BY DEF Rested
<1>2. memo[c].required = required /\ memo[c].version = live[c].version
  BY <1>1
<1>3. memo[c] # NoMemo
  <2>1. required \subseteq Webhooks /\ live[c].version \in Nat
    BY <1>1, RequiredTyped DEF WebhookInv, WebhookTypes, Live
  <2> HIDE DEF required
  <2> QED
    BY <1>1, <2>1, MemoProperties
<1>4. Registered(kind) /\ Named(live[c].webhooks) = Named(required)
  BY <1>1, <1>2, <1>3 DEF WebhookInv, MemoTrue
<1>5. kind \in Named(live[c].webhooks) <=> kind \in Wanted
  BY <1>4, RequiredNames, EnabledIsWanted DEF WebhookInv, WebhookTypes
<1>6. CASE kind \in Named(live[c].webhooks)
  BY <1>1, <1>5, <1>6, InterceptsExactly
<1>7. CASE kind \notin Named(live[c].webhooks)
  BY <1>5, <1>7 DEF Intercepted, Intercepts, Named
<1> QED
  BY <1>6, <1>7

\* Whatever edits, labels, renewals, tampering and faults came before: when the
\* resource cache lets the next sync skip both applies and every bundle is the
\* current one, exactly the kinds asked for are intercepted, in the namespaces
\* they should be.  What is skipped is never wrong (Apply...Improved with
\* SafeToSkipApply), the safety half of Converges.
THEOREM RestsOnlyWhenCorrect == Spec => [](Rested => Correct)
  BY InvHolds, RestedCorrect, PTL

=============================================================================
