----------------------------- MODULE MCWebhook -----------------------------
(* Instances of WebhookRules for TLC. *)
EXTENDS WebhookRules

AssetsFew ==
    [mutating |-> {"pod", "deployment", "workload"}, validating |-> {"pod", "cohort"}]

SelectedFew == {"pod", "deployment"}

FrameworkSetsFew == {{"BatchJob"}, {"Deployment"}}
=============================================================================
