\* The user re-creates the object while the informer still holds the old one;
\* one fault, one change of the cluster.
SPECIFICATION FairSpec
CONSTANTS
    NoCR = NoCR
    Absent = Absent
    MaxUid = 2
    MaxGen = 1
    MaxLag = 4
    MaxFaults = 1
    MaxChanges = 1
    StaleRecreate = TRUE
INVARIANT WebhooksHaveCert
PROPERTY Converges
CHECK_DEADLOCK FALSE
