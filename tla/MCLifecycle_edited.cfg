\* Two incarnations of the Kueue object, each edited once, re-created only after
\* the informer saw the first one go; one fault.
SPECIFICATION FairSpec
CONSTANTS
    NoCR = NoCR
    Absent = Absent
    MaxUid = 2
    MaxGen = 2
    MaxLag = 3
    MaxFaults = 1
    MaxChanges = 0
    StaleRecreate = FALSE
INVARIANTS
    TypeOK
    FinalizerGuards
    GuardInv
PROPERTIES
    FinalizerDroppedClean
    ImplementsContract
    Converges
    UndisturbedDeletionCompletes
CHECK_DEADLOCK FALSE
