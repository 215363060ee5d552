\* Deletion at any moment, with one failed call, lost answer, slow certificate or restart.
SPECIFICATION FairSpec
CONSTANTS
    NoCR = NoCR
    Absent = Absent
    MaxUid = 1
    MaxGen = 1
    MaxLag = 4
    MaxFaults = 1
    MaxChanges = 0
    StaleRecreate = FALSE
PROPERTY DeletionCompletes
CHECK_DEADLOCK FALSE
