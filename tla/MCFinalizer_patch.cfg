SPECIFICATION Spec
CONSTANTS
    Own = Own
    Others = {f1, f2}
    NoObject = NoObject
    NoChange = NoChange
    MaxUid = 2
    MaxChanges = 2
    MaxFaults = 1
CHECK_DEADLOCK FALSE
INVARIANTS
    TypeOK
    GuardedWhileApplying
PROPERTIES
    RemovalKeepsOthers
    UnsharedDeletionCompletes
