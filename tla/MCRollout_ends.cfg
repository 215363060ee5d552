CONSTANTS
    Absent = Absent
    MaxLag = 2
    MaxRotations = 1
    MaxChanges = 1
    MaxFaults = 1
SPECIFICATION Spec
INVARIANTS TypeOK MemoTrue
PROPERTY RolloutsEnd
CHECK_DEADLOCK FALSE
