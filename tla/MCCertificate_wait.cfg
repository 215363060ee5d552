\* Nothing is assumed of cert-manager.
SPECIFICATION Spec
CONSTANTS
    Names <- TwoNames
    Timeout = 3
    CallTime = 1
    Absent = Absent
    MaxChanges = 2
    MaxFaults = 1
INVARIANT WaitBounded
PROPERTIES WorkerReleased Converges
CHECK_DEADLOCK FALSE
