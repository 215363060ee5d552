\* The first policy and one that selects the operator as well and depends on the
\* platform (for the operator's access deny and metrics are like dns); two Kueue
\* objects, so that garbage is collected while a sync writes, and a backlog in
\* which an edit, the deletion, the re-creation and a patch find room.
SPECIFICATION Spec
CONSTANTS
    Policies = {"api", "dns"}
    OpenShift = TRUE
    Absent = Absent
    None = None
    MaxObjects = 2
    MaxLag = 4
    MaxFaults = 1
INVARIANT CutOffOnlyByGarbage
PROPERTY Converges
CHECK_DEADLOCK FALSE
