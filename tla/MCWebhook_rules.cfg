\* A few webhooks of each asset, edits, labels, a CA renewal or a tampering, faults.
SPECIFICATION Spec
CONSTANTS
    Assets <- AssetsFew
    Selected <- SelectedFew
    FrameworkSets <- FrameworkSetsFew
    Namespaces = {operator, team}
    SystemNamespaces = {operator}
    OperatorNamespace = operator
    NoSelector = NoSelector
    NoConfig = NoConfig
    NoMemo = NoMemo
    MaxEdits = 2
    MaxChanges = 1
    MaxFaults = 1
INVARIANTS TypeOK OptInOnly OperandAdmitted
PROPERTIES WritesKeepCA Converges
