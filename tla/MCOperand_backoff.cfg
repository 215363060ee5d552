\* A strategy that leaves a backoff to its default.
SPECIFICATION Spec
CONSTANTS
    Omitted = Omitted
    BuildError = BuildError
    NoProfile = NoProfile
    Unsupported = Unsupported
    NoConfigMap = NoConfigMap
    KnownCiphers = {"aes", "chacha"}
    KnownGroups = {"x25519"}
    Scenarios <- ScenariosAll
    MaxEdits = 1
    MaxChanges = 0
    MaxFaults = 0
CHECK_DEADLOCK FALSE
INVARIANTS
    OmittedBackoffAccepted
