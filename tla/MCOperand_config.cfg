\* Every section of spec.config, in the clusters that make a difference to it.
SPECIFICATION Spec
CONSTANTS
    Omitted = Omitted
    BuildError = BuildError
    NoProfile = NoProfile
    Unsupported = Unsupported
    NoConfigMap = NoConfigMap
    KnownCiphers = {"aes", "chacha"}
    KnownGroups = {"x25519"}
    Scenarios <- ScenariosAll
    MaxEdits = 1
    MaxChanges = 1
    MaxFaults = 2
CHECK_DEADLOCK FALSE
INVARIANTS
    TypeOK
    SourcesGated
PROPERTIES
    OutageKeepsSources
    Converges
