\* The PriorityLevelConfiguration, of which other objects are the case without
\* tolerated contents: the asset asks for 2 shares, or for 3 in a later release,
\* and an administrator writes 0 to 6.
SPECIFICATION FairSpec
CONSTANTS
    Kind = "plc"
    NoObj = NoObj
    NoMemo = NoMemo
    Specs = {0, 1, 2, 3, 4, 5, 6}
    Wants = {2, 3}
    MaxLag = 3
    MaxFaults = 1
    MaxChanges = 2
INVARIANTS
    TypeOK
    SkipIsSound
    CacheInv
PROPERTIES
    OverwritesOnlyDifferent
    AdminSharesKept
    Converges
CHECK_DEADLOCK FALSE
