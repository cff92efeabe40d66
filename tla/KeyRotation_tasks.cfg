SPECIFICATION FairSpec
CONSTANTS
    k1 = k1
    k2 = k2
    Tasks <- TwoTasks
    MaxKeys = 2
    Overlap = 1
    TokenLifetime = 1
    MaxVersion = 4
    MaxTokens = 1
    MaxTime = 2
    Never = Never
INVARIANTS
    CurrentKeyIsUsable
    VersionIsFree
    KeylessOnlyInRotation
    OverlapIsKept
    LimitIsEnforced
PROPERTIES
    KeyComesBack
