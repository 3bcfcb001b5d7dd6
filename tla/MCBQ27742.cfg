SPECIFICATION FairSpec
CONSTANTS
    Blocks <- MCBlocks
    Noise <- MCNoise
    MaxNoise = 2
    MaxRestarts = 2
    MaxFalls = 3
    MaxRefusals = 1
INVARIANTS
    TypeOK
    ListensToOneEdge
    PendingIsCleared
    DueIsOnItsWay
    FlashIsOldOrWanted
    ConfiguredIsConfigured
PROPERTY
    DueIsRead
CHECK_DEADLOCK FALSE
