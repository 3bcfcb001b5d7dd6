SPECIFICATION FairSpec
CONSTANTS
    Levels <- MCLevels
    Types <- MCTypes
    MaxPackets = 2
    MaxFlushes = 1
INVARIANTS
    TypeOK
    OnlySentCommands
    InStepAfterQuiet
    RepliesInOrder
PROPERTIES
    PacketsAnswered
CHECK_DEADLOCK FALSE
