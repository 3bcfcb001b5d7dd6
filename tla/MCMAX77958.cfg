SPECIFICATION FairSpec
CONSTANTS
    Core0Calls <- MCAllCalls
    Latched <- MCLatched
    Events <- MCEvents
    MaxEvents = 1
    MaxDrops = 1
INVARIANTS
    TypeOK
    NoOpcodeStranded
PROPERTIES
    OpcodesInOrderUnlessClashed
    OpcodesDrain
    WaitEndsWithOwnAnswer
CONSTRAINT NoClash
CHECK_DEADLOCK FALSE
