SPECIFICATION Spec
CONSTANTS
    Core0Calls <- MCInit
    Latched <- MCNothing
    Events <- MCEvents
    MaxEvents = 0
    MaxDrops = 0
INVARIANT BufferStartsWithOpcode
CHECK_DEADLOCK FALSE
