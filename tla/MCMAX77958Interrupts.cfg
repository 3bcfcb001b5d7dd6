SPECIFICATION Spec
CONSTANTS
    Core0Calls <- MCNoCalls
    Latched <- MCNothing
    Events <- MCEvents
    MaxEvents = 1
    MaxDrops = 0
INVARIANT ReturnBufIsInterrupts
CHECK_DEADLOCK FALSE
