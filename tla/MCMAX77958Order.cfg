SPECIFICATION Spec
CONSTANTS
    Core0Calls <- MCInit
    Latched <- MCNothing
    Events <- MCEvents
    MaxEvents = 1
    MaxDrops = 0
PROPERTY OpcodesInOrder
CHECK_DEADLOCK FALSE
