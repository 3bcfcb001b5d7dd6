SPECIFICATION FairSpec
CONSTANTS
    charger = charger
    usb = usb
    wireless = wireless
    HeldPins <- MCHeldPins
    TogglePins <- MCTogglePins
    Capacity = 3
    MaxToggles = 3
INVARIANTS
    TypeOK
    AlarmOnItsWayOnce
    FlagFollowsAccepted
PROPERTIES
    FullQueueIsToggles
    AlarmIsRead
    FullQueueReported
CHECK_DEADLOCK FALSE
