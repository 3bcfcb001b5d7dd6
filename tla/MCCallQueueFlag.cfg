SPECIFICATION Spec
CONSTANTS
    charger = charger
    usb = usb
    wireless = wireless
    HeldPins <- MCHeldPins
    TogglePins <- MCTogglePins
    Capacity = 3
    MaxToggles = 3
INVARIANT
    FlagFollowsPin
CHECK_DEADLOCK FALSE
