SPECIFICATION Spec
CONSTANTS
    MaxRetries = 3
    MaxQueued = 2
INVARIANTS
    TypeOK
    SettingsHold
    AlarmIsOnItsWay
    ThrownAtHome
PROPERTY
    AlarmClearedByItsReader
CHECK_DEADLOCK FALSE
