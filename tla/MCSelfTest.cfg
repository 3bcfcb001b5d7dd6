SPECIFICATION FairSpec
CONSTANT MaxEvents = 2
INVARIANTS
    TypeOK
    TimesOutOnlyWithoutEdge
    AlarmOutlivesTest
PROPERTIES
    PassedRoundIsItsOwn
    OneEntryAfterTests
    ClearedFaultWasTold
    TestsEnd
CHECK_DEADLOCK FALSE
