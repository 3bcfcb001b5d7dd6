SPECIFICATION FairSpec
CONSTANTS
    core0 = core0
    core1 = core1
    irq0 = irq0
    short = short
    long = long
    NoCaller = NoCaller
    NoMessage = NoMessage
    Reader = core0
    Interrupt = irq0
    Callers <- MCCallers
    Messages <- MCMessages
    MsgChars <- MCMsgChars
    LineCount = 3
    CharLimit = 4
    CountModulus = 8
INVARIANTS
    TypeOK
    EndsMeet
    CountIsCharsLessUnused
PROPERTIES
    LastLinesInOrder
    LockReleased
CHECK_DEADLOCK FALSE
