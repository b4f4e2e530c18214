SPECIFICATION FairSpec
CONSTANTS
    KeyDelay = 2
    ComOver = 2
    PreOff = 3
    CutDelay = 3
    KeyTimer = 3
    PauseTimer = 1
    HostTimers = {0, 1}
    TestTime = 1
    MaxCommands = 2

INVARIANT CutAfterNotice
PROPERTIES KeyOffServed FaultServed PoweringOffEnds
CHECK_DEADLOCK FALSE
