SPECIFICATION FairSpec
CONSTANTS
    PreDelay = 1
    Overlap = 1
    ResetDelay = 1
    TimerSpan = 3
    Allowances <- SomeAllowances
    AteAllowed = TRUE
INVARIANTS PreDischargeBounded SequenceInv
PROPERTIES MainAfterPreDischarge PowerOffStays PowerOffOpens DriveReached
