SPECIFICATION FairSpec
CONSTANTS
    Packs <- TwoPacks
    Groups = 2
    Crc <- SameFirst
    MaxMt = 2
    MaxHeard = 4
    SyncTimes = 1
    AnnounceTime = 4
    SilentTime = 2
    ReportTime = 2
    ClashLimit = 0
    CounterSpan = 2
INVARIANT NoClash
CHECK_DEADLOCK FALSE
PROPERTIES AddressesSettle
