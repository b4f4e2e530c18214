SPECIFICATION Spec
CONSTANTS
    Packs = {p1, p2}
    Levels = {0, 2}
    VolOffer = 0
    QVolOffer = 1
    DisOn = 1
    DisOn1 = 1
    ChgOn = 1
    ChgOn1 = 2
    MtOsDelay = 2
    DisOff = 2
    ChgOff = 2
    OkDelay = 1
    DataDelay = 2
    MaxLost = 1
    MaxChanges = 2
    Buses <- MCBuses
    Settle = 13
SYMMETRY Symmetry
INVARIANTS RushBounded RushEnds LoadServed ChargerServed EqualsJoin
