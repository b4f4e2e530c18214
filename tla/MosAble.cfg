SPECIFICATION BothSpec
CONSTANTS
    Delay = 2
    LockDelay = 2
    GrantDelay = 3
    Span = 6

INVARIANT BannedChargeBounded
PROPERTIES LockHolds UnderVoltageRevokes DischargeRevokes HealthyGrants
           ChgGrants
