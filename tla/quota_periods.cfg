SPECIFICATION QuotaSpec
CONSTANTS
    Key = {k1, k2, k3}
    Stale = {k3}
    Refundable = {k1}
    Limit = 1
    Cycle = 2
    MonthLength = 2
    LastTick = 4
    LastPeriod = 2
INVARIANTS
    QuotaTypeOK
    EveryPeriodFits
CHECK_DEADLOCK FALSE
